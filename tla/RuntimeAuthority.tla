-------------------------- MODULE RuntimeAuthority --------------------------
(* production/engine/runtime.py: processes that share one runtime root,    *)
(* each of which starts a RuntimeAuthority, takes the ownership lock file, *)
(* validates its package, runs and releases the lock. The lock file and    *)
(* the state file are what the processes share; every read, unlink and     *)
(* write of them is a step of its own. os.kill(pid, 0) is the alive        *)
(* variable: a process that is gone has a pid no other process takes.      *)
EXTENDS Naturals

CONSTANTS
    Runtimes,      \* processes, each with an owner_id and a pid
    NoRuntime,     \* no process: the lock or the state file is not there
    DiskMayFill,   \* a write to the disk may fail
    MaxRuntimeCrashes     \* bound: processes that are killed

ASSUME RuntimeAssumption ==
    /\ NoRuntime \notin Runtimes
    /\ DiskMayFill \in BOOLEAN
    /\ MaxRuntimeCrashes \in Nat

VARIABLES
    lock,          \* runtime-owner.lock: who created it, is its content there
    persisted,     \* runtime-state.json: whose state, and which
    alive,         \* the processes that have not been killed
    pc,            \* where each process is in RuntimeAuthority.run
    owns_lock,     \* _owns_lock of each authority
    snapshot,      \* _snapshot.state of each authority
    crashes,       \* processes killed so far
    stolen         \* history: the lock of a process that held it was removed

RuntimeVars == <<lock, persisted, alive, pc, owns_lock, snapshot, crashes, stolen>>

RuntimeStates == {"STOPPED", "VALIDATING_PACKAGE", "READY", "STARTING",
                  "RUNNING", "STOPPING", "REJECTED", "FAILED"}

PlacesInRun == {"idle", "unlink_stale", "create", "read_owner", "write_lock", "run",
                "release", "unlink_own", "abandoned", "finish", "complain", "done"}

NoLock == [by |-> NoRuntime, written |-> FALSE]

WriteState(p, state) ==
    /\ persisted' = [owner |-> p, state |-> state]
    /\ snapshot' = [snapshot EXCEPT ![p] = state]

WriteOrFail(p, state) ==
    \/ WriteState(p, state)
    \/ /\ DiskMayFill
       /\ snapshot' = [snapshot EXCEPT ![p] = state]
       /\ UNCHANGED persisted

(* The lock is to be respected: from the creation of the file to its       *)
(* removal, for as long as the process lives.                              *)
Holds(p) == p \in alive /\ pc[p] \in {"write_lock", "run", "release", "unlink_own", "abandoned"}

Owners == {p \in alive : owns_lock[p]}

UnlinkLock(p) ==
    /\ lock' = NoLock
    /\ stolen' = (stolen \/ \E q \in Runtimes \ {p} : lock.by = q /\ Holds(q))

-----------------------------------------------------------------------------
(* _remove_stale_lock: a lock whose content names a process that is gone   *)
(* is stale; one that is empty or cannot be parsed is left alone.          *)
Stale_EmptyToo == lock # NoLock /\ (~lock.written \/ lock.by \notin alive)

Stale == lock.written /\ lock.by \notin alive

ReadLock(p) ==
    /\ pc[p] = "idle"
    /\ pc' = [pc EXCEPT ![p] = IF Stale THEN "unlink_stale" ELSE "create"]
    /\ UNCHANGED <<lock, persisted, alive, owns_lock, snapshot, crashes, stolen>>

RemoveStaleLock(p) ==
    /\ pc[p] = "unlink_stale"
    /\ UnlinkLock(p)
    /\ \/ pc' = [pc EXCEPT ![p] = "create"]
       \/ DiskMayFill /\ pc' = [pc EXCEPT ![p] = "complain"]
    /\ UNCHANGED <<persisted, alive, owns_lock, snapshot, crashes>>

(* os.open with O_CREAT and O_EXCL.                                        *)
CreateLock(p) ==
    /\ pc[p] = "create"
    /\ lock = NoLock
    /\ lock' = [by |-> p, written |-> FALSE]
    /\ pc' = [pc EXCEPT ![p] = "write_lock"]
    /\ UNCHANGED <<persisted, alive, owns_lock, snapshot, crashes, stolen>>

CannotCreate(p) ==
    /\ DiskMayFill
    /\ pc[p] = "create"
    /\ lock = NoLock
    /\ pc' = [pc EXCEPT ![p] = "complain"]
    /\ UNCHANGED <<lock, persisted, alive, owns_lock, snapshot, crashes, stolen>>

(* FileExistsError: the lock is looked at again for the message of the     *)
(* error, once whether it exists and once for its text.                    *)
Refused_SaysFailed(p) ==
    /\ pc[p] = "create"
    /\ lock # NoLock
    /\ WriteState(p, "FAILED")
    /\ pc' = [pc EXCEPT ![p] = "done"]
    /\ UNCHANGED <<lock, alive, owns_lock, crashes, stolen>>

Refused(p) ==
    /\ pc[p] = "create"
    /\ lock # NoLock
    /\ pc' = [pc EXCEPT ![p] = "read_owner"]
    /\ UNCHANGED <<lock, persisted, alive, owns_lock, snapshot, crashes, stolen>>

(* RuntimeOwnershipError, of which nothing is written: unless the file     *)
(* went between the two looks, which raises FileNotFoundError instead.     *)
ReadOwner(p) ==
    /\ pc[p] = "read_owner"
    /\ \/ pc' = [pc EXCEPT ![p] = "done"]
       \/ lock = NoLock /\ pc' = [pc EXCEPT ![p] = "complain"]
    /\ UNCHANGED <<lock, persisted, alive, owns_lock, snapshot, crashes, stolen>>

(* Any other error before the lock is owned: FAILED goes to the state file *)
(* of whoever owns the runtime by now.                                     *)
SayFailed(p) ==
    /\ pc[p] = "complain"
    /\ WriteOrFail(p, "FAILED")
    /\ pc' = [pc EXCEPT ![p] = "done"]
    /\ UNCHANGED <<lock, alive, owns_lock, crashes, stolen>>

(* The content goes to the file this process created, which may be         *)
(* unlinked by now.                                                        *)
WriteLock(p) ==
    /\ pc[p] = "write_lock"
    /\ lock' = IF lock.by = p THEN [lock EXCEPT !.written = TRUE] ELSE lock
    /\ owns_lock' = [owns_lock EXCEPT ![p] = TRUE]
    /\ pc' = [pc EXCEPT ![p] = "run"]
    /\ UNCHANGED <<persisted, alive, snapshot, crashes, stolen>>

(* json.dump raises before _owns_lock is set: the failure is written to    *)
(* the state file if there is room for it, and the empty lock stays: for   *)
(* good, as no starter takes a lock without a pid for stale.               *)
WriteLockFails(p) ==
    /\ DiskMayFill
    /\ pc[p] = "write_lock"
    /\ WriteOrFail(p, "FAILED")
    /\ pc' = [pc EXCEPT ![p] = "abandoned"]
    /\ UNCHANGED <<lock, alive, owns_lock, crashes, stolen>>

-----------------------------------------------------------------------------
(* run: the package is validated while the lock is held, and every change  *)
(* of state is written to the state file.                                  *)
ReachNextState(p) ==
    /\ pc[p] = "run"
    /\ \/ snapshot[p] = "STOPPED"            /\ WriteState(p, "VALIDATING_PACKAGE")
       \/ snapshot[p] = "VALIDATING_PACKAGE" /\ WriteState(p, "READY")
       \/ snapshot[p] = "READY"              /\ WriteState(p, "STARTING")
       \/ snapshot[p] = "STARTING"           /\ WriteState(p, "RUNNING")
    /\ UNCHANGED <<lock, alive, pc, owns_lock, crashes, stolen>>

(* An exception, a cancellation or a refused package ends the run. The      *)
(* word for it stays unwritten if the disk is full.                         *)
EndsOf(state) ==
    {"FAILED"} \cup (IF state \in {"VALIDATING_PACKAGE", "RUNNING"} THEN {"REJECTED"} ELSE {})
               \cup (IF state = "RUNNING" THEN {"STOPPING"} ELSE {})

RuntimeEnds_KeepsLock(p) ==
    /\ pc[p] = "run"
    /\ \E state \in EndsOf(snapshot[p]) : WriteOrFail(p, state)
    /\ pc' = [pc EXCEPT ![p] = IF snapshot'[p] = "STOPPING" THEN "release" ELSE "done"]
    /\ UNCHANGED <<lock, alive, owns_lock, crashes, stolen>>

RuntimeEnds(p) ==
    /\ pc[p] = "run"
    /\ \E state \in EndsOf(snapshot[p]) : WriteOrFail(p, state)
    /\ pc' = [pc EXCEPT ![p] = "release"]
    /\ UNCHANGED <<lock, alive, owns_lock, crashes, stolen>>

(* A runtime that returned: the finally clause writes STOPPING first, and  *)
(* a full disk there, at the state file or at the event after it, ends run *)
(* before _release_ownership is reached.                                   *)
StoppingNotWritten(p) ==
    /\ DiskMayFill
    /\ pc[p] = "run"
    /\ snapshot[p] = "RUNNING"
    /\ WriteOrFail(p, "STOPPING")
    /\ pc' = [pc EXCEPT ![p] = "abandoned"]
    /\ UNCHANGED <<lock, alive, owns_lock, crashes, stolen>>

(* _release_ownership: read the lock, and unlink it if it is one's own.    *)
OwnLock(p) == lock.written /\ lock.by = p

ReadOwnLock(p) ==
    /\ pc[p] = "release"
    /\ IF OwnLock(p)
       THEN pc' = [pc EXCEPT ![p] = "unlink_own"] /\ UNCHANGED owns_lock
       ELSE pc' = [pc EXCEPT ![p] = "finish"] /\ owns_lock' = [owns_lock EXCEPT ![p] = FALSE]
    /\ UNCHANGED <<lock, persisted, alive, snapshot, crashes, stolen>>

UnlinkOwnLock(p) ==
    /\ pc[p] = "unlink_own"
    /\ UnlinkLock(p)
    /\ owns_lock' = [owns_lock EXCEPT ![p] = FALSE]
    /\ pc' = [pc EXCEPT ![p] = "finish"]
    /\ UNCHANGED <<persisted, alive, snapshot, crashes>>

(* The last word of run comes after the lock is given up, and not at all   *)
(* if the event of the release cannot be written.                          *)
SayStopped(p) ==
    /\ pc[p] = "finish"
    /\ \/ snapshot[p] \notin {"REJECTED", "FAILED"} /\ WriteOrFail(p, "STOPPED")
       \/ /\ DiskMayFill \/ snapshot[p] \in {"REJECTED", "FAILED"}
          /\ UNCHANGED <<persisted, snapshot>>
    /\ pc' = [pc EXCEPT ![p] = "done"]
    /\ UNCHANGED <<lock, alive, owns_lock, crashes, stolen>>

RuntimeKilled(p) ==
    /\ crashes < MaxRuntimeCrashes
    /\ pc[p] \notin {"idle", "done"}
    /\ alive' = alive \ {p}
    /\ crashes' = crashes + 1
    /\ UNCHANGED <<lock, persisted, pc, owns_lock, snapshot, stolen>>

-----------------------------------------------------------------------------
RuntimeInit ==
    /\ lock = NoLock
    /\ persisted = [owner |-> NoRuntime, state |-> "STOPPED"]
    /\ alive = Runtimes
    /\ pc = [p \in Runtimes |-> "idle"]
    /\ owns_lock = [p \in Runtimes |-> FALSE]
    /\ snapshot = [p \in Runtimes |-> "STOPPED"]
    /\ crashes = 0
    /\ stolen = FALSE

RuntimeNext ==
    \E p \in alive :
        \/ ReadLock(p) \/ RemoveStaleLock(p) \/ CreateLock(p) \/ CannotCreate(p)
        \/ Refused(p) \/ ReadOwner(p) \/ SayFailed(p)
        \/ WriteLock(p) \/ WriteLockFails(p)
        \/ ReachNextState(p) \/ RuntimeEnds(p) \/ StoppingNotWritten(p)
        \/ ReadOwnLock(p) \/ UnlinkOwnLock(p) \/ SayStopped(p)
        \/ RuntimeKilled(p)

RuntimeSpec == RuntimeInit /\ [][RuntimeNext]_RuntimeVars

-----------------------------------------------------------------------------
RuntimeTypeOK ==
    /\ lock \in [by : Runtimes \cup {NoRuntime}, written : BOOLEAN]
    /\ persisted \in [owner : Runtimes \cup {NoRuntime}, state : RuntimeStates]
    /\ alive \subseteq Runtimes
    /\ pc \in [Runtimes -> PlacesInRun]
    /\ owns_lock \in [Runtimes -> BOOLEAN]
    /\ snapshot \in [Runtimes -> RuntimeStates]
    /\ crashes \in Nat
    /\ stolen \in BOOLEAN

(* Two processes own the runtime at once only after the lock of a live     *)
(* owner was removed, and that takes a process killed before: without a    *)
(* crash the lock file of _acquire_ownership excludes.                     *)
OneOwnerWithoutCrash ==
    \A p, q \in Owners : p # q => stolen /\ crashes > 0

(* ADR-0003: a second authority does not overwrite the active owner's      *)
(* state or start a runtime.                                               *)
OneAuthority == \A p, q \in Owners : p = q

(* runtime-state.json speaks for the owner: while its lock stands, another *)
(* process puts only two words over an owner's state. One is the STOPPED   *)
(* that run writes after it has released the lock, the other the FAILED of *)
(* a starter that owns nothing: its lock vanished between two looks at it, *)
(* or the disk was full. One that finds the lock in place writes nothing.  *)
OnlyLateWordsOverwrite ==
    [][\A p \in Owners, q \in Runtimes :
          p # q /\ persisted.owner = p /\ persisted'.owner = q
             => \/ stolen
                \/ pc[q] = "finish" /\ persisted'.state = "STOPPED"
                \/ pc[q] = "complain" /\ persisted'.state = "FAILED"]_RuntimeVars

(* A process that has left run and lives on leaves no lock, written or     *)
(* empty, which every later starter would respect. Two failures of the     *)
(* disk are excepted, after which it is "abandoned": the content of the    *)
(* lock, or the STOPPING of its return, could not be written.              *)
NoLockLeftBehind ==
    \A p \in alive : pc[p] = "done" => lock.by # p
=============================================================================
