--------------------------- MODULE ExecutionState ---------------------------
(***************************************************************************)
(* The state machine of an execution record (execution/execution_state.py):*)
(* the states, the legal transitions, and the shortest-path search that    *)
(* advance_to_terminal uses to drive a record to a terminal state.         *)
(*                                                                         *)
(* A definition Op_Fault that precedes Op is a faulty variant of Op, used  *)
(* only to confirm that the runs notice the fault.                         *)
EXTENDS Integers, FiniteSets

TERMINAL_STATES == {"COMPLETED", "FAILED_TERMINAL", "CANCELLED", "REJECTED"}

States ==
    TERMINAL_STATES \cup
    {"SIGNAL_RECEIVED", "GOVERNANCE_VALIDATED", "PERMISSION_VALIDATED",
     "RISK_APPROVED", "SUBMISSION_PENDING", "BROKER_ACKNOWLEDGED",
     "PARTIALLY_FILLED", "FILLED", "RECOVERY_PENDING", "RECONCILED",
     "JOURNALED", "PROJECTED"}

(* _ALLOWED_TRANSITIONS: the states a record may move to from s.           *)
ALLOWED_TRANSITIONS(s) ==
    CASE s = "SIGNAL_RECEIVED" ->
            {"GOVERNANCE_VALIDATED", "PERMISSION_VALIDATED", "RISK_APPROVED",
             "FAILED_TERMINAL"}
      [] s = "GOVERNANCE_VALIDATED" -> {"PERMISSION_VALIDATED", "FAILED_TERMINAL"}
      [] s = "PERMISSION_VALIDATED" -> {"RISK_APPROVED", "FAILED_TERMINAL"}
      [] s = "RISK_APPROVED" -> {"SUBMISSION_PENDING", "FAILED_TERMINAL"}
      [] s = "SUBMISSION_PENDING" ->
            {"BROKER_ACKNOWLEDGED", "RECOVERY_PENDING", "FAILED_TERMINAL",
             "REJECTED"}
      [] s = "BROKER_ACKNOWLEDGED" ->
            {"PARTIALLY_FILLED", "FILLED", "JOURNALED", "RECONCILED",
             "FAILED_TERMINAL"}
      [] s = "PARTIALLY_FILLED" -> {"FILLED", "CANCELLED", "RECOVERY_PENDING"}
      [] s = "FILLED" -> {"RECONCILED", "JOURNALED", "PROJECTED", "COMPLETED"}
      [] s = "RECOVERY_PENDING" ->
            {"RECONCILED", "BROKER_ACKNOWLEDGED", "FAILED_TERMINAL"}
      [] s = "RECONCILED" -> {"JOURNALED", "PROJECTED", "COMPLETED"}
      [] s = "JOURNALED" -> {"PROJECTED", "COMPLETED"}
      [] s = "PROJECTED" -> {"COMPLETED"}
      [] OTHER -> {}

(* transition() accepts a target that is the current state or a legal one. *)
CanTransition(s, target) == target = s \/ target \in ALLOWED_TRANSITIONS(s)

-----------------------------------------------------------------------------
(* The states from which a member of S is at most one transition away.     *)
OneStepCloser(S) == S \cup {s \in States : ALLOWED_TRANSITIONS(s) \cap S # {}}

(* No legal path without a repetition is longer than this.                 *)
MaxPath_DepthLimited == 2
MaxPath == Cardinality(States)

(* _shortest_path is a breadth-first search. Layer[terminal][n] holds the  *)
(* states from which terminal is at most n transitions away.               *)

Layer ==
    [terminal \in TERMINAL_STATES |->
        LET L[n \in 0..MaxPath] ==
                IF n = 0 THEN {terminal} ELSE UNION {OneStepCloser(S) : S \in {L[n-1]}}
        IN  L]

(* The length of _shortest_path(s, terminal): the number of layers s is    *)
(* not in, more than MaxPath when the result is None.                      *)
Distance ==
    [terminal \in TERMINAL_STATES |-> [s \in States |->
        Cardinality({n \in 0..MaxPath : s \notin Layer[terminal][n]})]]

Reaches(s, terminal) == Distance[terminal][s] <= MaxPath

(* The states that may follow s on the path _shortest_path returns. Python *)
(* iterates a set of strings in an order that changes from one process to  *)
(* the next, so every shortest path is a possible result. Only its last    *)
(* state is terminal.                                                      *)
ShortestPathSteps_Jump(s, terminal) == {terminal}
ShortestPathSteps(s, terminal) ==
    {t \in ALLOWED_TRANSITIONS(s) :
        /\ Distance[terminal][t] + 1 = Distance[terminal][s]
        /\ t \in TERMINAL_STATES => t = terminal}
=============================================================================
