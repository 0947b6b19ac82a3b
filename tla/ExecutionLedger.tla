-------------------------- MODULE ExecutionLedger ---------------------------
(***************************************************************************)
(* What the execution layer promises to the rest of the runner, without    *)
(* its retries, crashes and reconciliation passes: an intent is pending in *)
(* at most one execution at a time, and an execution is resolved once and  *)
(* for good: as opened, with an order the trade ledger already has, or as  *)
(* lost. OrderExecution implements it.                                     *)
(***************************************************************************)
CONSTANTS Intents, Execs, OrderIds, None

VARIABLES
    outcome,  \* execution -> "none", "pending", "opened" or "lost"
    intent,   \* execution -> the intent it is for
    order,    \* execution -> its broker order, once opened
    ledger    \* the broker orders the trade journal knows

ledgerVars == <<outcome, intent, order, ledger>>

Begin(e, i) ==
    /\ outcome[e] = "none"
    /\ ~ \E f \in Execs : outcome[f] = "pending" /\ intent[f] = i
    /\ outcome' = [outcome EXCEPT ![e] = "pending"]
    /\ intent' = [intent EXCEPT ![e] = i]
    /\ UNCHANGED <<order, ledger>>

Record(o) ==
    /\ ledger' = ledger \cup {o}
    /\ UNCHANGED <<outcome, intent, order>>

Opened(e, o) ==
    /\ outcome[e] = "pending"
    /\ o \in ledger
    /\ outcome' = [outcome EXCEPT ![e] = "opened"]
    /\ order' = [order EXCEPT ![e] = o]
    /\ UNCHANGED <<intent, ledger>>

Lost(e) ==
    /\ outcome[e] = "pending"
    /\ outcome' = [outcome EXCEPT ![e] = "lost"]
    /\ UNCHANGED <<intent, order, ledger>>

LedgerInit ==
    /\ outcome = [e \in Execs |-> "none"]
    /\ intent = [e \in Execs |-> None]
    /\ order = [e \in Execs |-> None]
    /\ ledger = {}

LedgerNext ==
    \/ \E e \in Execs : \/ \E i \in Intents : Begin(e, i)
                        \/ \E o \in OrderIds : Opened(e, o)
                        \/ Lost(e)
    \/ \E o \in OrderIds : Record(o)

LedgerSpec == LedgerInit /\ [][LedgerNext]_ledgerVars
=============================================================================
