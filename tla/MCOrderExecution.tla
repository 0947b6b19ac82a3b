-------------------------- MODULE MCOrderExecution --------------------------
(* Finite instances of OrderExecution for TLC.                             *)
EXTENDS OrderExecution, TLC

(* Two intents on different markets, or two on the same one.               *)
OwnKeys == [i \in Intents |-> i]
SharedKey == [i \in Intents |-> "EURUSD buy 0.01"]

Symmetry == Permutations(Intents) \cup Permutations(Execs) \cup Permutations(OrderIds)
=============================================================================
