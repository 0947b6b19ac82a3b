------------------------- MODULE StrategyLifecycle -------------------------
(* What a store of strategy stages promises: one stage, changed only along *)
(* the graph of manager.py, and a history that is only ever added to.      *)
EXTENDS LifecycleGraph

VARIABLES stage, history

LifecycleVars == <<stage, history>>

LifecycleInit == stage \in Stages /\ history = <<>>

Move(to) ==
    /\ CanMove(stage, to)
    /\ stage' = to
    /\ history' = Append(history, <<stage, to>>)

LifecycleNext == \E to \in Stages : Move(to)

LifecycleSpec == LifecycleInit /\ [][LifecycleNext]_LifecycleVars
=============================================================================
