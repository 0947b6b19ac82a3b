------------------------------ MODULE MCPlatform ------------------------------
(* The components beside the demo runner's order path, checked in one run. *)
(* They share no variable: part says which of them moves in a behaviour,   *)
(* and the others stay in their initial states.                            *)
EXTENDS RuntimeAuthority, ExecutionPipeline, ControlPlane, StrategyRegistry,
        CircuitBreaker, SignalSelection, LiveBot

VARIABLE part

PlatformVars == <<part, RuntimeVars, PipelineVars, PlaneVars, RegistryVars,
                  BreakerVars, SelectionVars, LiveBotVars>>

PlatformInit ==
    /\ part \in {"runtime", "pipeline", "plane", "registry", "breaker", "selection",
                "livebot"}
    /\ RuntimeInit /\ PipelineInit /\ PlaneInit
    /\ RegistryInit /\ BreakerInit /\ SelectionInit /\ LiveBotInit

RuntimeMoves ==
    part = "runtime" /\ RuntimeNext
    /\ UNCHANGED <<part, PipelineVars, PlaneVars, RegistryVars, BreakerVars,
                   SelectionVars, LiveBotVars>>

PipelineMoves ==
    part = "pipeline" /\ PipelineNext
    /\ UNCHANGED <<part, RuntimeVars, PlaneVars, RegistryVars, BreakerVars,
                   SelectionVars, LiveBotVars>>

PlaneMoves ==
    part = "plane" /\ PlaneNext
    /\ UNCHANGED <<part, RuntimeVars, PipelineVars, RegistryVars, BreakerVars,
                   SelectionVars, LiveBotVars>>

RegistryMoves ==
    part = "registry" /\ RegistryNext
    /\ UNCHANGED <<part, RuntimeVars, PipelineVars, PlaneVars, BreakerVars,
                   SelectionVars, LiveBotVars>>

BreakerMoves ==
    part = "breaker" /\ BreakerNext
    /\ UNCHANGED <<part, RuntimeVars, PipelineVars, PlaneVars, RegistryVars,
                   SelectionVars, LiveBotVars>>

SelectionMoves ==
    part = "selection" /\ SelectionNext
    /\ UNCHANGED <<part, RuntimeVars, PipelineVars, PlaneVars, RegistryVars,
                   BreakerVars, LiveBotVars>>

LiveBotMoves ==
    part = "livebot" /\ LiveBotNext
    /\ UNCHANGED <<part, RuntimeVars, PipelineVars, PlaneVars, RegistryVars,
                   BreakerVars, SelectionVars>>

PlatformNext ==
    \/ RuntimeMoves \/ PipelineMoves \/ PlaneMoves
    \/ RegistryMoves \/ BreakerMoves \/ SelectionMoves \/ LiveBotMoves

PlatformSpec == PlatformInit /\ [][PlatformNext]_PlatformVars

PlatformTypeOK ==
    /\ RuntimeTypeOK /\ PipelineTypeOK /\ PlaneTypeOK
    /\ RegistryTypeOK /\ BreakerTypeOK /\ SelectionTypeOK /\ LiveBotTypeOK

-----------------------------------------------------------------------------
(* _DEFAULT_CONFIG of the portfolio manager, which the runners use.        *)
DefaultGroups == <<{"EURUSD", "GBPUSD"}>>

Signal(symbol, action, confidence) ==
    [symbol |-> symbol, action |-> action, confidence |-> confidence, fit |-> TRUE]

Unfit(signal) == [signal EXCEPT !.fit = FALSE]

(* Two signals of one symbol, one of another.                              *)
OfLiveSymbol == [l1 |-> "EURUSD", l2 |-> "EURUSD", l3 |-> "GBPUSD"]

(* Two correlated symbols and one that is not, in both directions, below,  *)
(* at and above the least confidence.                                      *)
Generated ==
    {Signal("EURUSD", "BUY", 2), Signal("EURUSD", "BUY", 3), Signal("EURUSD", "SELL", 1),
     Signal("EURUSD", "CLOSE", 3), Signal("GBPUSD", "BUY", 1), Signal("GBPUSD", "BUY", 2),
     Signal("GBPUSD", "SELL", 3), Signal("XAUUSD", "BUY", 2), Unfit(Signal("XAUUSD", "BUY", 3))}
=============================================================================
