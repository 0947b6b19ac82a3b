--------------------------- MODULE PlatformProofs ---------------------------
(* The components that MCPlatform runs side by side, for any constants: as *)
(* only one of them moves in a behaviour, and each keeps its invariant,    *)
(* all of them do.                                                         *)
EXTENDS MCPlatform, EngineProofs, LifecycleProofs, SignalProofs

PlatformInv ==
    /\ RuntimeTypeOK /\ PipelineTypeOK /\ PlaneInv
    /\ RegistryInv /\ BreakerAllInv /\ SelectionInv /\ LiveInv

LEMMA PlatformInitInv == PlatformInit => PlatformInv
  BY RuntimeTypeInit, PipelineTypeInit, PlaneInitInv, RegistryInitInv, BreakerAllInit,
     SelectionBegins, LiveInitInv DEF PlatformInit, PlatformInv

(* A step of one part is a step of its component or leaves it unchanged.   *)
LEMMA PartsMoveAlone ==
    ASSUME [PlatformNext]_PlatformVars
    PROVE  /\ [RuntimeNext]_RuntimeVars /\ [PipelineNext]_PipelineVars
           /\ [PlaneNext]_PlaneVars /\ [RegistryNext]_RegistryVars
           /\ [BreakerNext]_BreakerVars /\ [SelectionNext]_SelectionVars
           /\ [LiveBotNext]_LiveBotVars
<1>1. CASE RuntimeMoves
  BY <1>1, Zenon DEF RuntimeMoves
<1>2. CASE PipelineMoves
  BY <1>2, Zenon DEF PipelineMoves
<1>3. CASE PlaneMoves
  BY <1>3, Zenon DEF PlaneMoves
<1>4. CASE RegistryMoves
  BY <1>4, Zenon DEF RegistryMoves
<1>5. CASE BreakerMoves
  BY <1>5, Zenon DEF BreakerMoves
<1>6. CASE SelectionMoves
  BY <1>6, Zenon DEF SelectionMoves
<1>7. CASE LiveBotMoves
  BY <1>7, Zenon DEF LiveBotMoves
<1>8. CASE UNCHANGED PlatformVars
  BY <1>8, Zenon DEF PlatformVars
<1> QED
  BY <1>1, <1>2, <1>3, <1>4, <1>5, <1>6, <1>7, <1>8 DEF PlatformNext

LEMMA PlatformStep == PlatformInv /\ [PlatformNext]_PlatformVars => PlatformInv'
<1> SUFFICES ASSUME PlatformInv, [PlatformNext]_PlatformVars PROVE PlatformInv'
  OBVIOUS
<1>1. RuntimeTypeOK' /\ PipelineTypeOK' /\ LiveInv'
  BY PartsMoveAlone, RuntimeTypeStep, PipelineTypeStep, LiveInvStep DEF PlatformInv
<1>2. PlaneInv' /\ RegistryInv'
  BY PartsMoveAlone, PlaneInvStep, RegistryKeepsInv DEF PlatformInv
<1>3. BreakerAllInv' /\ SelectionInv'
  BY PartsMoveAlone, BreakerAllStep, SelectionStep DEF PlatformInv
<1> QED
  BY <1>1, <1>2, <1>3 DEF PlatformInv

(* Every variable of every component keeps its type, whatever the others   *)
(* are left at.                                                            *)
THEOREM PlatformTypeCorrect == PlatformSpec => []PlatformTypeOK
<1>1. PlatformInv => PlatformTypeOK
  BY BreakerTyped DEF PlatformInv, PlatformTypeOK, PlaneInv, RegistryInv, SelectionInv, LiveInv
<1> QED
  BY <1>1, PlatformInitInv, PlatformStep, PTL DEF PlatformSpec
=============================================================================
