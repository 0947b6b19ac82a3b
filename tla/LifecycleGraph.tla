--------------------------- MODULE LifecycleGraph ---------------------------
(* svos/lifecycle/manager.py: the stages of a strategy and the transitions *)
(* validate_transition lets through.                                       *)
EXTENDS Integers, Sequences

Order == <<"DRAFT", "INTAKE", "AUDIT", "REFINEMENT", "HISTORICAL_REPLAY",
           "STATISTICAL_VALIDATION", "ROBUSTNESS_VALIDATION", "VIRTUAL_DEMO",
           "PRODUCTION_APPROVAL", "REVALIDATION", "RETIRED">>

Stages == {"DRAFT", "INTAKE", "AUDIT", "REFINEMENT", "HISTORICAL_REPLAY",
           "STATISTICAL_VALIDATION", "ROBUSTNESS_VALIDATION", "VIRTUAL_DEMO",
           "PRODUCTION_APPROVAL", "REVALIDATION", "RETIRED"}

(* The ways back after a failure, and out of a revalidation.               *)
Remediations ==
    {<<s, "REFINEMENT">> : s \in {"HISTORICAL_REPLAY", "STATISTICAL_VALIDATION",
                                  "ROBUSTNESS_VALIDATION", "VIRTUAL_DEMO"}}
      \cup {<<"REFINEMENT", "AUDIT">>, <<"VIRTUAL_DEMO", "HISTORICAL_REPLAY">>,
            <<"REVALIDATION", "HISTORICAL_REPLAY">>, <<"REVALIDATION", "RETIRED">>}

(* Each stage to the next one, except into the record-only approval.       *)
Allowed == ({<<Order[i], Order[i + 1]>> : i \in 1..10} \cup Remediations)
             \ {<<"VIRTUAL_DEMO", "PRODUCTION_APPROVAL">>}

(* validate_transition.                                                    *)
CanMove(from, to) == <<from, to>> \in Allowed

(* _NO_EVIDENCE_SOURCES of the control plane, _NO_EVIDENCE_REQUIRED of the *)
(* governance service.                                                     *)
NeedsEvidence(stage) == stage \notin {"DRAFT", "REFINEMENT", "REVALIDATION"}
=============================================================================
