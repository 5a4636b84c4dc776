------------------------------- MODULE MCRollout -------------------------------
(***************************************************************************)
(* A rollout on small instances, in one run: its inference engine with the *)
(* control loop, or its recording strategy.  A behaviour is of one of the  *)
(* two; the other stays as it is.                                          *)
(***************************************************************************)
EXTENDS MCRTCInference, MCStrategies

VARIABLE part

rolloutVars == <<part, rtcVars, allVars>>

\* What only matters for the other part is not chosen.
RolloutInit ==
  /\ part \in {"engine", "strategy"}
  /\ RTCInit /\ StrategiesInit
  /\ part = "engine" => strategy = "sentry"
  /\ part = "strategy" => enabled /\ use_torch_compile = CHOOSE compile \in Compile : TRUE
  /\ strategy # "dagger" => ~record_autonomous

RolloutNext ==
  \/ part = "engine" /\ RTCNext /\ UNCHANGED <<part, allVars>>
  \/ part = "strategy" /\ StrategiesNext /\ UNCHANGED <<part, rtcVars>>

\* Fairness as in RTCFairSpec and StrategiesSpec.
RolloutSpec ==
  /\ RolloutInit /\ [][RolloutNext]_rolloutVars
  /\ WF_rtcVars(part = "engine" /\ ControlLoop)
  /\ WF_rtcVars(part = "engine" /\ Thread)
  /\ WF_hVars(strategy = "highlight" /\ H!Main)
  /\ WF_hVars(strategy = "highlight" /\ H!Worker)
  /\ WF_hVars(strategy = "highlight" /\ H!EscShutdown)

================================================================================
