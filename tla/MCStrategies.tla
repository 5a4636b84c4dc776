----------------------------- MODULE MCStrategies -----------------------------
(***************************************************************************)
(* The recording strategies on small instances, in one run: create_strategy*)
(* chooses one of them for the whole session, the others stay as they are. *)
(***************************************************************************)
EXTENDS Sentry

CONSTANTS
  max_frames, max_bytes, frame_bytes, MaxSaves, MaxPushes,
  record_stride, num_episodes, MaxQueued, MaxCorrections, MaxRecorded

\* The model's bounds; record_stride is max(1, interpolation_multiplier)
\* (dagger.py:437, 594).  A ring has room for a frame, and a frame has a size
\* (ring_buffer.py:50-53, 112).
ASSUME StrategiesAssumption ==
  /\ {max_bytes, MaxSaves, MaxPushes} \subseteq Nat
  /\ {max_frames, frame_bytes, record_stride} \subseteq Nat \ {0}
  /\ MaxRecorded \in 0 .. MaxFrames

VARIABLES
  strategy,
  h_buffer, h_broken, h_saved, h_file, h_queued, h_pusher, h_copy, h_hub, h_main, h_n,
  h_shutdown, ring, current_bytes, appended, save_requested, push_requested, recording_live,
  esc, presses,
  d_buffer, d_broken, d_saved, d_file, d_queued, d_pusher, d_copy, d_hub, d_main, d_n,
  d_needs_push, d_episodes_since_push, record_autonomous, phase, pending, upload_requested,
  tick, window, taken, recorded

H == INSTANCE Highlight WITH
  buffer <- h_buffer, broken <- h_broken, saved <- h_saved,
  file <- h_file, queued <- h_queued, pusher <- h_pusher, copy <- h_copy, hub <- h_hub,
  main <- h_main, n <- h_n, shutdown <- h_shutdown

D == INSTANCE DAgger WITH
  buffer <- d_buffer, broken <- d_broken, saved <- d_saved,
  file <- d_file, queued <- d_queued, pusher <- d_pusher, copy <- d_copy, hub <- d_hub,
  main <- d_main, n <- d_n, needs_push <- d_needs_push,
  episodes_since_push <- d_episodes_since_push

hVars == <<h_buffer, h_broken, h_saved, h_file, h_queued, h_pusher, h_copy, h_hub, h_main, h_n,
           h_shutdown, ring, current_bytes, appended, save_requested, push_requested,
           recording_live, esc, presses>>
dVars == <<d_buffer, d_broken, d_saved, d_file, d_queued, d_pusher, d_copy, d_hub, d_main, d_n,
           d_needs_push, d_episodes_since_push, record_autonomous, phase, pending,
           upload_requested, tick, window, taken, recorded>>
allVars == <<strategy, vars, hVars, dVars>>

StrategiesInit ==
  /\ strategy \in {"sentry", "highlight", "dagger"}
  /\ Init /\ H!Init /\ D!Init

StrategiesNext ==
  \/ strategy = "sentry" /\ Next /\ UNCHANGED <<strategy, hVars, dVars>>
  \/ strategy = "highlight" /\ H!Next /\ UNCHANGED <<strategy, vars, dVars>>
  \/ strategy = "dagger" /\ D!Next /\ UNCHANGED <<strategy, vars, hVars>>

\* Fairness as in Highlight's FairSpec.
StrategiesSpec ==
  /\ StrategiesInit /\ [][StrategiesNext]_allVars
  /\ WF_hVars(strategy = "highlight" /\ H!Main)
  /\ WF_hVars(strategy = "highlight" /\ H!Worker)
  /\ WF_hVars(strategy = "highlight" /\ H!EscShutdown)

-------------------------------------------------------------------------------
(* The state of all three is well typed; DAgger's requests fit their phase   *)
(* (dagger.py:142-164).                                                      *)
HighlightTypeOK == H!TypeOK
RequestFitsPhase == D!RequestFitsPhase

(* Highlight's ring holds the newest frames (highlight.py:155-193).          *)
RingIsRecent == H!RingIsRecent

(* Highlight's episodes are stretches without a gap, and none overlaps       *)
(* another (highlight.py:155-185).                                           *)
EpisodesAreStretches == H!EpisodesAreStretches

(* Highlight saves what was recorded live however the session ends           *)
(* (highlight.py:195-200).                                                   *)
NothingUnsaved == H!NothingUnsaved

(* Highlight's last push finds the files closed and the others over          *)
(* (highlight.py:212-228).                                                   *)
HubIsComplete == H!HubIsComplete

(* ESC ends a Highlight session (highlight.py:252-254).                      *)
SessionEnds == H!SessionEnds

(* DAgger's corrections are recorded whole (dagger.py:533-541, 639-650).     *)
CorrectionsAreWhole == D!CorrectionsAreWhole

(* DAgger's needs_push forgets no episode (dagger.py:818-829).               *)
NothingForgotten == D!NothingForgotten
================================================================================
