-------------------------------- MODULE DAgger --------------------------------
(***************************************************************************)
(* The DAgger strategy (rollout/strategies/dagger.py): the operator pauses *)
(* the policy, corrects the robot through the teleoperator and hands it    *)
(* back.  The keyboard or pedal thread requests phase changes, the main    *)
(* loop takes them.  With record_autonomous everything is recorded and     *)
(* episodes are rotated by time; without, every correction is an episode.  *)
(* Uploads run in the background, as in Sentry.                            *)
(***************************************************************************)
EXTENDS DatasetPush

CONSTANTS
  upload_every_n_episodes, record_stride,
  num_episodes,      (* corrections to record                               *)
  MaxQueued,         (* bound: pushes the operator may pile up              *)
  MaxCorrections,    (* bound: corrections of a rollout                     *)
  MaxRecorded        (* bound: its recorded frames, at most MaxFrames       *)

VARIABLES
  record_autonomous,    (* the recording mode, fixed for the rollout        *)
  main,                 (* where the main loop is                           *)
  phase, pending,       (* _phase and _pending_transition ("none": None)    *)
  upload_requested,
  n,                    (* the number of the newest frame                   *)
  tick,                 (* record_tick modulo record_stride                 *)
  window,               (* corrections begun so far                         *)
  taken,                (* the correction of each frame; 0: autonomous      *)
  recorded,             (* corrections saved                                *)
  needs_push, episodes_since_push

eventVars == <<phase, pending, upload_requested>>
frameVars == <<n, tick, window, taken>>
countVars == <<recorded, episodes_since_push>>
vars == <<record_autonomous, dataVars, main, eventVars, frameVars, countVars, needs_push>>

\* _DAGGER_TRANSITIONS.
Transitions ==
  {[from |-> "autonomous", event |-> "pause_resume", to |-> "paused"],
   [from |-> "paused", event |-> "pause_resume", to |-> "autonomous"],
   [from |-> "paused", event |-> "correction", to |-> "correcting"],
   [from |-> "correcting", event |-> "correction", to |-> "paused"]}

Valid(from, event) == \E t \in Transitions : t.from = from /\ t.event = event
Next_phase(from, event) ==
  (CHOOSE t \in Transitions : t.from = from /\ t.event = event).to

Init ==
  /\ DataInit /\ record_autonomous \in BOOLEAN
  /\ main = "loop" /\ phase = "autonomous" /\ pending = "none" /\ upload_requested = FALSE
  /\ n = 0 /\ tick = 0 /\ window = 0 /\ taken = <<>>
  /\ recorded = 0 /\ episodes_since_push = 0 /\ needs_push = FALSE

-------------------------------------------------------------------------------
(* The input device's thread.  After the loop nobody reads what it sets.      *)

InRollout == main \notin {"final", "markFinal", "exit", "wait", "last", "done", "failed"}

\* Faulty variant: the request is not checked against the phase.
RequestAnything(event) ==
  /\ InRollout /\ pending' = event
  /\ UNCHANGED <<record_autonomous, dataVars, main, phase, upload_requested, frameVars,
                 countVars, needs_push>>

\* The latest valid request replaces an earlier one.
request_transition(event) ==
  /\ InRollout /\ Valid(phase, event)
  /\ pending' = event
  /\ UNCHANGED <<record_autonomous, dataVars, main, phase, upload_requested, frameVars,
                 countVars, needs_push>>

RequestUpload ==
  /\ InRollout /\ queued < MaxQueued
  /\ upload_requested' = TRUE
  /\ UNCHANGED <<record_autonomous, dataVars, main, phase, pending, frameVars, countVars,
                 needs_push>>

-------------------------------------------------------------------------------
(* The main loop.                                                            *)

\* ESC, shutdown, the duration's end; or an exception of the robot, at "act".
LeaveLoop ==
  /\ main \in {"loop", "act"} /\ main' = "final"
  /\ UNCHANGED <<record_autonomous, dataVars, eventVars, frameVars, countVars, needs_push>>

InLoop == main = "loop" /\ (record_autonomous \/ recorded < num_episodes)

NoTransition ==
  /\ InLoop /\ pending = "none"
  /\ main' = "upload"
  /\ UNCHANGED <<record_autonomous, dataVars, eventVars, frameVars, countVars, needs_push>>

\* consume_transition and what _apply_transition does to the devices.  The
\* end of a correction saves it.  (A request that does not fit the phase would
\* be dropped; RequestFitsPhase says that there is none.)
consume_transition ==
  /\ InLoop /\ pending # "none" /\ Valid(phase, pending)
  /\ phase' = Next_phase(phase, pending) /\ pending' = "none"
  /\ phase' = "correcting" => window < MaxCorrections
  /\ window' = IF phase' = "correcting" THEN window + 1 ELSE window
  /\ main' = IF ~record_autonomous /\ phase = "correcting" THEN "save" ELSE "upload"
  /\ UNCHANGED <<record_autonomous, dataVars, upload_requested, n, tick, taken, countVars,
                 needs_push>>

SaveCorrection ==
  /\ main = "save" /\ save_episode
  /\ recorded' = recorded + 1 /\ main' = "markCorrection"
  /\ UNCHANGED <<record_autonomous, pushVars, eventVars, frameVars, episodes_since_push,
                 needs_push>>

\* No frame fell on the stride, or saving fails.
SaveFails ==
  /\ main \in {"save", "rotate"} /\ SaveRaises
  /\ main = "rotate" => record_autonomous /\ phase # "correcting"
  /\ main' = "final"
  /\ UNCHANGED <<record_autonomous, pushVars, eventVars, frameVars, countVars, needs_push>>

MarkCorrection ==
  /\ main = "markCorrection" /\ needs_push' = TRUE
  /\ main' = "upload"
  /\ UNCHANGED <<record_autonomous, dataVars, eventVars, frameVars, countVars>>

\* Only corrections-only mode looks at the upload key; _background_push
\* submits nothing during a correction.
UploadOnDemand ==
  /\ main = "upload" /\ main' = "act"
  /\ LET asked == ~record_autonomous /\ upload_requested
     IN  /\ upload_requested' = (upload_requested /\ ~asked)
         /\ IF asked /\ phase # "correcting" THEN submit ELSE UNCHANGED pushVars
  /\ UNCHANGED <<record_autonomous, fileVars, phase, pending, frameVars, countVars, needs_push>>

\* A tick of a correction, or of the policy when everything is recorded:
\* every record_stride-th one is a frame.
Recording == phase = "correcting" \/ (phase = "autonomous" /\ record_autonomous)

RecordTick ==
  /\ main = "act" /\ Recording
  /\ tick' = (tick + 1) % record_stride
  /\ IF tick = 0
     THEN /\ n < MaxRecorded /\ n' = n + 1
          /\ taken' = Append(taken, IF phase = "correcting" THEN window ELSE 0)
          /\ buffer' = Append(buffer, n')
     ELSE UNCHANGED <<n, taken, buffer>>
  /\ main' = "rotate"
  /\ UNCHANGED <<record_autonomous, broken, saved, file, pushVars, eventVars, window, countVars,
                 needs_push>>

\* The robot is held, the policy is not recorded, or it had no action.
NoFrame ==
  /\ main = "act" /\ phase # "correcting"
  /\ main' = "rotate"
  /\ UNCHANGED <<record_autonomous, dataVars, eventVars, frameVars, countVars, needs_push>>

\* The episode's time is not over, a correction defers its end, or there are
\* no rotated episodes.
KeepEpisode ==
  /\ main = "rotate" /\ main' = "loop"
  /\ UNCHANGED <<record_autonomous, dataVars, eventVars, frameVars, countVars, needs_push>>

\* Faulty variant: an episode ends when its time is over.
RotateAnyTime ==
  /\ main = "rotate" /\ record_autonomous /\ save_episode
  /\ episodes_since_push' = episodes_since_push + 1 /\ main' = "mark"
  /\ UNCHANGED <<record_autonomous, pushVars, eventVars, frameVars, recorded, needs_push>>

RotateEpisode ==
  /\ main = "rotate" /\ record_autonomous /\ phase # "correcting" /\ save_episode
  /\ episodes_since_push' = episodes_since_push + 1 /\ main' = "mark"
  /\ UNCHANGED <<record_autonomous, pushVars, eventVars, frameVars, recorded, needs_push>>

MarkPush ==
  /\ main = "mark" /\ needs_push' = TRUE
  /\ main' = "loop"
  /\ IF episodes_since_push >= upload_every_n_episodes
     THEN submit /\ episodes_since_push' = 0
     ELSE UNCHANGED <<pushVars, episodes_since_push>>
  /\ UNCHANGED <<record_autonomous, fileVars, eventVars, frameVars, recorded>>

\* The finally block.
SaveFinal ==
  /\ main = "final" /\ save_episode
  /\ main' = "markFinal"
  /\ UNCHANGED <<record_autonomous, pushVars, eventVars, frameVars, countVars, needs_push>>

SaveFinalFails ==
  /\ main = "final" /\ SaveRaises
  /\ main' = "exit"
  /\ UNCHANGED <<record_autonomous, pushVars, eventVars, frameVars, countVars, needs_push>>

MarkFinal ==
  /\ main = "markFinal" /\ needs_push' = TRUE
  /\ main' = "exit"
  /\ UNCHANGED <<record_autonomous, dataVars, eventVars, frameVars, countVars>>

Exit ==
  /\ main = "exit" /\ finalize
  /\ main' = "wait"
  /\ UNCHANGED <<record_autonomous, pushVars, eventVars, frameVars, countVars, needs_push>>

WaitForPushes ==
  /\ main = "wait" /\ PushesDone
  /\ main' = "last"
  /\ UNCHANGED <<record_autonomous, dataVars, eventVars, frameVars, countVars, needs_push>>

LastPush ==
  /\ main = "last" /\ main' = "done"
  /\ IF needs_push /\ PushToHub /\ saved # <<>> THEN FinalPush ELSE UNCHANGED dataVars
  /\ UNCHANGED <<record_autonomous, eventVars, frameVars, countVars, needs_push>>

LastPushFails ==
  /\ main = "last" /\ needs_push /\ PushToHub /\ saved # <<>>
  /\ main' = "failed"
  /\ UNCHANGED <<record_autonomous, dataVars, eventVars, frameVars, countVars, needs_push>>

-------------------------------------------------------------------------------
(* The push executor.                                                        *)

\* Faulty variant: the flag is cleared when the upload begins.
ClearAtBegin ==
  /\ \/ BeginUpload /\ needs_push' = FALSE
     \/ (SkipUpload \/ EndUpload \/ UploadFails) /\ UNCHANGED needs_push
  /\ UNCHANGED <<record_autonomous, main, eventVars, frameVars, countVars>>

Worker ==
  /\ \/ EndUpload /\ needs_push' = FALSE
     \/ (BeginUpload \/ SkipUpload \/ UploadFails) /\ UNCHANGED needs_push
  /\ UNCHANGED <<record_autonomous, main, eventVars, frameVars, countVars>>

Main ==
  \/ LeaveLoop \/ NoTransition \/ consume_transition \/ SaveCorrection \/ SaveFails
  \/ MarkCorrection \/ UploadOnDemand \/ RecordTick \/ NoFrame \/ KeepEpisode \/ RotateEpisode
  \/ MarkPush \/ SaveFinal \/ SaveFinalFails \/ MarkFinal \/ Exit \/ WaitForPushes
  \/ LastPush \/ LastPushFails

Finished == main \in {"done", "failed"} /\ UNCHANGED vars

Next ==
  \/ (\E event \in {"pause_resume", "correction"} : request_transition(event))
  \/ RequestUpload \/ Main \/ Worker \/ Finished

Spec == Init /\ [][Next]_vars

-------------------------------------------------------------------------------
(* Types, and that a pending request always fits the phase it will be        *)
(* consumed in: the checks at request and at consumption never disagree,     *)
(* whatever the keys are pressed in between (dagger.py:142-164).             *)
RequestFitsPhase ==
  /\ DataTypeOK
  /\ phase \in {"autonomous", "paused", "correcting"}
  /\ pending # "none" => Valid(phase, pending)
  /\ tick \in 0 .. record_stride - 1 /\ Len(taken) = n

FramesOf(episode) == {episode[i] : i \in DOMAIN episode}
Episode(e) == FramesOf(saved[e])

(* A correction is recorded whole: no rotation, upload or second key press   *)
(* splits its frames over two episodes, and in corrections-only mode an      *)
(* episode is the frames of one correction (dagger.py:533-541, 639-650).     *)
CorrectionsAreWhole ==
  \A e \in DOMAIN saved : \A f \in Episode(e) :
    /\ taken[f] # 0 => \A g \in 1 .. n : taken[g] = taken[f] => g \in Episode(e)
    /\ ~record_autonomous => \A g \in Episode(e) : taken[g] = taken[f] /\ taken[g] # 0

(* needs_push tells the truth in both modes, with rotated, corrected and     *)
(* final episodes (dagger.py:541-571, 639-650, 712-717, 818-829).            *)
NothingForgotten ==
  needs_push \/ main \in {"mark", "markCorrection", "markFinal"} \/ hub.episodes = Len(saved)

(* No upload runs while the operator corrects the robot (dagger.py:803-813). *)
NoPushInCorrection == ~(pusher = "upload" /\ phase = "correcting")

================================================================================
