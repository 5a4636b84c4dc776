-------------------------------- MODULE Sentry --------------------------------
(***************************************************************************)
(* The Sentry strategy (rollout/strategies/sentry.py): everything is       *)
(* recorded, episodes are rotated by time, and every few episodes the      *)
(* dataset is uploaded in the background.  _needs_push says whether the    *)
(* Hub lacks something; the main thread sets it after a save, the worker   *)
(* clears it after an upload.                                              *)
(***************************************************************************)
EXTENDS DatasetPush

CONSTANT upload_every_n_episodes

ASSUME UploadAssumption == upload_every_n_episodes \in Nat \ {0}

VARIABLES
  main,                 (* where the main loop is                           *)
  n,                    (* the number of the newest frame                   *)
  shutdown,             (* shutdown_event                                   *)
  needs_push,           (* _needs_push                                      *)
  episodes_since_push

vars == <<dataVars, main, n, shutdown, needs_push, episodes_since_push>>

Init ==
  /\ DataInit
  /\ main = "loop" /\ n = 0 /\ shutdown = FALSE
  /\ needs_push = FALSE /\ episodes_since_push = 0

-------------------------------------------------------------------------------
(* The main loop.                                                            *)

\* The policy had an action: its frame is recorded.
RecordFrame ==
  /\ main = "loop" /\ ~shutdown /\ n < MaxFrames
  /\ n' = n + 1 /\ buffer' = Append(buffer, n')
  /\ main' = "rotate"
  /\ UNCHANGED <<broken, saved, file, pushVars, shutdown, needs_push, episodes_since_push>>

\* It had none (an empty RTC queue).
NoAction ==
  /\ main = "loop" /\ ~shutdown
  /\ main' = "rotate"
  /\ UNCHANGED <<dataVars, n, shutdown, needs_push, episodes_since_push>>

LeaveLoop ==
  /\ main = "loop" /\ main' = "final"
  /\ UNCHANGED <<dataVars, n, shutdown, needs_push, episodes_since_push>>

\* The episode's time is not over.
KeepEpisode ==
  /\ main = "rotate" /\ main' = "loop"
  /\ UNCHANGED <<dataVars, n, shutdown, needs_push, episodes_since_push>>

RotateEpisode ==
  /\ main = "rotate" /\ save_episode
  /\ episodes_since_push' = episodes_since_push + 1
  /\ main' = "mark"
  /\ UNCHANGED <<pushVars, n, shutdown, needs_push>>

\* Nothing was recorded in the episode's time, or saving fails: the exception
\* leaves the loop.
RotateFails ==
  /\ main = "rotate" /\ SaveRaises
  /\ main' = "final"
  /\ UNCHANGED <<pushVars, n, shutdown, needs_push, episodes_since_push>>

MarkPush ==
  /\ main = "mark" /\ needs_push' = TRUE
  /\ main' = IF episodes_since_push >= upload_every_n_episodes THEN "submit" ELSE "loop"
  /\ UNCHANGED <<dataVars, n, shutdown, episodes_since_push>>

\* Faulty variant: the count of episodes since the last push goes on.
SubmitAndCount ==
  /\ main = "submit" /\ submit
  /\ main' = "loop"
  /\ UNCHANGED <<fileVars, n, shutdown, needs_push, episodes_since_push>>

Submit ==
  /\ main = "submit" /\ submit
  /\ episodes_since_push' = 0 /\ main' = "loop"
  /\ UNCHANGED <<fileVars, n, shutdown, needs_push>>

\* The finally block: save, release the lock, set the flag.
SaveFinal ==
  /\ main = "final" /\ save_episode
  /\ main' = "markFinal"
  /\ UNCHANGED <<pushVars, n, shutdown, needs_push, episodes_since_push>>

\* Faulty variant: the last episode does not ask for a push.
ForgetFinal ==
  /\ main = "markFinal" /\ main' = "exit"
  /\ UNCHANGED <<dataVars, n, shutdown, needs_push, episodes_since_push>>

MarkFinal ==
  /\ main = "markFinal" /\ needs_push' = TRUE
  /\ main' = "exit"
  /\ UNCHANGED <<dataVars, n, shutdown, episodes_since_push>>

\* The exception is suppressed, and the flag is not set.
SaveFinalFails ==
  /\ main = "final" /\ SaveRaises
  /\ main' = "exit"
  /\ UNCHANGED <<pushVars, n, shutdown, needs_push, episodes_since_push>>

Exit ==
  /\ main = "exit" /\ finalize
  /\ main' = "wait"
  /\ UNCHANGED <<pushVars, n, shutdown, needs_push, episodes_since_push>>

WaitForPushes ==
  /\ main = "wait" /\ PushesDone
  /\ main' = "last"
  /\ UNCHANGED <<dataVars, n, shutdown, needs_push, episodes_since_push>>

LastPush ==
  /\ main = "last" /\ main' = "done"
  /\ IF needs_push /\ PushToHub /\ saved # <<>> THEN FinalPush ELSE UNCHANGED dataVars
  /\ UNCHANGED <<n, shutdown, needs_push, episodes_since_push>>

LastPushFails ==
  /\ main = "last" /\ needs_push /\ PushToHub /\ saved # <<>>
  /\ main' = "failed"
  /\ UNCHANGED <<dataVars, n, shutdown, needs_push, episodes_since_push>>

RequestShutdown ==
  /\ ~shutdown /\ shutdown' = TRUE
  /\ UNCHANGED <<dataVars, main, n, needs_push, episodes_since_push>>

-------------------------------------------------------------------------------
(* The worker: the flag is cleared with the lock still held.                 *)

\* Faulty variant: it is cleared whether or not the upload succeeded.
ClearAlways ==
  /\ EndUpload \/ UploadFails
  /\ needs_push' = FALSE
  /\ UNCHANGED <<main, n, shutdown, episodes_since_push>>

UploadOrFail ==
  /\ \/ EndUpload /\ needs_push' = FALSE
     \/ UploadFails /\ UNCHANGED needs_push
  /\ UNCHANGED <<main, n, shutdown, episodes_since_push>>

Worker ==
  \/ /\ BeginUpload \/ SkipUpload
     /\ UNCHANGED <<main, n, shutdown, needs_push, episodes_since_push>>
  \/ UploadOrFail

Main ==
  \/ RecordFrame \/ NoAction \/ LeaveLoop \/ KeepEpisode \/ RotateEpisode \/ RotateFails
  \/ MarkPush \/ Submit \/ SaveFinal \/ MarkFinal \/ SaveFinalFails \/ Exit \/ WaitForPushes
  \/ LastPush \/ LastPushFails

Finished == main \in {"done", "failed"} /\ UNCHANGED vars

Next == Main \/ RequestShutdown \/ Worker \/ Finished

Spec == Init /\ [][Next]_vars

-------------------------------------------------------------------------------
(* Types of the strategy's state.                                            *)
TypeOK ==
  /\ DataTypeOK
  /\ main \in {"loop", "rotate", "mark", "submit", "final", "markFinal", "exit", "wait",
               "last", "done", "failed"}
  /\ n \in 0 .. MaxFrames
  /\ {shutdown, needs_push} \subseteq BOOLEAN
  /\ episodes_since_push \in 0 .. upload_every_n_episodes

(* The flag tells the truth: unless a save is just about to set it, a        *)
(* cleared flag means that the Hub has every saved episode, however saves,   *)
(* uploads and failures interleave (sentry.py:142-145, 217-225).             *)
NoEpisodeForgotten ==
  needs_push \/ main \in {"mark", "markFinal"} \/ hub.episodes = Len(saved)

(* A session that ends without an error in the last push leaves all saved    *)
(* episodes on the Hub (sentry.py:167-195).                                  *)
HubHasAll == main = "done" /\ PushToHub => hub.episodes = Len(saved)

(* ... and in readable files: what the Hub keeps was read when its files     *)
(* were complete (sentry.py:126-129, lerobot_dataset.py:415-416).            *)
HubIsReadable == main = "done" /\ PushToHub => hub.readable

================================================================================
