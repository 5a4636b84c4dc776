------------------------------ MODULE Highlight ------------------------------
(***************************************************************************)
(* The Highlight strategy (rollout/strategies/highlight.py): the loop      *)
(* keeps the newest frames in a ring; the save key starts an episode with  *)
(* them and, pressed again, saves it; the push key uploads the dataset in  *)
(* the background; ESC ends the session.  The keys are a thread of their   *)
(* own (on_press).                                                         *)
(***************************************************************************)
EXTENDS RingBuffer, DatasetPush

CONSTANTS MaxSaves, MaxPushes     (* how often a key is pressed              *)

VARIABLES
  main,             (* where the main loop is                               *)
  n,                (* the number of the newest frame                       *)
  shutdown,         (* shutdown_event                                       *)
  save_requested, push_requested, recording_live,
  esc,              (* on_press is between ESC's two statements             *)
  presses           (* presses of the save and of the push key so far       *)

keyVars == <<shutdown, save_requested, push_requested, esc, presses>>
vars == <<ringVars, dataVars, main, n, recording_live, keyVars>>

Init ==
  /\ RingInit /\ DataInit
  /\ main = "loop" /\ n = 0 /\ shutdown = FALSE
  /\ save_requested = FALSE /\ push_requested = FALSE /\ recording_live = FALSE
  /\ esc = FALSE /\ presses = [save |-> 0, push |-> 0]

-------------------------------------------------------------------------------
(* The main loop.  An iteration without an action from the policy touches    *)
(* none of this state.                                                       *)

\* An observation, and the action that was sent: a new frame.
NewFrame ==
  /\ main = "loop" /\ ~shutdown /\ n < MaxFrames
  /\ n' = n + 1 /\ main' = "save?"
  /\ UNCHANGED <<ringVars, dataVars, recording_live, keyVars>>

\* Shutdown, the duration's end, or an exception of the robot.
LeaveLoop ==
  /\ main = "loop" /\ main' = "final"
  /\ UNCHANGED <<ringVars, dataVars, n, recording_live, keyVars>>

\* is_set() ...
SeeSaveKey ==
  /\ main = "save?"
  /\ main' = IF save_requested THEN "toggle" ELSE "push?"
  /\ UNCHANGED <<ringVars, dataVars, n, recording_live, keyVars>>

\* ... then clear().
StartRecording ==
  /\ main = "toggle" /\ ~recording_live
  /\ save_requested' = FALSE /\ recording_live' = TRUE /\ main' = "push?"
  /\ buffer' = buffer \o ring /\ drain
  /\ UNCHANGED <<broken, saved, file, pushVars, n, shutdown, push_requested, esc, presses>>

\* add_frame raises in the middle of the ring's frames: the exception ends the
\* loop, and what was drained is neither live nor in the ring any more.
DrainFails ==
  /\ main = "toggle" /\ ~recording_live
  /\ \E k \in 0 .. Len(ring) - 1 : buffer' = buffer \o SubSeq(ring, 1, k)
  /\ drain /\ save_requested' = FALSE /\ broken' = TRUE /\ main' = "final"
  /\ UNCHANGED <<saved, file, pushVars, n, recording_live, shutdown, push_requested, esc, presses>>

StopRecording ==
  /\ main = "toggle" /\ recording_live
  /\ save_requested' = FALSE /\ main' = "saving"
  /\ buffer' = Append(buffer, n)
  /\ UNCHANGED <<ringVars, broken, saved, file, pushVars, n, recording_live, shutdown,
                 push_requested, esc, presses>>

SaveEpisode ==
  /\ main = "saving" /\ save_episode
  /\ recording_live' = FALSE /\ main' = "loop"
  /\ UNCHANGED <<ringVars, pushVars, n, keyVars>>

SaveFails ==
  /\ main = "saving" /\ SaveRaises
  /\ main' = "final"
  /\ UNCHANGED <<ringVars, pushVars, n, recording_live, keyVars>>

SeePushKey ==
  /\ main = "push?"
  /\ main' = IF push_requested THEN "push" ELSE "record"
  /\ UNCHANGED <<ringVars, dataVars, n, recording_live, keyVars>>

RequestPush ==
  /\ main = "push" /\ submit
  /\ push_requested' = FALSE /\ main' = "record"
  /\ UNCHANGED <<ringVars, fileVars, n, recording_live, shutdown, save_requested, esc, presses>>

RecordLive ==
  /\ main = "record" /\ recording_live
  /\ buffer' = Append(buffer, n) /\ main' = "loop"
  /\ UNCHANGED <<ringVars, broken, saved, file, pushVars, n, recording_live, keyVars>>

RecordRing ==
  /\ main = "record" /\ ~recording_live
  /\ append(n) /\ main' = "loop"
  /\ UNCHANGED <<dataVars, n, recording_live, keyVars>>

\* Faulty variant: an episode under way is dropped when the session ends.
DropLive ==
  /\ main = "final" /\ main' = "exit"
  /\ UNCHANGED <<ringVars, dataVars, n, recording_live, keyVars>>

\* The finally block.
SaveLive ==
  /\ main = "final" /\ main' = "exit"
  /\ IF recording_live THEN save_episode ELSE UNCHANGED fileVars
  /\ UNCHANGED <<ringVars, pushVars, n, recording_live, keyVars>>

\* Faulty variant: the last save is tried until it succeeds.
RetryLive ==
  /\ main = "final" /\ recording_live /\ SaveRaises
  /\ UNCHANGED <<ringVars, pushVars, main, n, recording_live, keyVars>>

SaveLiveFails ==
  /\ main = "final" /\ recording_live /\ SaveRaises
  /\ main' = "exit"
  /\ UNCHANGED <<ringVars, pushVars, n, recording_live, keyVars>>

Exit ==
  /\ main = "exit" /\ finalize
  /\ main' = "wait"
  /\ UNCHANGED <<ringVars, pushVars, n, recording_live, keyVars>>

\* Faulty variant: the executor is shut down without waiting.
DontWait ==
  /\ main = "wait" /\ main' = "last"
  /\ UNCHANGED <<ringVars, dataVars, n, recording_live, keyVars>>

\* teardown: no more keys, pending pushes are awaited; the dataset is
\* finalized already.
WaitForPushes ==
  /\ main = "wait" /\ PushesDone
  /\ main' = "last"
  /\ UNCHANGED <<ringVars, dataVars, n, recording_live, keyVars>>

LastPush ==
  /\ main = "last" /\ main' = "done"
  /\ IF PushToHub /\ saved # <<>> THEN FinalPush ELSE UNCHANGED dataVars
  /\ UNCHANGED <<ringVars, n, recording_live, keyVars>>

\* The push raises, and with it teardown.
LastPushFails ==
  /\ main = "last" /\ PushToHub /\ saved # <<>>
  /\ main' = "failed"
  /\ UNCHANGED <<ringVars, dataVars, n, recording_live, keyVars>>

-------------------------------------------------------------------------------
(* The keyboard thread.                                                      *)
Listening == main \notin {"last", "done", "failed"} /\ ~esc

PressSave ==
  /\ Listening /\ presses.save < MaxSaves
  /\ save_requested' = TRUE /\ presses' = [presses EXCEPT !.save = @ + 1]
  /\ UNCHANGED <<ringVars, dataVars, main, n, recording_live, shutdown, push_requested, esc>>

PressPush ==
  /\ Listening /\ presses.push < MaxPushes
  /\ push_requested' = TRUE /\ presses' = [presses EXCEPT !.push = @ + 1]
  /\ UNCHANGED <<ringVars, dataVars, main, n, recording_live, shutdown, save_requested, esc>>

PressEsc ==
  /\ Listening /\ ~shutdown
  /\ save_requested' = FALSE /\ esc' = TRUE
  /\ UNCHANGED <<ringVars, dataVars, main, n, recording_live, shutdown, push_requested, presses>>

EscShutdown ==
  /\ esc /\ shutdown' = TRUE /\ esc' = FALSE
  /\ UNCHANGED <<ringVars, dataVars, main, n, recording_live, save_requested, push_requested,
                 presses>>

-------------------------------------------------------------------------------
Main ==
  \/ NewFrame \/ LeaveLoop \/ SeeSaveKey \/ StartRecording \/ DrainFails \/ StopRecording
  \/ SaveEpisode \/ SaveFails \/ SeePushKey \/ RequestPush \/ RecordLive \/ RecordRing \/ SaveLive
  \/ SaveLiveFails \/ Exit \/ WaitForPushes \/ LastPush \/ LastPushFails

Keys == PressSave \/ PressPush \/ PressEsc \/ EscShutdown

Worker ==
  /\ BeginUpload \/ SkipUpload \/ EndUpload \/ UploadFails
  /\ UNCHANGED <<ringVars, main, n, recording_live, keyVars>>

Finished == main \in {"done", "failed"} /\ UNCHANGED vars

Next == Main \/ Keys \/ Worker \/ Finished

Spec == Init /\ [][Next]_vars

FairSpec == Spec /\ WF_vars(Main) /\ WF_vars(Worker) /\ WF_vars(EscShutdown)

-------------------------------------------------------------------------------
(* Types of the strategy's state.                                            *)
TypeOK ==
  /\ DataTypeOK
  /\ ring \in Seq(Frames) /\ Len(ring) <= max_frames /\ current_bytes \in Nat
  /\ appended \in 0 .. max_frames
  /\ main \in {"loop", "save?", "toggle", "saving", "push?", "push", "record", "final",
               "exit", "wait", "last", "done", "failed"}
  /\ n \in 0 .. MaxFrames
  /\ {shutdown, save_requested, push_requested, recording_live, esc} \subseteq BOOLEAN
  /\ presses \in [save : 0 .. MaxSaves, push : 0 .. MaxPushes]

\* The newest frame that went into the ring or an episode.
Recorded == IF main \in {"save?", "toggle", "push?", "push", "record"} THEN n - 1 ELSE n

(* The ring holds the newest frames whenever it is in use, whatever was      *)
(* drained and recorded before.                                              *)
RingIsRecent == RingHoldsNewest(Recorded)

Consecutive(s) == \A i \in 1 .. Len(s) - 1 : s[i + 1] = s[i] + 1

(* Every episode is one stretch of the rollout without a gap, from the ring's*)
(* oldest frame to the one at the second key press, and no frame is in two   *)
(* episodes (highlight.py:155-185).                                          *)
EpisodesAreStretches ==
  /\ \A e \in 1 .. Len(saved) : Consecutive(saved[e])
  /\ \A e \in 1 .. Len(saved) - 1 : saved[e][Len(saved[e])] < saved[e + 1][1]

(* What was recorded live is saved before the session is over, however it    *)
(* ends, unless draining the ring or saving fails (highlight.py:195-200).    *)
NothingUnsaved == main \in {"done", "failed"} => buffer = <<>> \/ broken

(* After an orderly end the Hub has every episode, in files with footers:    *)
(* no background push overtakes the last one (highlight.py:212-228).         *)
HubIsComplete ==
  main = "done" /\ PushToHub /\ saved # <<>> =>
    hub = [episodes |-> Len(saved), readable |-> TRUE] /\ PushesDone

(* ESC ends the session: neither the lock nor the executor keeps the main    *)
(* thread forever.                                                           *)
SessionEnds == shutdown ~> main \in {"done", "failed"}

================================================================================
