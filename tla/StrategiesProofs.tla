--------------------------- MODULE StrategiesProofs ---------------------------
(***************************************************************************)
(* Theorems about a session of the recording strategies, whichever of them *)
(* create_strategy chose: what DAggerProofs and HighlightProofs prove of   *)
(* the strategies' steps holds in every session; and Sentry's state is     *)
(* well typed, its needs_push flag never forgets an episode, and an        *)
(* orderly session leaves all of them on the Hub, for any number of        *)
(* frames, episodes and uploads.                                           *)
(***************************************************************************)
EXTENDS MCStrategies, TLAPS

DP == INSTANCE DAggerProofs WITH
  buffer <- d_buffer, broken <- d_broken, saved <- d_saved,
  file <- d_file, queued <- d_queued, pusher <- d_pusher, copy <- d_copy, hub <- d_hub,
  main <- d_main, n <- d_n, needs_push <- d_needs_push,
  episodes_since_push <- d_episodes_since_push

HP == INSTANCE HighlightProofs WITH
  buffer <- h_buffer, broken <- h_broken, saved <- h_saved,
  file <- h_file, queued <- h_queued, pusher <- h_pusher, copy <- h_copy, hub <- h_hub,
  main <- h_main, n <- h_n, shutdown <- h_shutdown

-------------------------------------------------------------------------------
(* DAgger.                                                                   *)

LEMMA DAggerConstantsHold == DP!DAggerConstants
  BY StrategiesAssumption DEF DP!DAggerConstants

LEMMA DAggerInit == StrategiesInit => DP!Init
  BY DEF StrategiesInit, D!Init, DP!Init, D!DataInit, DP!DataInit, D!NoCopy, DP!NoCopy

(* The two instances of DAgger have the same steps.                          *)
LEMMA DAggerStep == [StrategiesNext]_allVars => [DP!Next]_DP!vars
<1>1. D!Next => DP!Next
  BY DEF D!Transitions, DP!Transitions, D!Valid, DP!Valid, D!Next_phase, DP!Next_phase, D!fileVars, D!pushVars, D!dataVars, D!NoCopy, D!LockFree,
       D!CanSave, D!save_episode, D!SaveRaises, D!finalize, D!submit, D!BeginUpload,
       D!SkipUpload, D!EndUpload, D!UploadFails, D!PushesDone, D!FinalPush, D!eventVars,
       D!frameVars, D!countVars, D!vars, D!InRollout, D!request_transition, D!RequestUpload,
       D!LeaveLoop, D!InLoop, D!NoTransition, D!consume_transition, D!SaveCorrection,
       D!SaveFails, D!MarkCorrection, D!UploadOnDemand, D!Recording, D!RecordTick, D!NoFrame,
       D!KeepEpisode, D!RotateEpisode, D!MarkPush, D!SaveFinal, D!SaveFinalFails, D!MarkFinal,
       D!Exit, D!WaitForPushes, D!LastPush, D!LastPushFails, D!Worker, D!Main, D!Finished,
       D!Next, DP!fileVars, DP!pushVars, DP!dataVars, DP!NoCopy, DP!LockFree, DP!CanSave,
       DP!save_episode, DP!SaveRaises, DP!finalize, DP!submit, DP!BeginUpload, DP!SkipUpload,
       DP!EndUpload, DP!UploadFails, DP!PushesDone, DP!FinalPush, DP!eventVars, DP!frameVars,
       DP!countVars, DP!vars, DP!InRollout, DP!request_transition, DP!RequestUpload,
       DP!LeaveLoop, DP!InLoop, DP!NoTransition, DP!consume_transition, DP!SaveCorrection,
       DP!SaveFails, DP!MarkCorrection, DP!UploadOnDemand, DP!Recording, DP!RecordTick,
       DP!NoFrame, DP!KeepEpisode, DP!RotateEpisode, DP!MarkPush, DP!SaveFinal,
       DP!SaveFinalFails, DP!MarkFinal, DP!Exit, DP!WaitForPushes, DP!LastPush, DP!LastPushFails,
       DP!Worker, DP!Main, DP!Finished, DP!Next
<1>2. UNCHANGED dVars => UNCHANGED DP!vars
  BY DEF dVars, DP!vars, DP!dataVars, DP!fileVars, DP!pushVars, DP!eventVars, DP!frameVars,
       DP!countVars
<1> QED
  BY <1>1, <1>2 DEF StrategiesNext, allVars


LEMMA DAggerWhole ==
  /\ StrategiesInit => DP!WholeInv
  /\ DP!WholeInv /\ [StrategiesNext]_allVars => DP!WholeInv'
<1>1. ASSUME StrategiesInit
      PROVE  DP!WholeInv
  BY <1>1, PushAssumption, DAggerConstantsHold, DAggerInit, DP!InitWholeInv
<1>2. ASSUME DP!WholeInv, [StrategiesNext]_allVars
      PROVE  DP!WholeInv'
  BY <1>2, PushAssumption, DAggerConstantsHold, DAggerStep, DP!NextWholeInv
<1> QED
  BY <1>1, <1>2

LEMMA DAggerFlag ==
  /\ StrategiesInit => DP!FlagInv
  /\ DP!FlagInv /\ [StrategiesNext]_allVars => DP!FlagInv'
<1>1. ASSUME StrategiesInit
      PROVE  DP!FlagInv
  BY <1>1, PushAssumption, DAggerConstantsHold, DAggerInit, DP!InitFlagInv
<1>2. ASSUME DP!FlagInv, [StrategiesNext]_allVars
      PROVE  DP!FlagInv'
  BY <1>2, PushAssumption, DAggerConstantsHold, DAggerStep, DP!NextFlagInv
<1> QED
  BY <1>1, <1>2

(* A pending request always fits the phase it will be consumed in, whatever  *)
(* the operator presses and when (dagger.py:142-164).                        *)
THEOREM DAggerRequestsFit == StrategiesSpec => []RequestFitsPhase
<1>1. DP!WholeInv => RequestFitsPhase
  BY DEF DP!WholeInv, DP!TypeInv, RequestFitsPhase, D!RequestFitsPhase, DP!RequestFitsPhase,
       D!DataTypeOK, DP!DataTypeOK, D!Frames, DP!Frames, D!Copies, DP!Copies,
       D!Valid, DP!Valid, D!Transitions, DP!Transitions
<1> QED
  BY <1>1, DAggerWhole, PTL DEF StrategiesSpec

(* The frames of a correction are in one episode, and in corrections-only    *)
(* mode an episode is one correction, for any number of corrections, frames  *)
(* and failed saves (dagger.py:533-541, 639-650).                            *)
THEOREM DAggerCorrectionsWhole == StrategiesSpec => []CorrectionsAreWhole
<1>1. DP!WholeInv => CorrectionsAreWhole
  BY DEF DP!WholeInv, CorrectionsAreWhole, D!CorrectionsAreWhole, DP!CorrectionsAreWhole,
       D!Episode, DP!Episode, D!FramesOf, DP!FramesOf
<1> QED
  BY <1>1, DAggerWhole, PTL DEF StrategiesSpec

(* A cleared _needs_push means that the Hub has every saved episode, however *)
(* saves, failures and background uploads interleave (dagger.py:541-571,     *)
(* 639-650, 712-717, 818-829).                                               *)
THEOREM DAggerForgetsNothing == StrategiesSpec => []NothingForgotten
<1>1. DP!FlagInv => NothingForgotten
  BY DEF DP!FlagInv, NothingForgotten, D!NothingForgotten, DP!NothingForgotten
<1> QED
  BY <1>1, DAggerFlag, PTL DEF StrategiesSpec


-------------------------------------------------------------------------------
(* Highlight.                                                                *)

LEMMA HighlightConstantsHold == HP!HighlightConstants
  BY StrategiesAssumption DEF HP!HighlightConstants

LEMMA HighlightInit == StrategiesInit => HP!Init
  BY DEF StrategiesInit, H!Init, HP!Init, H!DataInit, HP!DataInit, H!NoCopy, HP!NoCopy,
       H!RingInit, HP!RingInit

(* The two instances of Highlight have the same steps.                       *)
LEMMA HighlightStep == [StrategiesNext]_allVars => [HP!Next]_HP!vars
<1>1. H!Next => HP!Next
  BY DEF H!ringVars, H!Evictions, H!DequeAppend, H!append, H!drain, H!fileVars, H!pushVars,
       H!dataVars, H!NoCopy, H!LockFree, H!CanSave, H!save_episode, H!SaveRaises, H!finalize,
       H!submit, H!BeginUpload, H!SkipUpload, H!EndUpload, H!UploadFails, H!PushesDone,
       H!FinalPush, H!keyVars, H!vars, H!NewFrame, H!LeaveLoop, H!SeeSaveKey, H!StartRecording,
       H!DrainFails, H!StopRecording, H!SaveEpisode, H!SaveFails, H!SeePushKey, H!RequestPush,
       H!RecordLive,
       H!RecordRing, H!SaveLive, H!SaveLiveFails, H!Exit, H!WaitForPushes, H!LastPush,
       H!LastPushFails, H!Listening, H!PressSave, H!PressPush, H!PressEsc, H!EscShutdown, H!Main,
       H!Keys, H!Worker, H!Finished, H!Next, HP!ringVars, HP!Evictions, HP!DequeAppend,
       HP!append, HP!drain, HP!fileVars, HP!pushVars, HP!dataVars, HP!NoCopy, HP!LockFree,
       HP!CanSave, HP!save_episode, HP!SaveRaises, HP!finalize, HP!submit, HP!BeginUpload,
       HP!SkipUpload, HP!EndUpload, HP!UploadFails, HP!PushesDone, HP!FinalPush, HP!keyVars,
       HP!vars, HP!NewFrame, HP!LeaveLoop, HP!SeeSaveKey, HP!StartRecording, HP!DrainFails,
       HP!StopRecording, HP!SaveEpisode, HP!SaveFails, HP!SeePushKey, HP!RequestPush, HP!RecordLive, HP!RecordRing,
       HP!SaveLive, HP!SaveLiveFails, HP!Exit, HP!WaitForPushes, HP!LastPush, HP!LastPushFails,
       HP!Listening, HP!PressSave, HP!PressPush, HP!PressEsc, HP!EscShutdown, HP!Main, HP!Keys,
       HP!Worker, HP!Finished, HP!Next
<1>2. UNCHANGED hVars => UNCHANGED HP!vars
  BY DEF hVars, HP!vars, HP!ringVars, HP!dataVars, HP!fileVars, HP!pushVars, HP!keyVars
<1> QED
  BY <1>1, <1>2 DEF StrategiesNext, allVars

LEMMA HighlightSession ==
  /\ StrategiesInit => HP!SessionInv
  /\ HP!SessionInv /\ [StrategiesNext]_allVars => HP!SessionInv'
<1>1. ASSUME StrategiesInit
      PROVE  HP!SessionInv
  BY <1>1, PushAssumption, HighlightConstantsHold, HighlightInit, HP!InitSessionInv
<1>2. ASSUME HP!SessionInv, [StrategiesNext]_allVars
      PROVE  HP!SessionInv'
  BY <1>2, PushAssumption, HighlightConstantsHold, HighlightStep, HP!NextSessionInv
<1> QED
  BY <1>1, <1>2

(* Highlight's state is well typed; the estimate of the ring is never        *)
(* negative, although it drifts (ring_buffer.py:60-76).                      *)
THEOREM HighlightTypeCorrect == StrategiesSpec => []HighlightTypeOK
<1>1. HP!SessionInv => HighlightTypeOK
  <2>1. ASSUME HP!SessionInv
        PROVE  HP!TypeOK
    BY <2>1, PushAssumption, HighlightConstantsHold, HP!SessionTypeOK
  <2> QED
    BY <2>1 DEF HighlightTypeOK, H!TypeOK, HP!TypeOK, H!DataTypeOK, HP!DataTypeOK,
         H!Frames, HP!Frames, H!Copies, HP!Copies
<1> QED
  BY <1>1, HighlightSession, PTL DEF StrategiesSpec

(* The ring holds the newest frames, as many as both limits allow, for all   *)
(* limits and sizes of frames (ring_buffer.py:60-76, highlight.py:155-193).  *)
THEOREM HighlightRingRecent == StrategiesSpec => []RingIsRecent
<1>1. HP!SessionInv => RingIsRecent
  <2>1. ASSUME HP!SessionInv
        PROVE  HP!RingIsRecent
    BY <2>1, PushAssumption, HighlightConstantsHold, HP!SessionRingIsRecent
  <2> QED
    BY <2>1 DEF RingIsRecent, H!RingIsRecent, HP!RingIsRecent, H!RingHoldsNewest,
         HP!RingHoldsNewest, H!Recorded, HP!Recorded, H!AtLeast, HP!AtLeast, H!AtMost, HP!AtMost
<1> QED
  BY <1>1, HighlightSession, PTL DEF StrategiesSpec

(* Every episode is a stretch of the rollout without a gap, and none shares  *)
(* a frame with another, whenever the save key is pressed                    *)
(* (highlight.py:155-185).                                                   *)
THEOREM HighlightEpisodesStretch == StrategiesSpec => []EpisodesAreStretches
<1>1. HP!SessionInv => EpisodesAreStretches
  BY DEF HP!SessionInv, HP!FramesInv, EpisodesAreStretches, H!EpisodesAreStretches,
       HP!EpisodesAreStretches, H!Consecutive, HP!Consecutive
<1> QED
  BY <1>1, HighlightSession, PTL DEF StrategiesSpec

(* What was recorded live is saved before the session is over, unless saving *)
(* itself fails (highlight.py:195-200).                                      *)
THEOREM HighlightSavesLive == StrategiesSpec => []NothingUnsaved
<1>1. HP!SessionInv => NothingUnsaved
  BY DEF HP!SessionInv, HP!EndsInOrder, NothingUnsaved, H!NothingUnsaved, HP!NothingUnsaved
<1> QED
  BY <1>1, HighlightSession, PTL DEF StrategiesSpec

(* After an orderly end the Hub has every episode in files with footers, and *)
(* no push is left that could overtake the last one (highlight.py:212-228).  *)
THEOREM HighlightHubComplete == StrategiesSpec => []HubIsComplete
<1>1. HP!SessionInv => HubIsComplete
  BY DEF HP!SessionInv, HubIsComplete, H!HubIsComplete, HP!HubIsComplete, H!PushesDone,
       HP!PushesDone
<1> QED
  BY <1>1, HighlightSession, PTL DEF StrategiesSpec

-------------------------------------------------------------------------------
(* Sentry.                                                                   *)

LEMMA SentryInit == StrategiesInit => Init
  BY DEF StrategiesInit

LEMMA SentryStep == [StrategiesNext]_allVars => [Next]_vars
  BY DEF StrategiesNext, allVars


(* A copy under way is a copy of all that is saved: _episode_lock keeps      *)
(* saves out until the worker has cleared the flag.                          *)
UploadIsCurrent == pusher = "upload" => copy.episodes = Len(saved)

CopyTypeOK == copy \in [episodes : Nat, readable : BOOLEAN]

IInv == CopyTypeOK /\ saved \in Seq(Seq(Nat)) /\ buffer \in Seq(Nat) /\ n \in Nat
        /\ UploadIsCurrent /\ NoEpisodeForgotten

LEMMA InitIInv == Init => IInv
<1> SUFFICES ASSUME Init PROVE IInv
  OBVIOUS
<1>1. CopyTypeOK /\ UploadIsCurrent
  BY DEF Init, DataInit, NoCopy, CopyTypeOK, UploadIsCurrent
<1>2. NoEpisodeForgotten
  BY DEF Init, DataInit, NoCopy, NoEpisodeForgotten
<1> QED
  BY <1>1, <1>2 DEF IInv, Init, DataInit

(* Steps that touch neither the dataset nor the executor keep all of the     *)
(* invariant but the part about the flag.                                    *)
LEMMA FrameRule ==
  ASSUME IInv, UNCHANGED dataVars, n' = n, NoEpisodeForgotten'
  PROVE  IInv'
  BY DEF IInv, dataVars, fileVars, pushVars, CopyTypeOK, UploadIsCurrent

LEMMA MainIInv == IInv /\ Main => IInv'
<1> SUFFICES ASSUME IInv, Main PROVE IInv'
  OBVIOUS
<1>0. CopyTypeOK /\ saved \in Seq(Seq(Nat)) /\ buffer \in Seq(Nat) /\ n \in Nat
      /\ UploadIsCurrent /\ NoEpisodeForgotten
  BY DEF IInv
<1>1. ASSUME save_episode, UNCHANGED <<pushVars, n>>
      PROVE  CopyTypeOK' /\ saved' \in Seq(Seq(Nat)) /\ buffer' \in Seq(Nat) /\ n' \in Nat
             /\ UploadIsCurrent'
  BY <1>0, <1>1 DEF save_episode, LockFree, pushVars, CopyTypeOK, UploadIsCurrent
<1>2. ASSUME UNCHANGED <<buffer, saved, pushVars, n>>, NoEpisodeForgotten' PROVE IInv'
  BY <1>0, <1>2 DEF pushVars, IInv, CopyTypeOK, UploadIsCurrent
<1>3. CASE RecordFrame
  <2>1. buffer' \in Seq(Nat) /\ n' \in Nat
    BY <1>0, <1>3 DEF RecordFrame
  <2>2. NoEpisodeForgotten' /\ CopyTypeOK' /\ UploadIsCurrent' /\ saved' = saved
    BY <1>0, <1>3 DEF RecordFrame, pushVars, NoEpisodeForgotten, CopyTypeOK, UploadIsCurrent
  <2> QED
    BY <1>0, <2>1, <2>2 DEF IInv
<1>4. CASE NoAction \/ LeaveLoop \/ KeepEpisode \/ WaitForPushes
  <2>1. NoEpisodeForgotten'
    BY <1>0, <1>4 DEF NoAction, LeaveLoop, KeepEpisode, WaitForPushes, NoEpisodeForgotten,
         dataVars, fileVars, pushVars
  <2> QED
    BY <1>4, <2>1, FrameRule DEF NoAction, LeaveLoop, KeepEpisode, WaitForPushes
<1>5. CASE RotateEpisode
  <2>1. NoEpisodeForgotten'
    BY <1>5 DEF RotateEpisode, NoEpisodeForgotten
  <2> QED
    BY <1>1, <1>5, <2>1 DEF RotateEpisode, IInv
<1>6. CASE SaveFinal
  <2>1. NoEpisodeForgotten'
    BY <1>6 DEF SaveFinal, NoEpisodeForgotten
  <2> QED
    BY <1>1, <1>6, <2>1 DEF SaveFinal, IInv
<1>7. CASE RotateFails \/ SaveFinalFails
  <2>1. UNCHANGED <<buffer, saved, pushVars, n>>
    BY <1>7 DEF RotateFails, SaveFinalFails, SaveRaises
  <2>2. NoEpisodeForgotten'
    BY <1>0, <1>7, <2>1 DEF RotateFails, SaveFinalFails, NoEpisodeForgotten, pushVars
  <2> QED
    BY <1>2, <2>1, <2>2
<1>8. CASE MarkPush \/ MarkFinal
  <2>1. NoEpisodeForgotten'
    BY <1>8 DEF MarkPush, MarkFinal, NoEpisodeForgotten
  <2> QED
    BY <1>8, <2>1, FrameRule DEF MarkPush, MarkFinal
<1>9. CASE Submit
  <2>1. UNCHANGED <<fileVars, pusher, copy, hub, n, needs_push>> /\ main = "submit"
    BY <1>9 DEF Submit, submit
  <2>2. NoEpisodeForgotten'
    BY <1>0, <2>1 DEF NoEpisodeForgotten, fileVars
  <2> QED
    BY <1>0, <2>1, <2>2 DEF IInv, CopyTypeOK, UploadIsCurrent, fileVars
<1>10. CASE Exit
  <2>1. UNCHANGED <<buffer, saved, pushVars, n>>
    BY <1>10 DEF Exit, finalize
  <2>2. NoEpisodeForgotten'
    BY <1>0, <1>10, <2>1 DEF Exit, NoEpisodeForgotten, pushVars
  <2> QED
    BY <1>2, <2>1, <2>2
<1>11. CASE LastPush
  <2>1. UNCHANGED <<fileVars, pusher, copy, n, needs_push>> /\ main = "last"
    BY <1>11 DEF LastPush, FinalPush, dataVars, fileVars, pushVars
  <2>2. hub' = hub \/ hub'.episodes = Len(saved)
    BY <1>11 DEF LastPush, FinalPush, dataVars, pushVars
  <2>3. NoEpisodeForgotten'
    BY <1>0, <2>1, <2>2 DEF NoEpisodeForgotten, fileVars
  <2> QED
    BY <1>0, <2>1, <2>3 DEF IInv, CopyTypeOK, UploadIsCurrent, fileVars
<1>12. CASE LastPushFails
  <2>1. NoEpisodeForgotten'
    BY <1>0, <1>12 DEF LastPushFails, NoEpisodeForgotten, dataVars, fileVars, pushVars
  <2> QED
    BY <1>12, <2>1, FrameRule DEF LastPushFails
<1> QED
  BY <1>3, <1>4, <1>5, <1>6, <1>7, <1>8, <1>9, <1>10, <1>11, <1>12 DEF Main

LEMMA WorkerIInv == IInv /\ Worker => IInv'
<1> SUFFICES ASSUME IInv, Worker PROVE IInv'
  OBVIOUS
<1>0. CopyTypeOK /\ saved \in Seq(Seq(Nat)) /\ buffer \in Seq(Nat) /\ n \in Nat
      /\ UploadIsCurrent /\ NoEpisodeForgotten
  BY DEF IInv
<1>1. saved' = saved /\ buffer' = buffer /\ n' = n /\ main' = main
  BY DEF Worker, UploadOrFail, BeginUpload, SkipUpload, EndUpload, UploadFails, fileVars
<1>2. CASE BeginUpload /\ UNCHANGED needs_push
  <2>1. copy' = [episodes |-> Len(saved), readable |-> file = "closed"] /\ hub' = hub
    BY <1>2 DEF BeginUpload
  <2>2. CopyTypeOK' /\ UploadIsCurrent'
    BY <1>0, <1>1, <2>1 DEF CopyTypeOK, UploadIsCurrent
  <2>3. NoEpisodeForgotten'
    BY <1>0, <1>1, <1>2, <2>1 DEF NoEpisodeForgotten
  <2> QED
    BY <1>0, <1>1, <2>2, <2>3 DEF IInv
<1>3. CASE SkipUpload /\ UNCHANGED needs_push
  <2>1. copy' = copy /\ hub' = hub /\ pusher' = pusher /\ needs_push' = needs_push
    BY <1>3 DEF SkipUpload
  <2> QED
    BY <1>0, <1>1, <2>1 DEF IInv, CopyTypeOK, UploadIsCurrent, NoEpisodeForgotten
<1>4. CASE EndUpload /\ needs_push' = FALSE
  <2>1. pusher = "upload" /\ pusher' = "idle" /\ copy' = NoCopy
    BY <1>4 DEF EndUpload
  <2>2. PICK readable \in {copy.readable, file = "closed"} :
          hub' = [copy EXCEPT !.readable = readable]
    BY <1>4 DEF EndUpload
  <2>3. hub'.episodes = copy.episodes
    BY <1>0, <2>2 DEF CopyTypeOK
  <2>4. NoEpisodeForgotten'
    BY <1>0, <1>1, <2>1, <2>3 DEF UploadIsCurrent, NoEpisodeForgotten
  <2>5. CopyTypeOK' /\ UploadIsCurrent'
    BY <2>1 DEF NoCopy, CopyTypeOK, UploadIsCurrent
  <2> QED
    BY <1>0, <1>1, <2>4, <2>5 DEF IInv
<1>5. CASE UploadFails /\ UNCHANGED needs_push
  <2>1. hub' = hub /\ pusher' = "idle" /\ copy' = NoCopy /\ needs_push' = needs_push
    BY <1>5 DEF UploadFails
  <2>2. CopyTypeOK' /\ UploadIsCurrent'
    BY <2>1 DEF NoCopy, CopyTypeOK, UploadIsCurrent
  <2>3. NoEpisodeForgotten'
    BY <1>0, <1>1, <2>1 DEF NoEpisodeForgotten
  <2> QED
    BY <1>0, <1>1, <2>2, <2>3 DEF IInv
<1> QED
  BY <1>2, <1>3, <1>4, <1>5 DEF Worker, UploadOrFail

LEMMA NextIInv == IInv /\ [Next]_vars => IInv'
<1> SUFFICES ASSUME IInv, [Next]_vars PROVE IInv'
  OBVIOUS
<1>1. CASE Main
  BY <1>1, MainIInv
<1>2. CASE Worker
  BY <1>2, WorkerIInv
<1>3. CASE RequestShutdown
  <2>1. NoEpisodeForgotten'
    BY <1>3 DEF IInv, RequestShutdown, NoEpisodeForgotten, dataVars, fileVars, pushVars
  <2> QED
    BY <1>3, <2>1, FrameRule DEF RequestShutdown
<1>4. CASE UNCHANGED vars
  <2>1. NoEpisodeForgotten'
    BY <1>4 DEF IInv, vars, NoEpisodeForgotten, dataVars, fileVars, pushVars
  <2> QED
    BY <1>4, <2>1, FrameRule DEF vars
<1> QED
  BY <1>1, <1>2, <1>3, <1>4 DEF Next, Finished

(* _needs_push is cleared only when the Hub has every saved episode, however *)
(* saves, failures, background uploads and the shutdown interleave.          *)
THEOREM SentryForgetsNothing == StrategiesSpec => []NoEpisodeForgotten
<1>1. IInv => NoEpisodeForgotten
  BY DEF IInv
<1> QED
  BY <1>1, SentryInit, SentryStep, InitIInv, NextIInv, PTL DEF StrategiesSpec

-------------------------------------------------------------------------------
(* After the executor has been waited for, nothing is queued or uploaded; and *)
(* the Hub is empty until something is saved.                                *)
PushesOver == main \in {"last", "done", "failed"} => queued = 0 /\ pusher = "idle"
HubBehind == saved = <<>> => hub.episodes = 0

HubInv == IInv /\ PushesOver /\ HubBehind /\ HubHasAll

LEMMA InitHubInv == Init => HubInv
  BY InitIInv DEF HubInv, Init, DataInit, PushesOver, HubBehind, HubHasAll, NoCopy

LEMMA MainHubInv == HubInv /\ Main => PushesOver' /\ HubBehind' /\ HubHasAll'
<1> SUFFICES ASSUME HubInv, Main PROVE PushesOver' /\ HubBehind' /\ HubHasAll'
  OBVIOUS
<1>0. /\ PushesOver /\ HubBehind /\ NoEpisodeForgotten
      /\ saved \in Seq(Seq(Nat)) /\ buffer \in Seq(Nat)
  BY DEF HubInv, IInv
<1>1. ASSUME UNCHANGED <<saved, queued, pusher, hub>>,
             main' \notin {"last", "done", "failed"}
      PROVE  PushesOver' /\ HubBehind' /\ HubHasAll'
  BY <1>0, <1>1 DEF PushesOver, HubBehind, HubHasAll
<1>2. CASE RecordFrame \/ NoAction \/ LeaveLoop \/ KeepEpisode \/ RotateFails \/ MarkPush
           \/ MarkFinal \/ SaveFinalFails \/ Exit
  BY <1>1, <1>2 DEF RecordFrame, NoAction, LeaveLoop, KeepEpisode, RotateFails, MarkPush,
       MarkFinal, SaveFinalFails, Exit, SaveRaises, finalize, dataVars, fileVars, pushVars
<1>3. CASE RotateEpisode \/ SaveFinal
  <2>1. saved' = Append(saved, buffer) /\ main' \in {"mark", "markFinal"}
    BY <1>3 DEF RotateEpisode, SaveFinal, save_episode
  <2>2. saved' # <<>>
    BY <1>0, <2>1
  <2> QED
    BY <2>1, <2>2 DEF PushesOver, HubBehind, HubHasAll
<1>4. CASE Submit
  BY <1>0, <1>4 DEF Submit, submit, fileVars, PushesOver, HubBehind, HubHasAll
<1>5. CASE WaitForPushes
  BY <1>0, <1>5 DEF WaitForPushes, PushesDone, dataVars, fileVars, pushVars,
       PushesOver, HubBehind, HubHasAll
<1>6. CASE LastPush
  <2>1. UNCHANGED <<saved, queued, pusher>> /\ main = "last" /\ main' = "done"
    BY <1>6 DEF LastPush, FinalPush, dataVars, fileVars, pushVars
  <2>2. CASE needs_push /\ PushToHub /\ saved # <<>>
    <3>1. hub'.episodes = Len(saved)
      BY <1>6, <2>2 DEF LastPush, FinalPush
    <3> QED
      BY <1>0, <2>1, <2>2, <3>1 DEF PushesOver, HubBehind, HubHasAll
  <2>3. CASE ~(needs_push /\ PushToHub /\ saved # <<>>)
    <3>1. hub' = hub
      BY <1>6, <2>3 DEF LastPush, dataVars, pushVars
    <3>2. PushToHub => hub.episodes = Len(saved)
      BY <1>0, <2>1, <2>3 DEF NoEpisodeForgotten, HubBehind
    <3> QED
      BY <1>0, <2>1, <3>1, <3>2 DEF PushesOver, HubBehind, HubHasAll
  <2> QED
    BY <2>2, <2>3
<1>7. CASE LastPushFails
  BY <1>0, <1>7 DEF LastPushFails, dataVars, fileVars, pushVars, PushesOver, HubBehind, HubHasAll
<1> QED
  BY <1>2, <1>3, <1>4, <1>5, <1>6, <1>7 DEF Main

LEMMA WorkerHubInv == HubInv /\ Worker => PushesOver' /\ HubBehind' /\ HubHasAll'
<1> SUFFICES ASSUME HubInv, Worker PROVE PushesOver' /\ HubBehind' /\ HubHasAll'
  OBVIOUS
<1>0. /\ PushesOver /\ HubBehind /\ CopyTypeOK /\ UploadIsCurrent
      /\ saved \in Seq(Seq(Nat))
  BY DEF HubInv, IInv
<1>1. saved' = saved /\ main' = main
  BY DEF Worker, UploadOrFail, BeginUpload, SkipUpload, EndUpload, UploadFails, fileVars
<1>2. queued > 0 \/ pusher = "upload"
  BY DEF Worker, UploadOrFail, BeginUpload, SkipUpload, EndUpload, UploadFails
<1>3. main \notin {"last", "done", "failed"}
  BY <1>0, <1>2 DEF PushesOver
<1>4. hub' = hub \/ hub'.episodes = Len(saved)
  <2>1. CASE EndUpload
    <3>1. PICK readable \in {copy.readable, file = "closed"} :
            hub' = [copy EXCEPT !.readable = readable]
      BY <2>1 DEF EndUpload
    <3>2. hub'.episodes = copy.episodes
      BY <1>0, <3>1 DEF CopyTypeOK
    <3> QED
      BY <1>0, <2>1, <3>2 DEF EndUpload, UploadIsCurrent
  <2>2. CASE ~EndUpload
    BY <2>2 DEF Worker, UploadOrFail, BeginUpload, SkipUpload, UploadFails
  <2> QED
    BY <2>1, <2>2
<1> QED
  BY <1>0, <1>1, <1>3, <1>4 DEF PushesOver, HubBehind, HubHasAll

LEMMA NextHubInv == HubInv /\ [Next]_vars => HubInv'
<1> SUFFICES ASSUME HubInv, [Next]_vars PROVE PushesOver' /\ HubBehind' /\ HubHasAll'
  BY NextIInv DEF HubInv
<1>1. CASE Main
  BY <1>1, MainHubInv
<1>2. CASE Worker
  BY <1>2, WorkerHubInv
<1>3. CASE RequestShutdown \/ UNCHANGED vars
  BY <1>3 DEF HubInv, RequestShutdown, vars, dataVars, fileVars, pushVars,
       PushesOver, HubBehind, HubHasAll
<1> QED
  BY <1>1, <1>2, <1>3 DEF Next, Finished

(* A session that ends without an error in the last push leaves all saved    *)
(* episodes on the Hub, whichever pushes succeeded before (sentry.py:167-    *)
(* 195).                                                                     *)
THEOREM SentryHubHasAll == StrategiesSpec => []HubHasAll
<1>1. HubInv => HubHasAll
  BY DEF HubInv
<1> QED
  BY <1>1, SentryInit, SentryStep, InitHubInv, NextHubInv, PTL DEF StrategiesSpec

-------------------------------------------------------------------------------
(* Every saved episode has a frame, so there are never more episodes than    *)
(* frames; and the loop submits a push as soon as it is due.                 *)
Counted == Len(saved) + Len(buffer) <= n
PushInTime == main \in {"loop", "rotate"} => episodes_since_push < upload_every_n_episodes

TypeInv == TypeOK /\ Counted /\ PushInTime

LEMMA ACopy ==
  ASSUME NEW episodes \in 0 .. MaxFrames, NEW readable \in BOOLEAN
  PROVE  [episodes |-> episodes, readable |-> readable] \in Copies
  BY DEF Copies

LEMMA NoCopyIsACopy == NoCopy \in Copies
<1>1. 0 \in 0 .. MaxFrames
  BY PushAssumption
<1> QED
  BY <1>1, ACopy, Zenon DEF NoCopy

LEMMA InitTypeInv == Init => TypeInv
<1> SUFFICES ASSUME Init PROVE TypeInv
  OBVIOUS
<1>1. /\ buffer = <<>> /\ saved = <<>> /\ file = "none" /\ queued = 0 /\ pusher = "idle"
      /\ copy = NoCopy /\ hub = NoCopy /\ broken \in BOOLEAN
  BY DEF Init, DataInit
<1>2. buffer \in Seq(Frames) /\ saved \in Seq(Seq(Frames))
  BY <1>1
<1>3. DataTypeOK
  BY <1>1, <1>2, NoCopyIsACopy DEF DataTypeOK
<1>4. Counted
  BY <1>1 DEF Init, Counted
<1>5. PushInTime /\ episodes_since_push \in 0 .. upload_every_n_episodes /\ n \in 0 .. MaxFrames
  BY PushAssumption, UploadAssumption DEF Init, PushInTime
<1>6. shutdown \in BOOLEAN /\ needs_push \in BOOLEAN /\ main = "loop"
  BY DEF Init
<1> QED
  BY <1>3, <1>4, <1>5, <1>6 DEF TypeInv, TypeOK

(* Saving turns the frames of the buffer into one episode.                   *)
LEMMA SaveTypes ==
  ASSUME TypeInv, save_episode, UNCHANGED <<pushVars, n>>
  PROVE  DataTypeOK' /\ Counted'
<1>1. buffer \in Seq(Frames) /\ saved \in Seq(Seq(Frames)) /\ buffer # <<>>
  BY DEF TypeInv, TypeOK, DataTypeOK, save_episode, CanSave
<1>2. saved' \in Seq(Seq(Frames)) /\ Len(saved') = Len(saved) + 1
  BY <1>1 DEF save_episode
<1>3. buffer' \in Seq(Frames) /\ Len(buffer') = 0 /\ Len(buffer) >= 1
  BY <1>1 DEF save_episode
<1>4. n \in Nat /\ Len(saved) \in Nat /\ Len(buffer) \in Nat
  BY <1>1 DEF TypeInv, TypeOK
<1>5. Counted'
  BY <1>2, <1>3, <1>4 DEF TypeInv, Counted
<1> QED
  BY <1>2, <1>3, <1>5 DEF TypeInv, TypeOK, DataTypeOK, save_episode, pushVars

LEMMA RaiseTypes ==
  ASSUME TypeInv, SaveRaises, UNCHANGED <<pushVars, n>>
  PROVE  DataTypeOK' /\ Counted'
  BY DEF TypeInv, TypeOK, DataTypeOK, Counted, SaveRaises, pushVars

LEMMA MainTypeInv == TypeInv /\ Main => TypeInv'
<1> SUFFICES ASSUME TypeInv, Main PROVE TypeInv'
  OBVIOUS
<1>0. /\ DataTypeOK /\ n \in 0 .. MaxFrames /\ shutdown \in BOOLEAN /\ needs_push \in BOOLEAN
      /\ episodes_since_push \in 0 .. upload_every_n_episodes
      /\ Counted /\ PushInTime
      /\ MaxFrames \in Nat /\ upload_every_n_episodes \in Nat \ {0}
  BY PushAssumption, UploadAssumption DEF TypeInv, TypeOK
<1> USE DEF TypeInv, TypeOK, Counted, PushInTime
<1>1. CASE RecordFrame
  <2>1. n' \in 1 .. MaxFrames /\ n' = n + 1
    BY <1>0, <1>1 DEF RecordFrame
  <2>2. buffer' \in Seq(Frames) /\ Len(buffer') = Len(buffer) + 1
    BY <1>0, <1>1, <2>1 DEF RecordFrame, DataTypeOK, Frames
  <2>3. DataTypeOK'
    BY <1>0, <1>1, <2>2 DEF RecordFrame, DataTypeOK, pushVars
  <2>4. Len(saved) \in Nat /\ Len(buffer) \in Nat
    BY <1>0 DEF DataTypeOK
  <2> QED
    BY <1>0, <1>1, <2>1, <2>2, <2>3, <2>4 DEF RecordFrame
<1>2. CASE NoAction \/ LeaveLoop \/ KeepEpisode \/ MarkFinal \/ WaitForPushes \/ LastPushFails
  BY <1>0, <1>2 DEF NoAction, LeaveLoop, KeepEpisode, MarkFinal, WaitForPushes, LastPushFails,
       dataVars, fileVars, pushVars, DataTypeOK
<1>3. CASE MarkPush
  BY <1>0, <1>3 DEF MarkPush, dataVars, fileVars, pushVars, DataTypeOK
<1>4. CASE RotateEpisode
  BY <1>0, <1>4, SaveTypes DEF RotateEpisode
<1>5. CASE SaveFinal
  BY <1>0, <1>5, SaveTypes DEF SaveFinal
<1>6. CASE RotateFails \/ SaveFinalFails
  BY <1>0, <1>6, RaiseTypes DEF RotateFails, SaveFinalFails
<1>7. CASE Submit
  BY <1>0, <1>7 DEF Submit, submit, fileVars, DataTypeOK
<1>8. CASE Exit
  BY <1>0, <1>8 DEF Exit, finalize, pushVars, DataTypeOK
<1>9. CASE LastPush
  <2>1. Len(saved) \in 0 .. MaxFrames
    BY <1>0 DEF DataTypeOK
  <2>2. [episodes |-> Len(saved), readable |-> file # "open"] \in Copies
    <3>1. (file # "open") \in BOOLEAN
      OBVIOUS
    <3> QED
      BY <2>1, <3>1, ACopy
  <2>3. DataTypeOK'
    BY <1>0, <1>9, <2>2 DEF LastPush, FinalPush, dataVars, fileVars, pushVars, DataTypeOK
  <2> QED
    BY <1>0, <1>9, <2>3 DEF LastPush, FinalPush, dataVars, fileVars
<1> QED
  BY <1>1, <1>2, <1>3, <1>4, <1>5, <1>6, <1>7, <1>8, <1>9 DEF Main

LEMMA WorkerTypeInv == TypeInv /\ Worker => TypeInv'
<1> SUFFICES ASSUME TypeInv, Worker PROVE TypeInv'
  OBVIOUS
<1>0. DataTypeOK /\ Counted /\ n \in 0 .. MaxFrames /\ MaxFrames \in Nat
  BY PushAssumption DEF TypeInv, TypeOK
<1>1. UNCHANGED <<buffer, broken, saved, file, main, n, shutdown, episodes_since_push>>
      /\ needs_push' \in {needs_push, FALSE}
  BY DEF Worker, UploadOrFail, BeginUpload, SkipUpload, EndUpload, UploadFails, fileVars
<1>2. queued' \in Nat /\ pusher' \in {"idle", "upload"}
  BY <1>0 DEF Worker, UploadOrFail, BeginUpload, SkipUpload, EndUpload, UploadFails, DataTypeOK
<1>3. Len(saved) \in 0 .. MaxFrames
  BY <1>0 DEF DataTypeOK, Counted
<1>4. copy' \in Copies
  <2>1. [episodes |-> Len(saved), readable |-> file = "closed"] \in Copies
    <3>1. (file = "closed") \in BOOLEAN
      OBVIOUS
    <3> QED
      BY <1>3, <3>1, ACopy
  <2> QED
    BY <1>0, <2>1, NoCopyIsACopy DEF Worker, UploadOrFail, BeginUpload, SkipUpload, EndUpload, UploadFails,
         DataTypeOK
<1>5. hub' \in Copies
  <2>1. CASE EndUpload
    <3>1. PICK readable \in {copy.readable, file = "closed"} :
            hub' = [copy EXCEPT !.readable = readable]
      BY <2>1 DEF EndUpload
    <3>2. readable \in BOOLEAN
      BY <1>0, <3>1 DEF DataTypeOK, Copies
    <3> QED
      BY <1>0, <3>1, <3>2 DEF DataTypeOK, Copies
  <2>2. CASE ~EndUpload
    BY <1>0, <2>2 DEF Worker, UploadOrFail, BeginUpload, SkipUpload, UploadFails, DataTypeOK
  <2> QED
    BY <2>1, <2>2
<1> QED
  BY <1>0, <1>1, <1>2, <1>4, <1>5 DEF TypeInv, TypeOK, DataTypeOK, Counted, PushInTime

LEMMA NextTypeInv == TypeInv /\ [Next]_vars => TypeInv'
<1> SUFFICES ASSUME TypeInv, [Next]_vars PROVE TypeInv'
  OBVIOUS
<1>1. CASE Main
  BY <1>1, MainTypeInv
<1>2. CASE Worker
  BY <1>2, WorkerTypeInv
<1>3. CASE RequestShutdown \/ UNCHANGED vars
  BY <1>3 DEF TypeInv, TypeOK, Counted, PushInTime, RequestShutdown, vars, dataVars, fileVars,
       pushVars, DataTypeOK
<1> QED
  BY <1>1, <1>2, <1>3 DEF Next, Finished

(* Sentry's state is well typed; no count of episodes passes the period of   *)
(* the uploads (sentry.py:139-156).                                          *)
THEOREM SentryTypeCorrect == StrategiesSpec => []TypeOK
<1>1. TypeInv => TypeOK
  BY DEF TypeInv
<1> QED
  BY <1>1, SentryInit, SentryStep, InitTypeInv, NextTypeInv, PTL DEF StrategiesSpec

================================================================================
