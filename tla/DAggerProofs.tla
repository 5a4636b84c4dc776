----------------------------- MODULE DAggerProofs -----------------------------
(***************************************************************************)
(* What DAgger's steps preserve: the types and the fit of pending requests *)
(* to the phase, the truth of needs_push, and the wholeness of the         *)
(* corrections, for any number of frames, corrections and requests.        *)
(* StrategiesProofs turns this into theorems about a session.              *)
(***************************************************************************)
EXTENDS DAgger, TLAPS

(* record_stride is max(1, interpolation_multiplier) (dagger.py:437, 594);   *)
(* MaxRecorded is a bound of the model.                                      *)
DAggerConstants == record_stride \in Nat \ {0} /\ MaxRecorded \in 0 .. MaxFrames

-------------------------------------------------------------------------------
(* The phases.                                                               *)

Phases == {"autonomous", "paused", "correcting"}

(* Every valid request has the one successor the table names.                *)
LEMMA NextPhaseIs ==
  ASSUME NEW from, NEW event, Valid(from, event)
  PROVE  [from |-> from, event |-> event, to |-> Next_phase(from, event)] \in Transitions
<1> DEFINE fits(t) == t \in Transitions /\ t.from = from /\ t.event = event
<1>1. \E t : fits(t)
  BY DEF Valid
<1>2. Next_phase(from, event) = (CHOOSE t : fits(t)).to
  <2>1. (CHOOSE t \in Transitions : t.from = from /\ t.event = event) = CHOOSE t : fits(t)
    OBVIOUS
  <2> QED
    BY <2>1 DEF Next_phase
<1>3. fits(CHOOSE t : fits(t))
  BY <1>1, Zenon
<1> HIDE DEF fits
<1>4. PICK t : fits(t) /\ Next_phase(from, event) = t.to
  BY <1>2, <1>3, Zenon
<1> QED
  BY <1>4 DEF fits, Transitions

(* What consume_transition makes of the phase.                               *)
LEMMA PhaseStep ==
  ASSUME consume_transition
  PROVE  /\ phase' \in Phases
         /\ phase = "correcting" => phase' = "paused"
         /\ phase' = "correcting" => phase = "paused"
  BY NextPhaseIs DEF consume_transition, Transitions, Phases

-------------------------------------------------------------------------------
(* Every saved episode has a frame, so there are never more episodes than    *)
(* frames: what is counted on the Hub stays in range.                        *)
Counted == Len(saved) + Len(buffer) <= n

TypeInv ==
  /\ RequestFitsPhase /\ Counted /\ n \in 0 .. MaxRecorded
  /\ taken \in Seq(Nat) /\ window \in Nat

LEMMA ACopy ==
  ASSUME NEW episodes \in 0 .. MaxFrames, NEW readable \in BOOLEAN
  PROVE  [episodes |-> episodes, readable |-> readable] \in Copies
  BY DEF Copies

LEMMA NoCopyIsACopy == NoCopy \in Copies
<1>1. 0 \in 0 .. MaxFrames
  BY PushAssumption
<1> QED
  BY <1>1, ACopy, Zenon DEF NoCopy

LEMMA InitTypeInv ==
  ASSUME DAggerConstants, Init
  PROVE  TypeInv
<1>1. /\ buffer = <<>> /\ saved = <<>> /\ file = "none" /\ queued = 0 /\ pusher = "idle"
      /\ copy = NoCopy /\ hub = NoCopy /\ broken \in BOOLEAN
  BY DEF Init, DataInit
<1>2. buffer \in Seq(Frames) /\ saved \in Seq(Seq(Frames))
  BY <1>1
<1>3. DataTypeOK
  BY <1>1, <1>2, NoCopyIsACopy DEF DataTypeOK
<1>4. phase = "autonomous" /\ pending = "none" /\ tick = 0 /\ n = 0 /\ taken = <<>>
      /\ window = 0
  BY DEF Init
<1>5. 0 \in 0 .. record_stride - 1 /\ 0 \in 0 .. MaxRecorded
  BY PushAssumption DEF DAggerConstants
<1> QED
  BY <1>1, <1>3, <1>4, <1>5 DEF TypeInv, RequestFitsPhase, Counted

(* Saving turns the frames of the buffer into one episode; a save that fails *)
(* keeps both.                                                               *)
LEMMA SaveTypes ==
  ASSUME DataTypeOK, Counted, n \in Nat, save_episode, UNCHANGED <<pushVars, n>>
  PROVE  DataTypeOK' /\ Counted'
<1>1. buffer \in Seq(Frames) /\ saved \in Seq(Seq(Frames)) /\ buffer # <<>>
  BY DEF DataTypeOK, save_episode, CanSave
<1>2. saved' \in Seq(Seq(Frames)) /\ Len(saved') = Len(saved) + 1
  BY <1>1 DEF save_episode
<1>3. buffer' \in Seq(Frames) /\ Len(buffer') = 0 /\ Len(buffer) >= 1
  BY <1>1 DEF save_episode
<1>4. Len(saved) \in Nat /\ Len(buffer) \in Nat
  BY <1>1
<1>5. Counted'
  BY <1>2, <1>3, <1>4 DEF Counted
<1> QED
  BY <1>2, <1>3, <1>5 DEF DataTypeOK, save_episode, pushVars

LEMMA RaiseTypes ==
  ASSUME DataTypeOK, Counted, SaveRaises, UNCHANGED <<pushVars, n>>
  PROVE  DataTypeOK' /\ Counted'
  BY DEF DataTypeOK, Counted, SaveRaises, pushVars

(* The steps that leave the recording alone.                                 *)
LEMMA KeepTypes ==
  ASSUME TypeInv, UNCHANGED <<fileVars, pusher, copy, hub, phase, pending, frameVars>>,
         queued' \in Nat
  PROVE  TypeInv'
  BY DEF TypeInv, RequestFitsPhase, DataTypeOK, Counted, Valid, fileVars, frameVars



LEMMA MainTypeInv ==
  ASSUME DAggerConstants, TypeInv, Main
  PROVE  TypeInv'
<1>0. /\ DataTypeOK /\ Counted /\ n \in 0 .. MaxRecorded /\ n \in Nat
      /\ taken \in Seq(Nat) /\ Len(taken) = n /\ window \in Nat
      /\ tick \in 0 .. record_stride - 1 /\ phase \in Phases
      /\ pending # "none" => Valid(phase, pending)
      /\ MaxRecorded \in 0 .. MaxFrames /\ MaxFrames \in Nat /\ record_stride \in Nat \ {0}
  BY PushAssumption DEF TypeInv, RequestFitsPhase, DAggerConstants, Phases
<1>1. ASSUME DataTypeOK', Counted', UNCHANGED <<phase, pending, frameVars>>
      PROVE  TypeInv'
  BY <1>0, <1>1 DEF TypeInv, RequestFitsPhase, frameVars, Valid, Phases
<1>2. CASE LeaveLoop \/ NoTransition \/ MarkCorrection \/ NoFrame \/ KeepEpisode \/ MarkFinal
           \/ WaitForPushes \/ LastPushFails
  <2>1. queued \in Nat
    BY <1>0 DEF DataTypeOK
  <2>2. UNCHANGED <<dataVars, phase, pending, frameVars>>
    BY <1>2 DEF LeaveLoop, NoTransition, MarkCorrection, NoFrame, KeepEpisode, MarkFinal,
         WaitForPushes, LastPushFails, eventVars
  <2> QED
    BY <2>1, <2>2, KeepTypes DEF dataVars, pushVars
<1>3. CASE consume_transition
  <2>1. DataTypeOK' /\ Counted' /\ n' = n /\ tick' = tick /\ taken' = taken
    BY <1>0, <1>3 DEF consume_transition, dataVars, fileVars, pushVars, DataTypeOK, Counted
  <2>2. window' \in Nat /\ pending' = "none"
    BY <1>0, <1>3 DEF consume_transition
  <2>3. phase' \in Phases
    BY <1>3, PhaseStep
  <2> QED
    BY <1>0, <2>1, <2>2, <2>3 DEF TypeInv, RequestFitsPhase, Phases
<1>4. CASE SaveCorrection \/ RotateEpisode \/ SaveFinal
  <2>1. save_episode /\ UNCHANGED <<pushVars, phase, pending, frameVars>>
    BY <1>4 DEF SaveCorrection, RotateEpisode, SaveFinal, eventVars
  <2>2. DataTypeOK' /\ Counted'
    BY <1>0, <2>1, SaveTypes DEF frameVars
  <2> QED
    BY <1>1, <2>1, <2>2
<1>5. CASE SaveFails \/ SaveFinalFails
  <2>1. SaveRaises /\ UNCHANGED <<pushVars, phase, pending, frameVars>>
    BY <1>5 DEF SaveFails, SaveFinalFails, eventVars
  <2>2. DataTypeOK' /\ Counted'
    BY <1>0, <2>1, RaiseTypes DEF frameVars
  <2> QED
    BY <1>1, <2>1, <2>2
<1>6. CASE UploadOnDemand \/ MarkPush
  <2>1. UNCHANGED <<fileVars, pusher, copy, hub, phase, pending, frameVars>>
    BY <1>6 DEF UploadOnDemand, MarkPush, submit, pushVars, eventVars
  <2>2. queued' \in Nat
    BY <1>0, <1>6 DEF UploadOnDemand, MarkPush, submit, pushVars, DataTypeOK
  <2> QED
    BY <2>1, <2>2, KeepTypes
<1>7. CASE RecordTick
  <2>1. tick' \in 0 .. record_stride - 1
    BY <1>0, <1>7 DEF RecordTick
  <2>2. CASE tick = 0
    <3>1. n' \in 1 .. MaxRecorded /\ n' = n + 1
      BY <1>0, <1>7, <2>2 DEF RecordTick
    <3>2. taken' \in Seq(Nat) /\ Len(taken') = n'
      BY <1>0, <1>7, <2>2, <3>1 DEF RecordTick
    <3>3. buffer' \in Seq(Frames) /\ Len(buffer') = Len(buffer) + 1
      <4>1. buffer \in Seq(Frames) /\ buffer' = Append(buffer, n')
        BY <1>0, <1>7, <2>2 DEF RecordTick, DataTypeOK
      <4>2. n' \in Frames
        BY <1>0, <3>1 DEF Frames
      <4> QED
        BY <4>1, <4>2
    <3>4. Len(saved) \in Nat /\ Len(buffer) \in Nat
      BY <1>0 DEF DataTypeOK
    <3>5. DataTypeOK' /\ Counted'
      BY <1>0, <1>7, <3>1, <3>3, <3>4 DEF RecordTick, DataTypeOK, Counted, pushVars
    <3> QED
      BY <1>0, <1>7, <2>1, <3>1, <3>2, <3>5 DEF RecordTick, TypeInv, RequestFitsPhase,
           eventVars, Valid, Phases
  <2>3. CASE tick # 0
    <3>1. DataTypeOK' /\ Counted'
      BY <1>0, <1>7, <2>3 DEF RecordTick, DataTypeOK, Counted, pushVars
    <3> QED
      BY <1>0, <1>7, <2>1, <2>3, <3>1 DEF RecordTick, TypeInv, RequestFitsPhase,
           eventVars, Valid, Phases
  <2> QED
    BY <2>2, <2>3
<1>8. CASE Exit
  <2>1. DataTypeOK' /\ Counted'
    BY <1>0, <1>8 DEF Exit, finalize, DataTypeOK, Counted, pushVars, frameVars
  <2> QED
    BY <1>1, <1>8, <2>1 DEF Exit, eventVars
<1>9. CASE LastPush
  <2>1. Len(saved) \in 0 .. MaxFrames
    BY <1>0 DEF DataTypeOK, Counted
  <2>2. [episodes |-> Len(saved), readable |-> file # "open"] \in Copies
    <3>1. (file # "open") \in BOOLEAN
      OBVIOUS
    <3> QED
      BY <2>1, <3>1, ACopy
  <2>3. DataTypeOK' /\ Counted'
    BY <1>0, <1>9, <2>2 DEF LastPush, FinalPush, dataVars, fileVars, pushVars, DataTypeOK,
         Counted, frameVars
  <2> QED
    BY <1>1, <1>9, <2>3 DEF LastPush, eventVars
<1> QED
  BY <1>2, <1>3, <1>4, <1>5, <1>6, <1>7, <1>8, <1>9 DEF Main

LEMMA WorkerTypeInv ==
  ASSUME DAggerConstants, TypeInv, Worker
  PROVE  TypeInv'
<1>0. /\ DataTypeOK /\ Counted /\ n \in 0 .. MaxRecorded
      /\ MaxRecorded \in 0 .. MaxFrames /\ MaxFrames \in Nat
  BY PushAssumption DEF TypeInv, RequestFitsPhase, DAggerConstants
<1>1. UNCHANGED <<buffer, broken, saved, file, eventVars, frameVars>>
  BY DEF Worker, BeginUpload, SkipUpload, EndUpload, UploadFails, fileVars
<1>2. queued' \in Nat /\ pusher' \in {"idle", "upload"}
  BY <1>0 DEF Worker, BeginUpload, SkipUpload, EndUpload, UploadFails, DataTypeOK
<1>3. Len(saved) \in 0 .. MaxFrames
  BY <1>0 DEF DataTypeOK, Counted
<1>4. copy' \in Copies
  <2>1. [episodes |-> Len(saved), readable |-> file = "closed"] \in Copies
    <3>1. (file = "closed") \in BOOLEAN
      OBVIOUS
    <3> QED
      BY <1>3, <3>1, ACopy
  <2> QED
    BY <1>0, <2>1, NoCopyIsACopy DEF Worker, BeginUpload, SkipUpload, EndUpload, UploadFails,
         DataTypeOK
<1>5. hub' \in Copies
  <2>1. CASE EndUpload
    <3>1. PICK readable \in {copy.readable, file = "closed"} :
            hub' = [copy EXCEPT !.readable = readable]
      BY <2>1 DEF EndUpload
    <3>2. readable \in BOOLEAN
      BY <1>0, <3>1 DEF DataTypeOK, Copies
    <3> QED
      BY <1>0, <3>1, <3>2 DEF DataTypeOK, Copies
  <2>2. CASE ~EndUpload
    BY <1>0, <2>2 DEF Worker, BeginUpload, SkipUpload, UploadFails, DataTypeOK
  <2> QED
    BY <2>1, <2>2
<1>6. DataTypeOK' /\ Counted'
  BY <1>0, <1>1, <1>2, <1>4, <1>5 DEF DataTypeOK, Counted, frameVars
<1> QED
  BY <1>1, <1>6 DEF TypeInv, RequestFitsPhase, eventVars, frameVars, Valid

LEMMA NextTypeInv ==
  ASSUME DAggerConstants, TypeInv, [Next]_vars
  PROVE  TypeInv'
<1>1. CASE Main
  BY <1>1, MainTypeInv
<1>2. CASE Worker
  BY <1>2, WorkerTypeInv
<1>3. ASSUME NEW event \in {"pause_resume", "correction"}, request_transition(event)
      PROVE  TypeInv'
  BY <1>3 DEF request_transition, TypeInv, RequestFitsPhase, Valid, DataTypeOK, Counted,
       dataVars, fileVars, pushVars, frameVars
<1>4. CASE RequestUpload \/ UNCHANGED vars
  <2>1. queued' = queued /\ queued \in Nat
    BY <1>4 DEF RequestUpload, vars, dataVars, pushVars, TypeInv, RequestFitsPhase, DataTypeOK
  <2> QED
    BY <1>4, <2>1, KeepTypes DEF RequestUpload, vars, dataVars, pushVars, eventVars
<1> QED
  BY <1>1, <1>2, <1>3, <1>4 DEF Next, Finished


-------------------------------------------------------------------------------
(* needs_push.  A copy under way is a copy of all that is saved: the lock    *)
(* keeps saves out until the worker has cleared the flag.                    *)
UploadIsCurrent == pusher = "upload" => copy.episodes = Len(saved)

FlagInv == TypeInv /\ UploadIsCurrent /\ NothingForgotten

LEMMA InitFlagInv ==
  ASSUME DAggerConstants, Init
  PROVE  FlagInv
<1>1. TypeInv
  BY InitTypeInv
<1> QED
  BY <1>1 DEF FlagInv, Init, DataInit, NoCopy, UploadIsCurrent, NothingForgotten

LEMMA NextFlagInv ==
  ASSUME DAggerConstants, FlagInv, [Next]_vars
  PROVE  FlagInv'
<1> SUFFICES UploadIsCurrent' /\ NothingForgotten'
  BY NextTypeInv DEF FlagInv
<1>0. UploadIsCurrent /\ NothingForgotten /\ copy \in Copies
  BY DEF FlagInv, TypeInv, RequestFitsPhase, DataTypeOK
<1>1. ASSUME UNCHANGED <<saved, pusher, copy, hub, needs_push>>,
             main' = main \/ main \notin {"mark", "markCorrection", "markFinal"}
      PROVE  UploadIsCurrent' /\ NothingForgotten'
  BY <1>0, <1>1 DEF UploadIsCurrent, NothingForgotten
<1>2. CASE \/ \E event \in {"pause_resume", "correction"} : request_transition(event)
           \/ RequestUpload \/ UNCHANGED vars
  BY <1>1, <1>2 DEF request_transition, RequestUpload, vars, dataVars, fileVars, pushVars
<1>3. CASE \/ LeaveLoop \/ NoTransition \/ consume_transition \/ SaveFails \/ UploadOnDemand
           \/ RecordTick \/ NoFrame \/ KeepEpisode \/ SaveFinalFails \/ Exit \/ WaitForPushes
           \/ LastPushFails
  <2>1. UNCHANGED <<saved, pusher, copy, hub, needs_push>>
    BY <1>3 DEF LeaveLoop, NoTransition, consume_transition, SaveFails, UploadOnDemand,
         RecordTick, NoFrame, KeepEpisode, SaveFinalFails, Exit, WaitForPushes, LastPushFails,
         SaveRaises, finalize, submit, dataVars, fileVars, pushVars
  <2>2. main \notin {"mark", "markCorrection", "markFinal"}
    BY <1>3 DEF LeaveLoop, InLoop, NoTransition, consume_transition, SaveFails, UploadOnDemand,
         RecordTick, NoFrame, KeepEpisode, SaveFinalFails, Exit, WaitForPushes, LastPushFails
  <2> QED
    BY <1>1, <2>1, <2>2
<1>4. CASE SaveCorrection \/ RotateEpisode \/ SaveFinal
  <2>1. pusher' = pusher /\ pusher # "upload"
        /\ main' \in {"mark", "markCorrection", "markFinal"}
    BY <1>4 DEF SaveCorrection, RotateEpisode, SaveFinal, save_episode, LockFree, pushVars
  <2> QED
    BY <2>1 DEF UploadIsCurrent, NothingForgotten
<1>5. CASE MarkCorrection \/ MarkPush \/ MarkFinal
  <2>1. needs_push' = TRUE /\ UNCHANGED <<saved, pusher, copy>>
    BY <1>5 DEF MarkCorrection, MarkPush, MarkFinal, submit, dataVars, fileVars, pushVars
  <2> QED
    BY <1>0, <2>1 DEF UploadIsCurrent, NothingForgotten
<1>6. CASE LastPush
  <2>1. UNCHANGED <<saved, pusher, copy, needs_push>> /\ main = "last"
    BY <1>6 DEF LastPush, FinalPush, dataVars, fileVars, pushVars
  <2>2. hub' = hub \/ hub'.episodes = Len(saved)
    BY <1>6 DEF LastPush, FinalPush, dataVars, pushVars
  <2> QED
    BY <1>0, <2>1, <2>2 DEF UploadIsCurrent, NothingForgotten
<1>7. CASE Worker
  <2>1. saved' = saved /\ main' = main
    BY <1>7 DEF Worker, BeginUpload, SkipUpload, EndUpload, UploadFails, fileVars
  <2>2. CASE EndUpload /\ needs_push' = FALSE
    <3>1. PICK readable \in {copy.readable, file = "closed"} :
            hub' = [copy EXCEPT !.readable = readable]
      BY <2>2 DEF EndUpload
    <3>2. hub'.episodes = copy.episodes
      BY <1>0, <3>1 DEF Copies
    <3> QED
      BY <1>0, <2>1, <2>2, <3>2 DEF EndUpload, UploadIsCurrent, NothingForgotten
  <2>3. CASE (BeginUpload \/ SkipUpload \/ UploadFails) /\ UNCHANGED needs_push
    BY <1>0, <2>1, <2>3 DEF BeginUpload, SkipUpload, UploadFails, UploadIsCurrent,
         NothingForgotten
  <2> QED
    BY <1>7, <2>2, <2>3 DEF Worker
<1> QED
  BY <1>2, <1>3, <1>4, <1>5, <1>6, <1>7 DEF Next, Main, Finished


-------------------------------------------------------------------------------
(* The corrections.  A frame is in the buffer or in one episode, and the     *)
(* frames of the correction under way are still in the buffer; in            *)
(* corrections-only mode nothing else is there.                              *)
BufferFrames == FramesOf(buffer)

InTheLoop ==
  main \in {"loop", "upload", "act", "rotate", "mark", "save", "markCorrection"}

FramesAreKnown ==
  /\ BufferFrames \subseteq 1 .. n
  /\ \A e \in DOMAIN saved : Episode(e) \subseteq 1 .. n
  /\ \A f \in 1 .. n : taken[f] \in 0 .. window

FramesAreKept ==
  \A g \in 1 .. n : g \in BufferFrames \/ \E e \in DOMAIN saved : g \in Episode(e)

SavedIsGone == \A e \in DOMAIN saved : \A f \in Episode(e) : f \notin BufferFrames

CurrentIsUnsaved ==
  phase = "correcting" /\ InTheLoop =>
    window # 0 /\ \A e \in DOMAIN saved : \A f \in Episode(e) : taken[f] # window

BufferIsOneCorrection ==
  ~record_autonomous => \A f \in BufferFrames : taken[f] = window /\ window # 0

NothingInBetween ==
  /\ main = "save" => phase # "correcting"
  /\ ~record_autonomous /\ InTheLoop /\ main # "save" /\ phase # "correcting" => buffer = <<>>

FrameInv == FramesAreKnown /\ FramesAreKept /\ SavedIsGone
WholeInv ==
  /\ TypeInv /\ FrameInv
  /\ CurrentIsUnsaved /\ BufferIsOneCorrection /\ NothingInBetween /\ CorrectionsAreWhole

LEMMA InitWholeInv ==
  ASSUME DAggerConstants, Init
  PROVE  WholeInv
<1>1. buffer = <<>> /\ saved = <<>> /\ n = 0 /\ main = "loop" /\ phase = "autonomous"
  BY DEF Init, DataInit
<1>2. BufferFrames = {} /\ DOMAIN saved = {} /\ 1 .. n = {}
  BY <1>1 DEF BufferFrames, FramesOf
<1>3. FrameInv
  BY <1>2 DEF FrameInv, FramesAreKnown, FramesAreKept, SavedIsGone
<1>4. CurrentIsUnsaved /\ BufferIsOneCorrection /\ NothingInBetween /\ CorrectionsAreWhole
  BY <1>1, <1>2 DEF CurrentIsUnsaved, BufferIsOneCorrection, NothingInBetween,
       CorrectionsAreWhole
<1> QED
  BY <1>3, <1>4, InitTypeInv DEF WholeInv

(* The frames of the buffer become the last episode.                         *)
LEMMA SavedFrames ==
  ASSUME TypeInv, save_episode
  PROVE  /\ DOMAIN saved' = DOMAIN saved \cup {Len(saved) + 1}
         /\ \A e \in DOMAIN saved : saved'[e] = saved[e]
         /\ FramesOf(saved'[Len(saved) + 1]) = BufferFrames
         /\ FramesOf(buffer') = {}
<1>1. saved \in Seq(Seq(Frames)) /\ buffer \in Seq(Frames)
      /\ saved' = Append(saved, buffer) /\ buffer' = <<>>
  BY DEF TypeInv, RequestFitsPhase, DataTypeOK, save_episode
<1>2. DOMAIN saved = 1 .. Len(saved) /\ DOMAIN saved' = 1 .. Len(saved) + 1
      /\ Len(saved) \in Nat
  BY <1>1
<1>3. \A e \in DOMAIN saved : saved'[e] = saved[e]
  BY <1>1
<1>4. saved'[Len(saved) + 1] = buffer
  BY <1>1
<1>5. FramesOf(buffer') = {}
  BY <1>1 DEF FramesOf
<1> QED
  BY <1>2, <1>3, <1>4, <1>5 DEF BufferFrames

(* A save keeps what is known of the frames, and completes the corrections.  *)
LEMMA SaveWhole ==
  ASSUME WholeInv, save_episode, UNCHANGED <<frameVars, record_autonomous>>
  PROVE  FrameInv' /\ BufferIsOneCorrection' /\ CorrectionsAreWhole'
<1>0. /\ FramesAreKnown /\ FramesAreKept /\ SavedIsGone /\ BufferIsOneCorrection
      /\ CorrectionsAreWhole
      /\ n' = n /\ taken' = taken /\ window' = window
      /\ record_autonomous' = record_autonomous
  BY DEF WholeInv, FrameInv, frameVars
<1> DEFINE k == Len(saved) + 1
<1>1. /\ DOMAIN saved' = DOMAIN saved \cup {k}
      /\ \A e \in DOMAIN saved : saved'[e] = saved[e]
      /\ FramesOf(saved'[k]) = BufferFrames
      /\ BufferFrames' = {}
  BY SavedFrames DEF WholeInv, BufferFrames
<1> HIDE DEF k
<1>2. FramesAreKnown' /\ FramesAreKept' /\ SavedIsGone'
  <2>1. FramesAreKnown'
    BY <1>0, <1>1 DEF FramesAreKnown, Episode
  <2>2. FramesAreKept'
    BY <1>0, <1>1 DEF FramesAreKept, Episode
  <2>3. SavedIsGone'
    BY <1>0, <1>1 DEF SavedIsGone, Episode
  <2> QED
    BY <2>1, <2>2, <2>3
<1>3. BufferIsOneCorrection'
  BY <1>1 DEF BufferIsOneCorrection
<1>4. ASSUME NEW e \in DOMAIN saved, NEW f \in Episode(e)
      PROVE  /\ taken[f] # 0 => \A g \in 1 .. n : taken[g] = taken[f] => g \in Episode(e)
             /\ ~record_autonomous => \A g \in Episode(e) : taken[g] = taken[f] /\ taken[g] # 0
  BY <1>0 DEF CorrectionsAreWhole
<1>5. ASSUME NEW f \in BufferFrames
      PROVE  /\ taken[f] # 0 => \A g \in 1 .. n : taken[g] = taken[f] => g \in BufferFrames
             /\ ~record_autonomous => \A g \in BufferFrames : taken[g] = taken[f] /\ taken[g] # 0
  <2>1. ASSUME taken[f] # 0, NEW g \in 1 .. n, taken[g] = taken[f], g \notin BufferFrames
        PROVE  FALSE
    <3>1. PICK e \in DOMAIN saved : g \in Episode(e)
      BY <1>0, <2>1 DEF FramesAreKept
    <3>2. f \in 1 .. n
      BY <1>0 DEF FramesAreKnown
    <3>3. f \in Episode(e)
      BY <1>4, <2>1, <3>1, <3>2
    <3> QED
      BY <1>0, <3>3 DEF SavedIsGone
  <2> QED
    BY <1>0, <2>1 DEF BufferIsOneCorrection
<1>6. CorrectionsAreWhole'
  BY <1>0, <1>1, <1>4, <1>5 DEF CorrectionsAreWhole, Episode
<1> QED
  BY <1>2, <1>3, <1>6 DEF FrameInv

(* Steps that neither record nor save.                                       *)
LEMMA KeepWhole ==
  ASSUME WholeInv, UNCHANGED <<saved, buffer, n, taken, window, record_autonomous>>
  PROVE  FrameInv' /\ BufferIsOneCorrection' /\ CorrectionsAreWhole'
<1>1. /\ FramesAreKnown /\ FramesAreKept /\ SavedIsGone /\ BufferIsOneCorrection
      /\ CorrectionsAreWhole
  BY DEF WholeInv, FrameInv
<1>2. FrameInv'
  BY <1>1 DEF FrameInv, FramesAreKnown, FramesAreKept, SavedIsGone, Episode, BufferFrames
<1>3. BufferIsOneCorrection' /\ CorrectionsAreWhole'
  BY <1>1 DEF BufferIsOneCorrection, CorrectionsAreWhole, Episode, BufferFrames
<1> QED
  BY <1>2, <1>3


(* A new frame is known to no episode, and its correction is not saved.      *)
LEMMA RecordWhole ==
  ASSUME WholeInv, TypeInv', RecordTick
  PROVE  WholeInv'
<1>0. /\ FramesAreKnown /\ FramesAreKept /\ SavedIsGone /\ BufferIsOneCorrection
      /\ CorrectionsAreWhole /\ CurrentIsUnsaved /\ NothingInBetween
      /\ n \in Nat /\ taken \in Seq(Nat) /\ Len(taken) = n /\ window \in Nat
      /\ buffer \in Seq(Frames)
  BY DEF WholeInv, FrameInv, TypeInv, RequestFitsPhase, DataTypeOK
<1>1. /\ UNCHANGED <<saved, window, phase, record_autonomous>>
      /\ main = "act" /\ main' = "rotate" /\ Recording
  BY DEF RecordTick, eventVars
<1>2. CurrentIsUnsaved' /\ NothingInBetween'
  <2>1. phase = "correcting" \/ record_autonomous
    BY <1>1 DEF Recording
  <2>2. NothingInBetween'
    BY <1>1, <2>1 DEF NothingInBetween
  <2>3. ASSUME phase = "correcting", NEW e \in DOMAIN saved, NEW f \in Episode(e)
        PROVE  window # 0 /\ taken'[f] # window
    <3>1. f \in 1 .. n /\ taken[f] # window /\ window # 0
      BY <1>0, <1>1, <2>3 DEF CurrentIsUnsaved, InTheLoop, FramesAreKnown
    <3>2. taken' = taken \/ taken' = Append(taken, window)
      BY <2>3 DEF RecordTick
    <3>3. taken'[f] = taken[f]
      <4>1. Append(taken, window)[f] = taken[f]
        BY <1>0, <3>1
      <4> QED
        BY <3>2, <4>1
    <3> QED
      BY <3>1, <3>3
  <2>4. phase = "correcting" => window # 0
    BY <1>0, <1>1 DEF CurrentIsUnsaved, InTheLoop
  <2> QED
    BY <1>1, <2>2, <2>3, <2>4 DEF CurrentIsUnsaved, Episode
<1>3. CASE tick # 0
  <2>1. UNCHANGED <<saved, buffer, n, taken, window, record_autonomous>>
    BY <1>1, <1>3 DEF RecordTick
  <2> QED
    BY <1>2, <2>1, KeepWhole DEF WholeInv
<1>4. CASE tick = 0
  <2> DEFINE new == n + 1
             at  == IF phase = "correcting" THEN window ELSE 0
  <2>1. n' = new /\ taken' = Append(taken, at) /\ buffer' = Append(buffer, new)
    BY <1>4 DEF RecordTick
  <2>2. at \in 0 .. window /\ (phase = "correcting" => at # 0) /\ (at # 0 => at = window)
    BY <1>0, <1>1 DEF CurrentIsUnsaved, InTheLoop
  <2>3. /\ taken'[new] = at /\ \A f \in 1 .. n : taken'[f] = taken[f]
        /\ 1 .. n' = 1 .. n \cup {new} /\ new \notin 1 .. n
    BY <1>0, <2>1
  <2>4. FramesOf(buffer') = BufferFrames \cup {new}
    <3>1. DOMAIN buffer' = DOMAIN buffer \cup {Len(buffer) + 1}
          /\ (\A i \in DOMAIN buffer : buffer'[i] = buffer[i])
          /\ buffer'[Len(buffer) + 1] = new
      BY <1>0, <2>1
    <3> HIDE DEF new
    <3> QED
      BY <3>1 DEF FramesOf, BufferFrames
  <2> HIDE DEF new, at
  <2>5. FramesAreKnown'
    BY <1>0, <1>1, <2>2, <2>3, <2>4 DEF FramesAreKnown, BufferFrames, Episode
  <2>6. FramesAreKept'
    BY <1>0, <1>1, <2>3, <2>4 DEF FramesAreKept, BufferFrames, Episode
  <2>7. SavedIsGone'
    BY <1>0, <1>1, <2>3, <2>4 DEF SavedIsGone, FramesAreKnown, BufferFrames, Episode
  <2>8. BufferIsOneCorrection'
    <3>1. ~record_autonomous => phase = "correcting"
      BY <1>1 DEF Recording
    <3> QED
      BY <1>0, <1>1, <2>2, <2>3, <2>4, <3>1 DEF BufferIsOneCorrection, FramesAreKnown, BufferFrames
  <2>9. CorrectionsAreWhole'
    <3>1. ASSUME NEW e \in DOMAIN saved, NEW f \in Episode(e)
          PROVE  /\ f \in 1 .. n /\ taken'[f] = taken[f]
                 /\ taken[f] # 0 => at # taken[f]
      <4>1. f \in 1 .. n /\ taken'[f] = taken[f]
        BY <1>0, <2>3, <3>1 DEF FramesAreKnown
      <4>2. phase = "correcting" => taken[f] # window
        BY <1>0, <1>1, <3>1 DEF CurrentIsUnsaved, InTheLoop
      <4> QED
        BY <4>1, <4>2 DEF at
    <3>2. ASSUME NEW e \in DOMAIN saved, NEW f \in Episode(e)
          PROVE  /\ taken'[f] # 0 => \A g \in 1 .. n' : taken'[g] = taken'[f] => g \in Episode(e)
                 /\ ~record_autonomous =>
                      \A g \in Episode(e) : taken'[g] = taken'[f] /\ taken'[g] # 0
      BY <1>0, <2>3, <3>1, <3>2 DEF CorrectionsAreWhole
    <3> QED
      BY <1>1, <3>2 DEF CorrectionsAreWhole, Episode
  <2> QED
    BY <1>2, <2>5, <2>6, <2>7, <2>8, <2>9 DEF WholeInv, FrameInv
<1> QED
  BY <1>3, <1>4

(* A phase change opens a correction only when the one before is saved, or   *)
(* everything is recorded.                                                   *)
LEMMA PhaseWhole ==
  ASSUME WholeInv, TypeInv', consume_transition
  PROVE  WholeInv'
<1>0. /\ FramesAreKnown /\ FramesAreKept /\ SavedIsGone /\ BufferIsOneCorrection
      /\ CorrectionsAreWhole /\ CurrentIsUnsaved /\ NothingInBetween
      /\ window \in Nat
  BY DEF WholeInv, FrameInv, TypeInv
<1>1. /\ UNCHANGED <<saved, buffer, n, taken, record_autonomous>> /\ main = "loop"
      /\ main' = IF ~record_autonomous /\ phase = "correcting" THEN "save" ELSE "upload"
      /\ window' = IF phase' = "correcting" THEN window + 1 ELSE window
  BY DEF consume_transition, InLoop, dataVars, fileVars
<1>2. /\ phase = "correcting" => phase' = "paused"
      /\ phase' = "correcting" => phase = "paused"
  BY PhaseStep
<1>3. FramesAreKnown'
  <2>1. window' \in Nat /\ window' >= window
    BY <1>0, <1>1
  <2> QED
    BY <1>0, <1>1, <2>1 DEF FramesAreKnown, BufferFrames, Episode
<1>4. FramesAreKept' /\ SavedIsGone' /\ CorrectionsAreWhole'
  BY <1>0, <1>1 DEF FramesAreKept, SavedIsGone, CorrectionsAreWhole, BufferFrames, Episode
<1>5. CurrentIsUnsaved'
  <2>1. ASSUME phase' = "correcting", NEW e \in DOMAIN saved, NEW f \in Episode(e)
        PROVE  taken[f] # window'
    <3>1. f \in 1 .. n
      BY <1>0, <2>1 DEF FramesAreKnown
    <3>2. taken[f] \in 0 .. window /\ window' = window + 1
      BY <1>0, <1>1, <2>1, <3>1 DEF FramesAreKnown
    <3> QED
      BY <1>0, <3>2
  <2>2. phase' = "correcting" => window' # 0
    BY <1>0, <1>1
  <2> QED
    BY <1>1, <2>1, <2>2 DEF CurrentIsUnsaved, Episode
<1>6. BufferIsOneCorrection'
  <2>1. CASE phase' = "correcting" /\ ~record_autonomous
    <3>1. buffer = <<>>
      BY <1>0, <1>1, <1>2, <2>1 DEF NothingInBetween, InTheLoop
    <3>2. FramesOf(buffer') = {}
      BY <1>1, <3>1 DEF FramesOf
    <3> QED
      BY <3>2 DEF BufferIsOneCorrection, BufferFrames
  <2>2. CASE phase' # "correcting" \/ record_autonomous
    BY <1>0, <1>1, <2>2 DEF BufferIsOneCorrection, BufferFrames
  <2> QED
    BY <2>1, <2>2
<1>7. NothingInBetween'
  BY <1>0, <1>1, <1>2 DEF NothingInBetween, InTheLoop
<1> QED
  BY <1>3, <1>4, <1>5, <1>6, <1>7 DEF WholeInv, FrameInv

LEMMA NextWholeInv ==
  ASSUME DAggerConstants, WholeInv, [Next]_vars
  PROVE  WholeInv'
<1>0. TypeInv' /\ CurrentIsUnsaved /\ NothingInBetween
  BY NextTypeInv DEF WholeInv
<1>1. ASSUME FrameInv' /\ BufferIsOneCorrection' /\ CorrectionsAreWhole',
             UNCHANGED <<saved, taken, window, phase, record_autonomous>>,
             InTheLoop' => InTheLoop,
             main' = "save" => phase # "correcting",
             ~record_autonomous /\ InTheLoop' /\ main' # "save" /\ phase # "correcting"
               => buffer' = <<>>
      PROVE  WholeInv'
  BY <1>0, <1>1 DEF WholeInv, CurrentIsUnsaved, NothingInBetween, Episode
<1>2. CASE \/ \E event \in {"pause_resume", "correction"} : request_transition(event)
           \/ RequestUpload \/ Worker \/ UNCHANGED vars
           \/ LeaveLoop \/ NoTransition \/ SaveFails \/ MarkCorrection \/ UploadOnDemand
           \/ NoFrame \/ KeepEpisode \/ MarkPush \/ SaveFinalFails \/ MarkFinal \/ Exit
           \/ WaitForPushes \/ LastPush \/ LastPushFails
  <2>1. UNCHANGED <<saved, buffer, n, taken, window, phase, record_autonomous>>
    BY <1>2 DEF request_transition, RequestUpload, Worker, vars, LeaveLoop, NoTransition,
         SaveFails, MarkCorrection, UploadOnDemand, NoFrame, KeepEpisode, MarkPush,
         SaveFinalFails, MarkFinal, Exit, WaitForPushes, LastPush, LastPushFails, FinalPush,
         BeginUpload, SkipUpload, EndUpload, UploadFails, SaveRaises, finalize,
         dataVars, fileVars, eventVars, frameVars
  <2>2. \/ main' = main
        \/ ~InTheLoop'
        \/ InTheLoop /\ main # "save" /\ main' # "save"
    BY <1>2 DEF request_transition, RequestUpload, Worker, vars, LeaveLoop, InLoop,
         NoTransition, SaveFails, MarkCorrection, UploadOnDemand, NoFrame, KeepEpisode,
         MarkPush, SaveFinalFails, MarkFinal, Exit, WaitForPushes, LastPush, LastPushFails,
         InTheLoop
  <2>3. FrameInv' /\ BufferIsOneCorrection' /\ CorrectionsAreWhole'
    BY <2>1, KeepWhole
  <2>4. ~record_autonomous /\ InTheLoop' /\ main' # "save" /\ phase # "correcting"
          => buffer' = <<>>
    BY <1>0, <2>1, <2>2 DEF NothingInBetween, InTheLoop
  <2>5. main' = "save" => phase # "correcting"
    BY <1>0, <2>2 DEF NothingInBetween, InTheLoop
  <2>6. InTheLoop' => InTheLoop
    BY <2>2 DEF InTheLoop
  <2> QED
    BY <1>1, <2>1, <2>3, <2>4, <2>5, <2>6
<1>3. CASE SaveCorrection \/ RotateEpisode \/ SaveFinal
  <2>1. /\ save_episode /\ UNCHANGED <<frameVars, phase, record_autonomous>> /\ buffer' = <<>>
        /\ main' \in {"markCorrection", "mark", "markFinal"}
        /\ main' # "markFinal" => phase # "correcting"
    BY <1>0, <1>3 DEF SaveCorrection, RotateEpisode, SaveFinal, save_episode, eventVars,
         NothingInBetween
  <2>2. FrameInv' /\ BufferIsOneCorrection' /\ CorrectionsAreWhole'
    BY <2>1, SaveWhole
  <2>3. CurrentIsUnsaved' /\ NothingInBetween'
    BY <2>1 DEF CurrentIsUnsaved, NothingInBetween, InTheLoop
  <2> QED
    BY <1>0, <2>2, <2>3 DEF WholeInv
<1>4. CASE RecordTick
  BY <1>0, <1>4, RecordWhole
<1>5. CASE consume_transition
  BY <1>0, <1>5, PhaseWhole
<1> QED
  BY <1>2, <1>3, <1>4, <1>5 DEF Next, Main, Finished

================================================================================
