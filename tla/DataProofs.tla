------------------------------ MODULE DataProofs ------------------------------
(***************************************************************************)
(* Theorems about where data go: what EncoderProofs proves of the video    *)
(* encoder's steps holds in every recording session, and what the robot    *)
(* observes is current.                                                    *)
(***************************************************************************)
EXTENDS MCData, SequenceTheorems, TLAPS

EP == INSTANCE EncoderProofs WITH main <- e_main, n <- e_n
WP == INSTANCE WriterProofs

-------------------------------------------------------------------------------
(* The video encoder.                                                        *)

LEMMA EncoderConstantsHold == EP!EncoderConstants
  BY DataAssumption DEF EP!EncoderConstants

LEMMA EncoderInit == DataInit => EP!Init
  BY DEF DataInit, E!Init, EP!Init, E!Threads, EP!Threads, E!NotStarted, EP!NotStarted

(* The two instances of the encoder have the same steps.                     *)
LEMMA EncoderStep == [DataNext]_allVars => [EP!Next]_EP!vars
<1>1. E!Next => EP!Next
  BY DEF E!mainVars, EP!mainVars, E!vars, EP!vars, E!Threads, EP!Threads, E!Sentinel,
     EP!Sentinel, E!NotStarted, EP!NotStarted, E!Of, EP!Of, E!Alive, EP!Alive, E!Full, EP!Full,
     E!AddFrame, EP!AddFrame, E!feed_frame, EP!feed_frame, E!DropFrame, EP!DropFrame,
     E!FeedRaises, EP!FeedRaises, E!FrameFed, EP!FrameFed, E!Save, EP!Save, E!Abandon,
     EP!Abandon, E!Close, EP!Close, E!PutSentinel, EP!PutSentinel, E!SentinelsSent,
     EP!SentinelsSent, E!Join, EP!Join, E!JoinRaises, EP!JoinRaises, E!JoinTimesOut,
     EP!JoinTimesOut, E!Cleanup, EP!Cleanup, E!EpisodeFinished, EP!EpisodeFinished,
     E!SignalStop, EP!SignalStop, E!CancelJoin, EP!CancelJoin, E!EpisodeCancelled,
     EP!EpisodeCancelled, E!Encode, EP!Encode, E!EncodeFails, EP!EncodeFails, E!SeeStop,
     EP!SeeStop, E!Main, EP!Main, E!Encoder, EP!Encoder, E!Next, EP!Next
<1>2. UNCHANGED encoderVars => UNCHANGED EP!vars
  BY DEF encoderVars, EP!vars, EP!mainVars
<1> QED
  BY <1>1, <1>2 DEF DataNext, allVars, InRL, InWriter, InEncoder, InCamera

LEMMA EncoderSession ==
  /\ DataInit => EP!EncoderInv
  /\ EP!EncoderInv /\ [DataNext]_allVars => EP!EncoderInv'
<1>1. ASSUME DataInit
      PROVE  EP!EncoderInv
  BY <1>1, EncoderConstantsHold, EncoderInit, EP!InitEncoderInv
<1>2. ASSUME EP!EncoderInv, [DataNext]_allVars
      PROVE  EP!EncoderInv'
  BY <1>2, EncoderConstantsHold, EncoderStep, EP!NextEncoderInv
<1> QED
  BY <1>1, <1>2

(* A video that finish_episode returns with a result shows exactly the       *)
(* frames its queue accepted, in order, for any number of cameras, frames    *)
(* and episodes: also if frames were dropped, encoders failed, joins timed   *)
(* out and episodes were cancelled (video_utils.py:757-926).                 *)
THEOREM FinishedVideosComplete == DataSpec => []FinishedIsFed
<1>1. EP!EncoderInv => FinishedIsFed
  <2>1. ASSUME EP!EncoderInv
        PROVE  EP!FinishedIsFed
    BY <2>1, EP!EncoderTypes
  <2> QED
    BY <2>1 DEF FinishedIsFed, E!FinishedIsFed, EP!FinishedIsFed
<1> QED
  BY <1>1, EncoderSession, PTL DEF DataSpec

-------------------------------------------------------------------------------
(* Recording.                                                                *)

LEMMA WriterConstantsHold == WP!WriterConstants
  BY DataAssumption DEF WP!WriterConstants

LEMMA WriterInit == DataInit => WP!Init
  BY DEF DataInit, W!Init, WP!Init, W!None, WP!None, W!NoRow, WP!NoRow

(* The two instances of the writer have the same steps.                      *)
LEMMA WriterStep == [DataNext]_allVars => [WP!Next]_WP!vars
<1>1. W!Next => WP!Next
  <2>1. /\ W!create => WP!create
        /\ W!Crash => WP!Crash
        /\ W!add_frame => WP!add_frame
        /\ W!clear_episode_buffer => WP!clear_episode_buffer
        /\ W!SaveRaises => WP!SaveRaises
        /\ W!write_info => WP!write_info
        /\ W!write_stats => WP!write_stats
    BY DEF W!create, WP!create, W!Crash, WP!Crash, W!add_frame, WP!add_frame,
       W!clear_episode_buffer, WP!clear_episode_buffer, W!SaveRaises, WP!SaveRaises,
       W!write_info, WP!write_info, W!write_stats, WP!write_stats, W!Tear, WP!Tear, W!MayTear,
       WP!MayTear, W!NoRow, WP!NoRow, W!disk, WP!disk, W!None, WP!None
  <2>2. W!resume => WP!resume
    BY DEF W!resume, WP!resume, W!Readable, WP!Readable, W!AllClosed, WP!AllClosed, W!LastRow, WP!LastRow, W!Precedes,
       WP!Precedes, W!Last, WP!Last, W!disk, WP!disk
  <2>3. ASSUME NEW t PROVE W!Close(t) = WP!Close(t)
    BY DEF W!Close, WP!Close, W!None, WP!None
  <2>4. ASSUME NEW t, NEW path, NEW rows PROVE W!Write(t, path, rows) = WP!Write(t, path, rows)
    BY DEF W!Write, WP!Write, W!Open, WP!Open, W!Put, WP!Put, W!None, WP!None
  <2>5. ASSUME NEW t
        PROVE  /\ W!_flush_metadata_buffer(t) = WP!_flush_metadata_buffer(t)
               /\ W!_close_writer(t) = WP!_close_writer(t)
    BY <2>3, <2>4, Zenon DEF W!_flush_metadata_buffer, WP!_flush_metadata_buffer, W!_close_writer,
       WP!_close_writer
  <2>6. W!CloseData => WP!CloseData
    BY <2>3 DEF W!CloseData, WP!CloseData, W!NoRow, WP!NoRow, W!None, WP!None
  <2>7. W!CloseMeta => WP!CloseMeta
    BY <2>5, Zenon DEF W!CloseMeta, WP!CloseMeta
  <2>8. ASSUME NEW path PROVE W!update_chunk_file_indices(path) = WP!update_chunk_file_indices(path)
    BY DEF W!update_chunk_file_indices, WP!update_chunk_file_indices
  <2>9. ASSUME NEW full
        PROVE  W!DataFile(full) = WP!DataFile(full) /\ W!MetaFile(full) = WP!MetaFile(full)
    BY <2>8, Zenon DEF W!DataFile, WP!DataFile, W!MetaFile, WP!MetaFile, W!Before, WP!Before,
       W!First, WP!First, W!None, WP!None
  <2>10. W!_save_episode_data => WP!_save_episode_data
    BY <2>3, <2>4, <2>9, Zenon DEF W!_save_episode_data, WP!_save_episode_data, W!NoRow, WP!NoRow,
       W!None, WP!None
  <2>11. ASSUME NEW key
         PROVE  W!_save_episode_video(key) => WP!_save_episode_video(key)
    BY <2>8 DEF W!_save_episode_video, WP!_save_episode_video, W!VideoFile, WP!VideoFile,
       W!VideoStart, WP!VideoStart, W!Put, WP!Put, W!First, WP!First
  <2>12. W!_save_episode_metadata => WP!_save_episode_metadata
    <3>1. W!Before = WP!Before /\ W!NoRow = WP!NoRow
      BY DEF W!Before, WP!Before, W!NoRow, WP!NoRow, W!None, WP!None
    <3>2. \A full : W!MetaFile(full) = WP!MetaFile(full)
      BY <2>9
    <3>3. \A t : /\ W!_flush_metadata_buffer(t) = WP!_flush_metadata_buffer(t)
                 /\ W!_close_writer(t) = WP!_close_writer(t)
      BY <2>5
    <3> QED
      BY <3>1, <3>2, <3>3 DEF W!_save_episode_metadata, WP!_save_episode_metadata
  <2> QED
    BY <2>1, <2>2, <2>6, <2>7, <2>10, <2>11, <2>12 DEF W!Next, WP!Next
<1>2. UNCHANGED writerVars => UNCHANGED WP!vars
  BY DEF writerVars, WP!vars, WP!disk
<1> QED
  BY <1>1, <1>2 DEF DataNext, allVars, InRL, InWriter, InEncoder, InCamera

LEMMA WriterSession ==
  /\ DataInit => WP!WriterInv /\ WP!ReadInv
  /\ WP!WriterInv /\ [DataNext]_allVars => WP!WriterInv' /\ WP!Listed \subseteq WP!Listed'
  /\ WP!WriterInv /\ WP!ReadInv /\ [DataNext]_allVars => WP!ReadInv'
<1>1. ASSUME DataInit
      PROVE  WP!WriterInv /\ WP!ReadInv
  BY <1>1, WriterConstantsHold, WriterInit, WP!InitWriterInv, WP!InitReadInv
<1>2. ASSUME WP!WriterInv, [DataNext]_allVars
      PROVE  WP!WriterInv' /\ WP!Listed \subseteq WP!Listed'
  BY <1>2, WriterConstantsHold, WriterStep, WP!NextWriterInv
<1>3. ASSUME WP!WriterInv, WP!ReadInv, [DataNext]_allVars
      PROVE  WP!ReadInv'
  BY <1>3, WriterConstantsHold, WriterStep, WP!NextReadInv
<1> QED
  BY <1>1, <1>2, <1>3

(* The recorded types, with any number of cameras, frames, sessions and      *)
(* episodes.  No metadata row waits longer than the buffer is                *)
(* (dataset_metadata.py:400-469) and no encoder's queue grows beyond its     *)
(* size (video_utils.py:757-839).                                            *)
THEOREM RecordingTypeCorrect == DataSpec => []RecordingTypeOK
<1>1. WP!WriterInv => W!TypeOK
  <2>1. ASSUME WP!WriterInv
        PROVE  WP!TypeOK
    BY <2>1, WriterConstantsHold, WP!InvImpliesTypeOK
  <2> QED
    BY <2>1 DEF W!TypeOK, WP!TypeOK, W!None, WP!None, W!ToSet, WP!ToSet
<1>2. EP!EncoderInv => E!TypeOK
  <2>1. ASSUME EP!EncoderInv
        PROVE  EP!TypeOK
    BY <2>1, EP!EncoderTypes
  <2> QED
    BY <2>1 DEF E!TypeOK, EP!TypeOK, E!Threads, EP!Threads
<1> QED
  BY <1>1, <1>2, WriterSession, EncoderSession, PTL DEF DataSpec, RecordingTypeOK

(* An episode whose metadata can be read has all its rows in the file the    *)
(* metadata names and all its frames in its stretch of every video, after    *)
(* any full files, failing saves, crashes and resumed sessions               *)
(* (dataset_writer.py:387-524).                                              *)
THEOREM ListedEpisodesStored == DataSpec => []ListedIsStored
<1>1. WP!WriterInv => ListedIsStored
  <2>1. ASSUME WP!WriterInv
        PROVE  WP!ListedIsStored
    BY <2>1, WP!InvImpliesStored
  <2> QED
    BY <2>1 DEF ListedIsStored, W!ListedIsStored, WP!ListedIsStored, W!Listed, WP!Listed,
       W!VideoShows, WP!VideoShows, W!ToSet, WP!ToSet
<1> QED
  BY <1>1, WriterSession, PTL DEF DataSpec

(* No step takes an episode from the ones that can be read: no session, and  *)
(* no rotation of the metadata files, overwrites one                         *)
(* (dataset_metadata.py:400-469).                                            *)
THEOREM ListedEpisodesStay == DataSpec => ListedStays
<1>1. WP!WriterInv /\ [DataNext]_allVars => [W!Listed \subseteq W!Listed']_W!vars
  BY WriterSession DEF W!Listed, WP!Listed, W!ToSet, WP!ToSet
<1> QED
  BY <1>1, WriterSession, PTL DEF DataSpec, ListedStays, W!ListedStays

(* When a session has ended through finalize, whatever saves raised in it or *)
(* before, at whatever point, every file has its footer, every metadata row  *)
(* that was ever made can be read, and info.json counts no more episodes     *)
(* than there are (dataset_metadata.py:500-511, video_utils.py:1080-1105).   *)
THEOREM FailuresLeaveDatasetWhole == DataSpec => []FailuresLeaveItWhole
<1>1. WP!WriterInv => FailuresLeaveItWhole
  <2>1. ASSUME WP!WriterInv
        PROVE  WP!FailuresLeaveItWhole
    BY <2>1, WP!InvImpliesWhole
  <2> QED
    BY <2>1 DEF FailuresLeaveItWhole, W!FailuresLeaveItWhole, WP!FailuresLeaveItWhole, W!Listed,
       WP!Listed, W!AllClosed, WP!AllClosed, W!ToSet, WP!ToSet, W!Cardinality, WP!Cardinality
<1> QED
  BY <1>1, WriterSession, PTL DEF DataSpec

(* After sessions that all ended through finalize, every frame of every      *)
(* episode is the row of the dataset that its metadata counts to, behind     *)
(* however many data files, rotations and resumed sessions, and no row is    *)
(* there besides: load_nested_dataset, episodes and info.json agree          *)
(* (dataset_writer.py:626-644, io_utils.py:72-81).                           *)
THEOREM SessionsAreReadBack == DataSpec => []SessionsReadBack
<1>1. WP!WriterInv /\ WP!ReadInv => SessionsReadBack
  <2>1. ASSUME WP!WriterInv, WP!ReadInv
        PROVE  WP!SessionsReadBack
    BY <2>1, WP!InvImpliesReadBack
  <2>2. W!load_nested_dataset(data) = WP!load_nested_dataset(data)
    BY DEF W!load_nested_dataset, WP!load_nested_dataset, W!Nth, WP!Nth, W!Precedes, WP!Precedes,
       W!FlattenSeq, WP!FlattenSeq, W!Cardinality, WP!Cardinality
  <2>3. /\ W!Listed = WP!Listed /\ W!Cardinality(W!Listed) = WP!Cardinality(WP!Listed)
        /\ W!Readable(data) = WP!Readable(data) /\ W!Readable(episodes) = WP!Readable(episodes)
    BY DEF W!Listed, WP!Listed, W!ToSet, WP!ToSet, W!Cardinality, WP!Cardinality, W!Readable,
       WP!Readable, W!AllClosed, WP!AllClosed
  <2>4. W!ReadsBack = WP!ReadsBack
    BY <2>2, <2>3 DEF W!ReadsBack, WP!ReadsBack, W!RowSays, WP!RowSays
  <2> QED
    BY <2>1, <2>4 DEF SessionsReadBack, W!SessionsReadBack, WP!SessionsReadBack
<1> QED
  BY <1>1, WriterSession, PTL DEF DataSpec

-------------------------------------------------------------------------------
(* The camera, for any number of frames and connections, as long as every    *)
(* join found its thread's end.                                              *)

Positions == {"off", "stop", "join", "forget", "start", "enter", "wait", "take", "warmup",
              "observe", "clear", "depth", "release", "released", "raised"}

ReaderType == [at : {"none", "check", "read", "store", "signal", "ended"}, pipeline : Nat,
               frame : Nat, failures : Nat]

CameraTypeOK ==
  /\ main \in Positions /\ connecting \in BOOLEAN /\ rs_pipeline \in BOOLEAN
  /\ connection \in 0 .. MaxConnections /\ thread \in 0 .. connection /\ stop_event = thread
  /\ readers \in [Connections -> ReaderType] /\ frames \in Nat /\ before \in Nat
  /\ latest_color_frame \in Nat /\ latest_depth_frame \in Nat /\ new_frame_event \in BOOLEAN
  /\ color \in Nat /\ observation \in {<<>>} \cup (Nat \X Nat \X Nat)
  /\ left_behind \in BOOLEAN

(* A thread that reads is the one the camera knows, and there is none while  *)
(* the camera is stopped.                                                    *)
OneReader ==
  /\ \A i \in Connections : is_alive(i) => i = thread
  /\ main \in {"forget", "start", "release", "released", "off"} => thread = 0
  /\ main \in {"stop", "join"} /\ connecting => thread = 0

(* What is in the buffer, and on its way into it, is of this connection.     *)
BufferIsCurrent ==
  /\ before <= frames /\ latest_color_frame <= frames /\ latest_depth_frame = latest_color_frame
  /\ latest_color_frame = 0 \/ before < latest_color_frame
  /\ main = "off" => latest_color_frame = 0
  /\ new_frame_event => latest_color_frame # 0

ReadersAreCurrent ==
  \A i \in Connections :
    /\ readers[i].at = "store" => before < frames /\ readers[i].frame = frames
    /\ readers[i].at = "signal" => latest_color_frame # 0

(* The color image a depth image will join is not newer than the buffer.     *)
ColorIsCurrent ==
  /\ main \in {"observe", "clear", "depth"} => ~connecting
  /\ main \in {"start", "warmup"} => connecting
  /\ main \in {"enter", "wait", "take", "clear", "depth"} /\ ~connecting =>
       before < color /\ color <= latest_color_frame

ObservationIsCurrent ==
  observation # <<>> => observation[3] < observation[1] /\ observation[1] <= observation[2]

Current ==
  OneReader /\ BufferIsCurrent /\ ReadersAreCurrent /\ ColorIsCurrent /\ ObservationIsCurrent

CameraInv == CameraTypeOK /\ (~left_behind => Current)

LEMMA InitCameraInv == CameraInit => CameraInv
<1> SUFFICES ASSUME CameraInit PROVE CameraInv
  OBVIOUS
<1>1. readers \in [Connections -> ReaderType] /\ \A i \in Connections : readers[i].at = "none"
  BY DEF CameraInit, NoReader, ReaderType
<1>2. CameraTypeOK
  <2>1. connection \in 0 .. MaxConnections /\ thread \in 0 .. connection /\ stop_event = thread
    BY CameraAssumption DEF CameraInit
  <2> QED
    BY <1>1, <2>1 DEF CameraInit, CameraTypeOK, Positions
<1>3. OneReader
  BY <1>1 DEF CameraInit, OneReader, is_alive
<1>4. BufferIsCurrent /\ ReadersAreCurrent /\ ColorIsCurrent /\ ObservationIsCurrent
  BY <1>1 DEF CameraInit, BufferIsCurrent, ReadersAreCurrent, ColorIsCurrent, ObservationIsCurrent
<1> QED
  BY <1>2, <1>3, <1>4 DEF CameraInv, Current

-------------------------------------------------------------------------------
(* The steps of a thread.                                                    *)

LEMMA ReadLoopType ==
  ASSUME CameraTypeOK, NEW i \in Connections,
         CheckStop(i) \/ _read_from_hardware(i) \/ ReadFails(i) \/ StoreFrame(i) \/ SignalFrame(i)
  PROVE  CameraTypeOK'
<1>1. /\ readers \in [Connections -> ReaderType] /\ readers[i] \in ReaderType
      /\ frames \in Nat /\ connection \in Nat
  BY CameraAssumption DEF CameraTypeOK
<1>2. /\ readers' \in [Connections -> ReaderType] /\ frames' \in Nat
      /\ latest_color_frame' \in Nat /\ latest_depth_frame' \in Nat /\ new_frame_event' \in BOOLEAN
  <2>e. [readers EXCEPT ![i] = Ended] \in [Connections -> ReaderType]
    BY <1>1 DEF Ended, ReaderType
  <2>1. CASE CheckStop(i)
    <3>1. [readers EXCEPT ![i].at = "read", ![i].pipeline = IF rs_pipeline THEN connection ELSE 0]
            \in [Connections -> ReaderType]
      BY <1>1 DEF ReaderType
    <3> QED
      BY <2>1, <2>e, <3>1 DEF CheckStop, CameraTypeOK, bufferVars
  <2>2. CASE _read_from_hardware(i)
    <3>1. frames + 1 \in Nat
      BY <1>1
    <3>2. [readers EXCEPT ![i].at = "store", ![i].frame = frames + 1] \in [Connections -> ReaderType]
      BY <1>1, <3>1 DEF ReaderType
    <3> QED
      BY <2>2, <3>1, <3>2 DEF _read_from_hardware, CameraTypeOK, bufferVars
  <2>3. CASE ReadFails(i)
    <3>1. readers[i].failures + 1 \in Nat
      BY <1>1 DEF ReaderType
    <3>2. [readers EXCEPT ![i].at = "check", ![i].failures = readers[i].failures + 1]
            \in [Connections -> ReaderType]
      BY <1>1, <3>1 DEF ReaderType
    <3> QED
      BY <2>3, <2>e, <3>2 DEF ReadFails, CameraTypeOK, bufferVars
  <2>4. CASE StoreFrame(i)
    BY <1>1, <2>4 DEF StoreFrame, CameraTypeOK, ReaderType
  <2>5. CASE SignalFrame(i)
    BY <1>1, <2>5 DEF SignalFrame, CameraTypeOK, ReaderType
  <2> QED
    BY <2>1, <2>2, <2>3, <2>4, <2>5
<1>3. ReaderUnchanged
  BY DEF CheckStop, _read_from_hardware, ReadFails, StoreFrame, SignalFrame
<1> QED
  BY <1>2, <1>3 DEF ReaderUnchanged, threadVars, robotVars, CameraTypeOK

LEMMA ReadLoopCurrent ==
  ASSUME CameraTypeOK, Current, NEW i \in Connections,
         CheckStop(i) \/ _read_from_hardware(i) \/ ReadFails(i) \/ StoreFrame(i) \/ SignalFrame(i)
  PROVE  Current'
<1>1. /\ readers \in [Connections -> ReaderType] /\ frames \in Nat /\ before \in Nat
      /\ latest_color_frame \in Nat /\ color \in Nat /\ thread \in Nat
  BY DEF CameraTypeOK
<1>2. ReaderUnchanged
  BY DEF CheckStop, _read_from_hardware, ReadFails, StoreFrame, SignalFrame
\* Only i moves, and it was alive before.
<1>3. /\ \A j \in Connections : j # i => readers'[j] = readers[j]
      /\ readers[i].at \in {"check", "read", "store", "signal"}
  BY <1>1 DEF CheckStop, _read_from_hardware, ReadFails, StoreFrame, SignalFrame, Reader
<1>4. i = thread /\ \A j \in Connections : j # i => readers[j].at \in {"none", "ended"}
  BY <1>3, CameraAssumption DEF Current, OneReader, is_alive, Connections
<1>5. OneReader'
  BY <1>2, <1>3, <1>4 DEF Current, OneReader, is_alive, ReaderUnchanged, threadVars
<1>6. BufferIsCurrent' /\ ReadersAreCurrent' /\ latest_color_frame' >= latest_color_frame
  <2>1. CASE CheckStop(i)
    BY <1>1, <1>2, <1>4, <2>1 DEF CheckStop, Ended, NoReader, ReaderType, ReaderUnchanged, bufferVars,
       Current, BufferIsCurrent, ReadersAreCurrent
  <2>2. CASE _read_from_hardware(i)
    BY <1>1, <1>2, <1>4, <2>2 DEF _read_from_hardware, ReaderType, ReaderUnchanged, bufferVars,
       Current, BufferIsCurrent, ReadersAreCurrent
  <2>3. CASE ReadFails(i)
    BY <1>1, <1>2, <1>4, <2>3 DEF ReadFails, Ended, NoReader, ReaderType, ReaderUnchanged, bufferVars,
       Current, BufferIsCurrent, ReadersAreCurrent
  <2>4. CASE StoreFrame(i)
    <3>1. readers[i].frame = frames /\ before < frames /\ latest_color_frame <= frames
      BY <2>4 DEF StoreFrame, Reader, Current, BufferIsCurrent, ReadersAreCurrent
    <3>2. /\ latest_color_frame' = frames /\ latest_depth_frame' = frames /\ frames' = frames
          /\ before' = before /\ main' = main /\ readers'[i].at = "signal"
      BY <1>1, <1>2, <2>4, <3>1 DEF StoreFrame, ReaderType, ReaderUnchanged
    <3>3. main # "off"
      BY <1>1, <1>4 DEF Current, OneReader, Connections
    <3>4. frames # 0
      BY <1>1, <3>1
    <3> QED
      BY <1>1, <1>3, <1>4, <3>1, <3>2, <3>3, <3>4 DEF BufferIsCurrent, ReadersAreCurrent
  <2>5. CASE SignalFrame(i)
    BY <1>1, <1>2, <1>4, <2>5 DEF SignalFrame, Reader, ReaderType, ReaderUnchanged,
       Current, BufferIsCurrent, ReadersAreCurrent
  <2> QED
    BY <2>1, <2>2, <2>3, <2>4, <2>5
<1>7. ColorIsCurrent' /\ ObservationIsCurrent'
  <2>1. latest_color_frame' \in Nat
    BY ReadLoopType DEF CameraTypeOK
  <2> QED
    BY <1>1, <1>2, <1>6, <2>1 DEF ReaderUnchanged, robotVars, Current, ColorIsCurrent,
       ObservationIsCurrent
<1> QED
  BY <1>5, <1>6, <1>7 DEF Current

-------------------------------------------------------------------------------
(* The steps of the main thread.                                             *)

Lifecycle ==
  connect \/ SetStop \/ JoinThread \/ Forget \/ _start_read_thread \/ disconnect \/ StopPipeline
  \/ ForgetAgain

Reading ==
  EnterRead \/ WaitForFrame \/ WaitFails \/ TakeFrame \/ WarmUp \/ Connected \/ read_latest \/ LatestFails
  \/ ClearEvent \/ NotRunning \/ read_depth

LEMMA LifecycleType == ASSUME CameraTypeOK, Lifecycle PROVE CameraTypeOK'
<1> USE DEF CameraTypeOK, threadVars, bufferVars, robotVars, MainUnchanged, Positions
<1>1. CASE connect
  BY <1>1, CameraAssumption DEF connect
<1>2. CASE SetStop
  BY <1>2 DEF SetStop
<1>3. CASE JoinThread
  <2>1. left_behind' \in BOOLEAN
    BY <1>3 DEF JoinThread
  <2>2. thread' \in 0 .. connection' /\ stop_event' = thread'
    BY <1>3, CameraAssumption DEF JoinThread
  <2> QED
    BY <1>3, <2>1, <2>2 DEF JoinThread
<1>4. CASE Forget \/ ForgetAgain
  <2>1. main' \in Positions
    BY <1>4 DEF Forget, ForgetAgain
  <2>2. latest_color_frame' \in Nat /\ latest_depth_frame' \in Nat /\ new_frame_event' \in BOOLEAN
    <3>1. ForgetFrames
      BY <1>4 DEF Forget, ForgetAgain
    <3> QED
      BY <3>1 DEF ForgetFrames
  <2> QED
    BY <1>4, <2>1, <2>2 DEF Forget, ForgetAgain
<1>5. CASE _start_read_thread
  <2>1. [readers EXCEPT ![connection].at = "check"] \in [Connections -> ReaderType]
    BY DEF ReaderType
  <2> QED
    BY <1>5, <2>1, CameraAssumption DEF _start_read_thread
<1>6. CASE disconnect
  BY <1>6 DEF disconnect
<1>7. CASE StopPipeline
  BY <1>7 DEF StopPipeline
<1> QED
  BY <1>1, <1>2, <1>3, <1>4, <1>5, <1>6, <1>7 DEF Lifecycle

LEMMA LifecycleCurrent ==
  ASSUME CameraTypeOK, Current, Lifecycle, ~left_behind' PROVE Current'
<1> USE DEF threadVars, bufferVars, robotVars, MainUnchanged
<1>1. CASE connect
  <2>1. OneReader'
    BY <1>1 DEF connect, Current, OneReader, is_alive
  <2>2. BufferIsCurrent' /\ ColorIsCurrent' /\ ObservationIsCurrent'
    BY <1>1 DEF connect, CameraTypeOK, Current, BufferIsCurrent, ColorIsCurrent, ObservationIsCurrent
  <2>3. ReadersAreCurrent'
    BY <1>1, CameraAssumption
    DEF connect, Current, OneReader, is_alive, ReadersAreCurrent, Connections
  <2> QED
    BY <2>1, <2>2, <2>3 DEF Current
<1>2. CASE SetStop \/ StopPipeline \/ disconnect
  BY <1>2 DEF SetStop, StopPipeline, disconnect, Current, OneReader, is_alive, BufferIsCurrent,
     ReadersAreCurrent, ColorIsCurrent, ObservationIsCurrent
\* The thread is found ended, so none is left.
<1>3. CASE JoinThread
  <2>1. ~is_alive(thread) /\ thread' = 0 /\ readers' = readers /\ main' = "forget"
    BY <1>3 DEF JoinThread
  <2>2. OneReader'
    BY <2>1 DEF Current, OneReader, is_alive
  <2> QED
    BY <1>3, <2>1, <2>2 DEF JoinThread, Current, BufferIsCurrent, ReadersAreCurrent, ColorIsCurrent,
       ObservationIsCurrent
<1>4. CASE Forget \/ ForgetAgain
  <2>1. OneReader' /\ thread = 0
    BY <1>4 DEF Forget, ForgetAgain, Current, OneReader, is_alive
  <2>2. BufferIsCurrent' /\ ColorIsCurrent' /\ ObservationIsCurrent'
    BY <1>4 DEF Forget, ForgetAgain, ForgetFrames, CameraTypeOK, Current, BufferIsCurrent,
       ColorIsCurrent, ObservationIsCurrent
  <2>3. ReadersAreCurrent'
    BY <1>4, <2>1, CameraAssumption
    DEF Forget, ForgetAgain, Current, OneReader, is_alive, ReadersAreCurrent, Connections
  <2> QED
    BY <2>1, <2>2, <2>3 DEF Current
<1>5. CASE _start_read_thread
  <2>1. /\ thread = 0 /\ thread' = connection
        /\ readers' = [readers EXCEPT ![connection].at = "check"]
        /\ readers \in [Connections -> ReaderType]
    BY <1>5 DEF _start_read_thread, CameraTypeOK, Current, OneReader
  <2>2. \A j \in Connections : j # connection => readers'[j].at \in {"none", "ended"}
    BY <2>1, CameraAssumption DEF Current, OneReader, is_alive, Connections, ReaderType
  <2>3. \A j \in Connections : j = connection => readers'[j].at = "check"
    BY <2>1 DEF ReaderType
  <2>4. OneReader'
    BY <1>5, <2>1, <2>2 DEF _start_read_thread, OneReader, is_alive
  <2>5. ReadersAreCurrent'
    BY <2>2, <2>3 DEF ReadersAreCurrent
  <2>6. BufferIsCurrent' /\ ColorIsCurrent' /\ ObservationIsCurrent'
    BY <1>5 DEF _start_read_thread, Current, BufferIsCurrent, ColorIsCurrent, ObservationIsCurrent
  <2> QED
    BY <2>4, <2>5, <2>6 DEF Current
<1> QED
  BY <1>1, <1>2, <1>3, <1>4, <1>5 DEF Lifecycle

LEMMA ReadingType == ASSUME CameraTypeOK, Reading PROVE CameraTypeOK'
<1>1. /\ ThreadsUnchanged
      /\ main' \in Positions
      /\ latest_color_frame' = latest_color_frame /\ latest_depth_frame' = latest_depth_frame
  <2> USE DEF Positions, bufferVars
  <2>1. CASE EnterRead \/ WaitForFrame \/ WaitFails \/ WarmUp \/ LatestFails \/ NotRunning
    BY <2>1 DEF EnterRead, WaitForFrame, WaitFails, WarmUp, LatestFails, NotRunning, Raise
  <2>2. CASE TakeFrame
    BY <2>2 DEF TakeFrame
  <2>3. CASE Connected
    BY <2>3 DEF Connected
  <2>4. CASE read_latest \/ ClearEvent
    BY <2>4 DEF read_latest, ClearEvent
  <2>5. CASE read_depth
    BY <2>5 DEF read_depth
  <2> QED
    BY <2>1, <2>2, <2>3, <2>4, <2>5 DEF Reading
<1>2. connecting' \in BOOLEAN /\ new_frame_event' \in BOOLEAN
  BY DEF CameraTypeOK, Reading, EnterRead, WaitForFrame, WaitFails, WarmUp, LatestFails, NotRunning, Raise,
     TakeFrame, Connected, read_latest, ClearEvent, read_depth, bufferVars
<1>3. color' \in Nat
  BY DEF CameraTypeOK, Reading, EnterRead, WaitForFrame, WaitFails, WarmUp, LatestFails, NotRunning, Raise,
     TakeFrame, Connected, read_latest, ClearEvent, read_depth, robotVars
<1>4. observation' \in {<<>>} \cup (Nat \X Nat \X Nat)
  <2>1. observation' = observation \/ observation' = <<color, latest_depth_frame, before>>
    BY DEF Reading, EnterRead, WaitForFrame, WaitFails, WarmUp, LatestFails, NotRunning, Raise,
       TakeFrame, Connected, read_latest, ClearEvent, read_depth, robotVars
  <2> QED
    BY <2>1 DEF CameraTypeOK
<1> QED
  BY <1>1, <1>2, <1>3, <1>4 DEF CameraTypeOK, ThreadsUnchanged, threadVars

LEMMA ReadingCurrent ==
  ASSUME CameraTypeOK, Current, Reading PROVE Current'
<1>1. ThreadsUnchanged /\ UNCHANGED <<latest_color_frame, latest_depth_frame>>
  BY DEF Reading, EnterRead, WaitForFrame, WaitFails, WarmUp, LatestFails, NotRunning, Raise,
     TakeFrame, Connected, read_latest, ClearEvent, read_depth, bufferVars
<1>2. main' \in {"enter", "wait", "take", "warmup", "observe", "clear", "depth", "raised"}
  BY DEF Reading, EnterRead, WaitForFrame, WaitFails, WarmUp, LatestFails, NotRunning, Raise,
     TakeFrame, Connected, read_latest, ClearEvent, read_depth
<1>3. OneReader'
  BY <1>1, <1>2 DEF ThreadsUnchanged, threadVars, Current, OneReader, is_alive
<1>4. new_frame_event' => new_frame_event
  BY DEF Reading, EnterRead, WaitForFrame, WaitFails, WarmUp, LatestFails, NotRunning, Raise,
     TakeFrame, Connected, read_latest, ClearEvent, read_depth, bufferVars
<1>5. BufferIsCurrent' /\ ReadersAreCurrent'
  BY <1>1, <1>2, <1>4 DEF ThreadsUnchanged, Current, BufferIsCurrent, ReadersAreCurrent
<1>6. ColorIsCurrent' /\ ObservationIsCurrent'
  <2> USE DEF ThreadsUnchanged, robotVars, Current, ColorIsCurrent, ObservationIsCurrent
  <2>1. CASE EnterRead \/ WaitForFrame \/ WarmUp
    BY <1>1, <2>1 DEF EnterRead, WaitForFrame, WarmUp
  <2>2. CASE WaitFails \/ LatestFails \/ NotRunning
    BY <2>2 DEF WaitFails, LatestFails, NotRunning, Raise
  <2>3. CASE TakeFrame
    BY <1>1, <2>3 DEF TakeFrame
  <2>4. CASE Connected
    BY <2>4 DEF Connected
  <2>5. CASE read_latest
    BY <1>1, <2>5 DEF read_latest, BufferIsCurrent, CameraTypeOK
  <2>6. CASE ClearEvent
    BY <1>1, <2>6 DEF ClearEvent
  <2>7. CASE read_depth
    <3>1. CASE latest_depth_frame = 0
      BY <2>7, <3>1 DEF read_depth
    <3>2. CASE latest_depth_frame # 0
      <4>1. /\ observation' = <<color, latest_depth_frame, before>> /\ main' = "observe"
            /\ connecting' = connecting
        BY <2>7, <3>2 DEF read_depth
      <4>2. before < color /\ color <= latest_depth_frame /\ ~connecting
        BY <2>7 DEF read_depth, BufferIsCurrent
      <4> QED
        BY <4>1, <4>2
    <3> QED
      BY <3>1, <3>2
  <2> QED
    BY <2>1, <2>2, <2>3, <2>4, <2>5, <2>6, <2>7 DEF Reading
<1> QED
  BY <1>3, <1>5, <1>6 DEF Current

-------------------------------------------------------------------------------
LEMMA StutterInv == ASSUME CameraInv, UNCHANGED cameraVars PROVE CameraInv'
<1> USE DEF cameraVars, threadVars, bufferVars, robotVars
<1>1. CameraTypeOK'
  BY DEF CameraInv, CameraTypeOK
<1>2. Current => Current'
  BY DEF Current, OneReader, is_alive, BufferIsCurrent, ReadersAreCurrent, ColorIsCurrent,
     ObservationIsCurrent
<1> QED
  BY <1>1, <1>2 DEF CameraInv

LEMMA NextCameraInv == CameraInv /\ [CameraNext]_cameraVars => CameraInv'
<1> SUFFICES ASSUME CameraInv, [CameraNext]_cameraVars PROVE CameraInv'
  OBVIOUS
<1>1. ASSUME NEW i \in Connections,
             CheckStop(i) \/ _read_from_hardware(i) \/ ReadFails(i) \/ StoreFrame(i)
             \/ SignalFrame(i)
      PROVE  CameraInv'
  <2>1. left_behind' = left_behind
    BY <1>1 DEF CheckStop, _read_from_hardware, ReadFails, StoreFrame, SignalFrame, ReaderUnchanged
  <2> QED
    BY <1>1, <2>1, ReadLoopType, ReadLoopCurrent DEF CameraInv
<1>2. CASE Lifecycle
  <2>1. ~left_behind' => ~left_behind
    BY <1>2 DEF Lifecycle, connect, SetStop, JoinThread, Forget, _start_read_thread, disconnect,
       StopPipeline, ForgetAgain
  <2> QED
    BY <1>2, <2>1, LifecycleType, LifecycleCurrent DEF CameraInv
<1>3. CASE Reading
  <2>1. left_behind' = left_behind
    BY <1>3 DEF Reading, EnterRead, WaitForFrame, WaitFails, WarmUp, LatestFails, NotRunning, Raise,
       TakeFrame, Connected, read_latest, ClearEvent, read_depth, ThreadsUnchanged
  <2> QED
    BY <1>3, <2>1, ReadingType, ReadingCurrent DEF CameraInv
<1> QED
  BY <1>1, <1>2, <1>3, StutterInv DEF CameraNext, ReadLoop, Lifecycle, Reading

(* Whatever the camera does, an observation's images are of the connection   *)
(* it was made in, and its depth is not older than its color                 *)
(* (so_follower.py:190-199, camera_realsense.py:473-637), for any number of  *)
(* connections and frames.                                                   *)
THEOREM CameraObservesCurrent == CameraSpec => []ObservationsAreCurrent
<1>1. CameraInv => ObservationsAreCurrent
  BY DEF CameraInv, Current, BufferIsCurrent, ObservationIsCurrent, ObservationsAreCurrent
<1> QED
  BY <1>1, InitCameraInv, NextCameraInv, PTL DEF CameraSpec

-------------------------------------------------------------------------------
(* The memory-optimized replay buffer pairs states with the states that      *)
(* followed them, for every capacity and whatever transitions arrive and are *)
(* skipped.                                                                  *)

(* Types; a buffer that is not full has been filled from slot 0.             *)
BufferTypeOK ==
  /\ slots \in [Slot -> Transition] /\ position \in Slot /\ size \in 0 .. capacity
  /\ size < capacity => position = size
  /\ last = <<>> => size = 0
  /\ last # <<>> => last = <<last[1]>> /\ last[1] \in Transition

(* A slot leads to the slot behind it, or nothing followed its transition.   *)
Leads(i, j) ==
  \/ slots[j].state = slots[i].next_state
  \/ slots[i].ends
  \/ slots[i].next_state \in skipped

Chain == \A i \in Slot : i < size /\ i # Newest => Leads(i, next_idx(i))

(* The newest slot leads to whatever is added next: it holds the last        *)
(* transition, or what followed it was skipped.                              *)
NewestIsLast ==
  size > 0 =>
    \/ slots[Newest] = last[1]
    \/ slots[Newest].ends
    \/ slots[Newest].next_state \in skipped

IInv == BufferTypeOK /\ Chain /\ NewestIsLast

-------------------------------------------------------------------------------
(* Going round the ring without the modulus.                                 *)
LEMMA NextSlot ==
  ASSUME NEW i \in Slot
  PROVE  next_idx(i) = IF i = capacity - 1 THEN 0 ELSE i + 1
<1>1. CASE i = capacity - 1
  BY <1>1, CapacityAssumption DEF next_idx, Slot
<1>2. CASE i # capacity - 1
  BY <1>2, CapacityAssumption DEF next_idx, Slot
<1> QED
  BY <1>1, <1>2

LEMMA InitIInv == ReplayInit => IInv
  BY CapacityAssumption
     DEF ReplayInit, IInv, BufferTypeOK, Chain, NewestIsLast, Slot, Transition, Garbage

(* The slot an add writes lies behind the newest one, and is the newest one  *)
(* afterwards.                                                               *)
LEMMA AddMovesOn ==
  ASSUME IInv, NEW t, add(t)
  PROVE  /\ position' \in Slot /\ position' = IF position = capacity - 1 THEN 0 ELSE position + 1
         /\ Newest' = position
         /\ size > 0 => Newest \in Slot /\ Newest < size /\ next_idx(Newest) = position
         /\ size' = IF size < capacity THEN size + 1 ELSE capacity
<1>1. position \in Slot /\ position' = next_idx(position)
  BY DEF IInv, BufferTypeOK, add, next_idx
<1>2. position' = IF position = capacity - 1 THEN 0 ELSE position + 1
  BY <1>1, NextSlot
<1>3. position' \in Slot
  BY <1>1, <1>2, CapacityAssumption DEF Slot
<1>4. Newest' = position
  BY <1>1, <1>2, CapacityAssumption DEF Newest, Slot
<1>5. Newest \in Slot
  BY <1>1, CapacityAssumption DEF Newest, Slot
<1>6. ASSUME size > 0 PROVE Newest < size /\ next_idx(Newest) = position
  <2>1. next_idx(Newest) = position
    BY <1>1, <1>5, NextSlot, CapacityAssumption DEF Newest, Slot
  <2>2. Newest < size
    BY <1>1, <1>6, CapacityAssumption DEF Newest, IInv, BufferTypeOK, Slot
  <2> QED
    BY <2>1, <2>2
<1> QED
  BY <1>2, <1>3, <1>4, <1>5, <1>6 DEF add

LEMMA AddIInv ==
  ASSUME IInv, NEW t \in Transition, Follows(t), add(t)
  PROVE  IInv'
<1>0. /\ slots \in [Slot -> Transition] /\ position \in Slot /\ size \in 0 .. capacity
      /\ size < capacity => position = size
      /\ last = <<>> => size = 0
  BY DEF IInv, BufferTypeOK
<1>1. slots' = [slots EXCEPT ![position] = t] /\ last' = <<t>> /\ skipped' = skipped
  BY DEF add, Take
<1>2. /\ position' \in Slot /\ position' = IF position = capacity - 1 THEN 0 ELSE position + 1
      /\ Newest' = position
      /\ size > 0 => Newest \in Slot /\ Newest < size /\ next_idx(Newest) = position
      /\ size' = IF size < capacity THEN size + 1 ELSE capacity
  BY AddMovesOn
<1>3. BufferTypeOK'
  <2>1. slots' \in [Slot -> Transition]
    BY <1>0, <1>1
  <2>2. size' \in 0 .. capacity /\ (size' < capacity => position' = size')
    BY <1>0, <1>2, CapacityAssumption DEF Slot
  <2>3. last' # <<>> /\ last' = <<last'[1]>> /\ last'[1] \in Transition
    BY <1>1
  <2> QED
    BY <1>2, <2>1, <2>2, <2>3 DEF BufferTypeOK
<1>4. NewestIsLast'
  BY <1>0, <1>1, <1>2 DEF NewestIsLast
<1>5. ASSUME NEW i \in Slot, i < size', i # position
      PROVE  Leads(i, next_idx(i))'
  <2>1. slots'[i] = slots[i] /\ i < size
    BY <1>0, <1>1, <1>2, <1>5, CapacityAssumption DEF Slot
  <2>2. CASE i = Newest
    \* The transition that is added follows the newest one.
    <3>1. next_idx(i) = position /\ slots'[position] = t
      BY <1>0, <1>1, <1>2, <2>1, <2>2, CapacityAssumption DEF Slot
    <3>2. \/ slots[i] = last[1] /\ (slots[i].ends \/ t.state = slots[i].next_state)
          \/ slots[i].ends
          \/ slots[i].next_state \in skipped
      BY <1>0, <2>1, <2>2, CapacityAssumption DEF IInv, NewestIsLast, Follows, Slot
    <3> QED
      BY <1>1, <2>1, <3>1, <3>2 DEF Leads, next_idx
  <2>3. CASE i # Newest
    <3>1. Leads(i, next_idx(i))
      BY <2>1, <2>3, <1>5 DEF IInv, Chain
    <3>2. next_idx(i) \in Slot /\ next_idx(i) # position
      <4>1. next_idx(i) = IF i = capacity - 1 THEN 0 ELSE i + 1
        BY NextSlot
      <4> QED
        BY <4>1, <2>3, <1>0, CapacityAssumption DEF Newest, Slot
    <3>3. slots'[next_idx(i)] = slots[next_idx(i)]
      BY <1>0, <1>1, <3>2
    <3> QED
      BY <1>1, <2>1, <3>1, <3>3 DEF Leads, next_idx
  <2> QED
    BY <2>2, <2>3
<1>6. Chain'
  BY <1>2, <1>5 DEF Chain, Leads, next_idx
<1> QED
  BY <1>3, <1>4, <1>6 DEF IInv

LEMMA SkipIInv ==
  ASSUME IInv, NEW t \in Transition, Follows(t), skip(t)
  PROVE  IInv'
<1>1. /\ UNCHANGED <<slots, position, size>> /\ Newest' = Newest
      /\ last' = <<t>> /\ skipped' = skipped \cup {t.state}
  BY DEF skip, Take, Newest
<1>2. BufferTypeOK'
  BY <1>1 DEF IInv, BufferTypeOK
<1>3. Chain'
  BY <1>1 DEF IInv, Chain, Leads, next_idx
<1>4. NewestIsLast'
  <2>1. size \in 0 .. capacity /\ (last = <<>> => size = 0)
    BY DEF IInv, BufferTypeOK
  <2> QED
    BY <1>1, <2>1, CapacityAssumption DEF IInv, NewestIsLast, Follows
<1> QED
  BY <1>2, <1>3, <1>4 DEF IInv

LEMMA NextIInv == IInv /\ [ReplayNext]_replayVars => IInv'
<1> SUFFICES ASSUME IInv, [ReplayNext]_replayVars PROVE IInv'
  OBVIOUS
<1>1. CASE ReplayNext
  BY <1>1, AddIInv, SkipIInv DEF ReplayNext, Fed
<1>2. CASE UNCHANGED replayVars
  BY <1>2 DEF replayVars, IInv, BufferTypeOK, Chain, NewestIsLast, Leads, next_idx, Newest
<1> QED
  BY <1>1, <1>2

(* What sample returns for a state is the state that followed it, but for    *)
(* the ends of episodes, successors that were skipped, and the newest slot   *)
(* of a full buffer.                                                         *)
LEMMA InvImpliesFollows == IInv => SampledNextFollows
<1> SUFFICES ASSUME IInv, NEW i \in 0 .. high - 1
             PROVE  \/ Leads(i, next_idx(i))
                    \/ size = capacity /\ i = Newest
  BY DEF SampledNextFollows, Leads
<1>0. position \in Slot /\ size \in 0 .. capacity /\ (size < capacity => position = size)
  BY DEF IInv, BufferTypeOK
<1>1. i \in Slot /\ i < size
  BY <1>0, CapacityAssumption DEF high, Slot
<1>2. i = Newest => size = capacity
  BY <1>0, <1>1, CapacityAssumption DEF high, Newest, Slot
<1> QED
  BY <1>1, <1>2 DEF IInv, Chain

THEOREM SampleCorrect == ReplaySpec => []SampledNextFollows
<1> QED
  BY InitIInv, NextIInv, InvImpliesFollows, PTL DEF ReplaySpec

-------------------------------------------------------------------------------
(* Messages.                                                                 *)

\* A sequence without its head.
LEMMA TailOf ==
  ASSUME NEW S, NEW s \in Seq(S), s # <<>>
  PROVE  /\ s[1] \in S /\ Head(s) = s[1] /\ Len(s) \in Nat /\ 1 \in 1 .. Len(s)
         /\ \E r : /\ r = Tail(s) /\ r \in Seq(S) /\ Len(r) = Len(s) - 1
                 /\ \A i \in 1 .. Len(s) - 1 :
                      r[i] = s[i + 1] /\ i + 1 \in 1 .. Len(s) /\ 1 < i + 1
<1>1. s[1] \in S /\ Head(s) = s[1] /\ Len(s) \in Nat /\ 1 \in 1 .. Len(s)
  OBVIOUS
<1>2. /\ Tail(s) \in Seq(S) /\ Len(Tail(s)) = Len(s) - 1
      /\ \A i \in 1 .. Len(s) - 1 : Tail(s)[i] = s[i + 1]
  OBVIOUS
<1>3. \A i \in 1 .. Len(s) - 1 : i + 1 \in 1 .. Len(s) /\ 1 < i + 1
  BY <1>1
<1> QED
  BY <1>1, <1>2, <1>3

\* The transitions of a whole episode, or of the rest of one.
Episode(m) ==
  /\ m \in Seq(Transition) /\ m # <<>>
  /\ \A i \in 1 .. Len(m) : m[i].ends <=> i = Len(m)
  /\ \A i \in 1 .. Len(m) - 1 : m[i + 1].state = m[i].next_state

Start(m) == m[1].state
End(m) == m[Len(m)].next_state

Chunk(m, i) ==
  [transfer_state |-> IF i = Chunks(m) THEN "END" ELSE "BEGIN", data |-> <<m, i, Chunks(m)>>]
Bytes(m) == IF Chunks(m) = 1 THEN <<<<m, 1, 1>>>> ELSE <<<<m, 1, 2>>, <<m, 2, 2>>>>
AllChunks(m) == IF Chunks(m) = 1 THEN <<Chunk(m, 1)>> ELSE <<Chunk(m, 1), Chunk(m, 2)>>

LEMMA ChunksOf ==
  ASSUME NEW m
  PROVE  /\ Chunks(m) \in {1, 2}
         /\ send_bytes_in_chunks(m, Chunks(m)) = AllChunks(m)
         /\ Whole(Bytes(m)) /\ Bytes(m)[1][1] = m
<1>1. Chunks(m) \in {1, 2}
  BY DEF Chunks
<1>2. send_bytes_in_chunks(m, Chunks(m)) = AllChunks(m)
  BY <1>1 DEF send_bytes_in_chunks, AllChunks, Chunk
<1>3. Whole(Bytes(m)) /\ Bytes(m)[1][1] = m
  BY <1>1 DEF Bytes, Whole
<1> QED
  BY <1>1, <1>2, <1>3

\* The rest of an episode after its first transition.
LEMMA EpisodeTail ==
  ASSUME NEW m, Episode(m)
  PROVE  /\ Head(m) = m[1] /\ m[1] \in Transition
         /\ Tail(m) = <<>> => m[1].ends /\ End(m) = m[1].next_state
         /\ Tail(m) # <<>> => /\ Episode(Tail(m)) /\ End(Tail(m)) = End(m)
                              /\ ~m[1].ends /\ Start(Tail(m)) = m[1].next_state
<1> DEFINE len == Len(m)
<1>1. m \in Seq(Transition) /\ len \in Nat /\ len >= 1
  BY DEF Episode
<1>2. Head(m) = m[1] /\ m[1] \in Transition
  BY <1>1
<1>3. PICK r : /\ r = Tail(m) /\ r \in Seq(Transition) /\ Len(r) = len - 1
               /\ \A i \in 1 .. len - 1 : r[i] = m[i + 1]
  <2>1. m # <<>>
    BY DEF Episode
  <2> QED
    BY <1>1, <2>1, TailOf
<1>4. CASE r = <<>>
  <2>1. len = 1
    BY <1>1, <1>3, <1>4
  <2> QED
    BY <1>1, <1>2, <1>3, <1>4, <2>1 DEF Episode, End
<1>5. CASE r # <<>>
  <2>1. len > 1
    BY <1>1, <1>3, <1>5
  <2>2. ASSUME NEW i \in 1 .. Len(r)
        PROVE  r[i].ends <=> i = Len(r)
    <3>1. i + 1 \in 1 .. len /\ r[i] = m[i + 1]
      BY <1>1, <1>3, <2>1
    <3>2. m[i + 1].ends <=> i + 1 = len
      BY <3>1 DEF Episode
    <3>3. i + 1 = len <=> i = Len(r)
      BY <1>1, <1>3
    <3> QED
      BY <3>1, <3>2, <3>3, Zenon
  <2>3. ASSUME NEW i \in 1 .. Len(r) - 1
        PROVE  r[i + 1].state = r[i].next_state
    <3>1. i + 1 \in 1 .. len - 1 /\ i \in 1 .. len - 1
      BY <1>1, <1>3
    <3>2. r[i] = m[i + 1] /\ r[i + 1] = m[i + 1 + 1]
      BY <1>3, <3>1
    <3> QED
      BY <1>1, <3>1, <3>2 DEF Episode
  <2>4. Episode(r)
    BY <1>3, <1>5, <2>2, <2>3 DEF Episode
  <2>5. End(r) = End(m)
    <3>1. r[len - 1] = m[len - 1 + 1]
      BY <1>1, <1>3, <2>1
    <3> QED
      BY <1>1, <1>3, <2>1, <3>1, len - 1 + 1 = len, Len(r) = len - 1 DEF End
  <2>6. ~m[1].ends
    BY <1>1, <2>1 DEF Episode
  <2>7. Start(r) = m[1].next_state
    <3>1. r[1] = m[1 + 1]
      BY <1>1, <1>3, <2>1
    <3>2. m[1 + 1].state = m[1].next_state
      BY <1>1, <2>1 DEF Episode
    <3> QED
      BY <3>1, <3>2 DEF Start
  <2> QED
    BY <1>2, <1>3, <1>5, <2>4, <2>5, <2>6, <2>7
<1> QED
  BY <1>4, <1>5
(* The inductive invariant.                                                  *)

LEMMA RetriesBounded == MaxRetries \in Nat /\ MaxRetries <= MaxRepeats /\ MaxRepeats \in Nat
  BY LearningAssumption, CapacityAssumption

Episodes == {m \in Seq(Transition) : Episode(m)}
MessageBytes == {Bytes(m) : m \in Episodes}
Entries == [bytes : MessageBytes, attempt : 0 .. MaxRetries]
Message(entry) == entry.bytes[1][1]

LEMMA BytesOfMessage ==
  ASSUME NEW entry \in Entries
  PROVE  /\ Message(entry) \in Episodes /\ Episode(Message(entry)) /\ Whole(entry.bytes)
         /\ entry.attempt \in 0 .. MaxRetries
<1>1. PICK m \in Episodes : entry.bytes = Bytes(m)
  BY DEF MessageBytes, Entries
<1>2. Message(entry) = m /\ Whole(entry.bytes)
  BY <1>1, ChunksOf DEF Message
<1> QED
  BY <1>1, <1>2 DEF Episodes, Entries

\* What the actor has recorded of its episode; where the episode began.
Acting == actor \in {"step", "update", "push"}
First == IF unsent = <<>> THEN obs ELSE unsent[1].state

UnsentOK ==
  /\ obs \in Nat /\ unsent \in Seq(Transition) /\ First <= obs
  /\ \A i \in 1 .. Len(unsent) - 1 :
       ~unsent[i].ends /\ unsent[i + 1].state = unsent[i].next_state
  /\ actor = "step" /\ unsent # <<>> =>
       ~unsent[Len(unsent)].ends /\ unsent[Len(unsent)].next_state = obs
  /\ actor \in {"update", "push"} =>
       /\ unsent # <<>>
       /\ unsent[Len(unsent)].ends /\ unsent[Len(unsent)].next_state = obs + 1

\* The chunks of whole messages.
Pieces == {Chunk(m, 1) : m \in Episodes} \cup {Chunk(m, 2) : m \in {e \in Episodes : Chunks(e) = 2}}
Msg(c) == c.data[1]
Opens(c) == c.data[2] = 1
Ends(c) == c.transfer_state = "END"

\* A stream of them: the rest of one message, then whole ones, in the order of
\* the environment's steps.
Linked(s) ==
  /\ s \in Seq(Pieces)
  /\ \A j, k \in 1 .. Len(s) : j < k /\ Ends(s[j]) => End(Msg(s[j])) < Start(Msg(s[k]))
  /\ \A j \in 1 .. Len(s) - 1 : IF Ends(s[j]) THEN Opens(s[j + 1]) ELSE s[j + 1] = Chunk(Msg(s[j]), 2)
Stream(s) == Linked(s) /\ (s # <<>> => Ends(s[Len(s)]))
Carried(s) == {Msg(s[j]) : j \in 1 .. Len(s)}

\* What the handler has still to get, and what the next one would get.
Rest == wire \o sending
Again == kept \o sending

StreamOK ==
  /\ wire \in Seq(Pieces) /\ Len(wire) <= 1 /\ sending \in Seq(Pieces) /\ kept \in Seq(Pieces)
  /\ Stream(Rest)
  /\ bytes_buffer = IF Rest = <<>> \/ Opens(Rest[1]) THEN <<>> ELSE <<<<Msg(Rest[1]), 1, 2>>>>
  /\ attempt \in 0 .. MaxRetries
  /\ attempt < MaxRetries => Stream(Again) /\ (Again # <<>> => Opens(Again[1]))

\* The learner has taken nothing that comes after x.
After(x) ==
  /\ batch # <<>> => End(batch) < x
  /\ batch = <<>> /\ last # <<>> => last[1].next_state < x

BatchOK ==
  /\ batch # <<>> =>
       /\ Episode(batch)
       /\ last # <<>> => last[1].ends \/ Start(batch) = last[1].next_state
       /\ GoesBack(batch[1]) => repeats < tried
  /\ batch = <<>> /\ last # <<>> => last[1].ends
  /\ last # <<>> => last[1].next_state \in Nat
  /\ tried \in 0 .. MaxRetries /\ repeats \in 0 .. tried

\* The messages of this attempt between the actor and the learner, from the
\* learner's end, and those the channel may send again.
Received == {Message(l_transitions[i]) : i \in {j \in 1 .. Len(l_transitions) :
                                                 l_transitions[j].attempt = attempt}}
Coming == Carried(Rest)
Held == IF attempt < MaxRetries THEN Carried(Again) ELSE {}
Waiting == {a_transitions[i] : i \in 1 .. Len(a_transitions)}
Messages == Received \cup Coming \cup Held \cup Waiting

Precede(S, T) == \A s \in S, t \in T : End(s) < Start(t)

\* A later attempt begins again, one attempt is in order.
Ordered(a, b) ==
  a.attempt < b.attempt \/ (a.attempt = b.attempt /\ End(Message(a)) < Start(Message(b)))

QueuesOK ==
  /\ a_transitions \in Seq(Episodes) /\ l_transitions \in Seq(Entries)
  /\ \A i, j \in 1 .. Len(l_transitions) : i < j => Ordered(l_transitions[i], l_transitions[j])
  /\ \A i, j \in 1 .. Len(a_transitions) : i < j => End(a_transitions[i]) < Start(a_transitions[j])

InOrder ==
  /\ Precede(Received, Coming) /\ Precede(Received, Waiting)
  /\ Precede(Coming, Waiting) /\ Precede(Held, Waiting)

\* The messages in the queue come from the attempts since the one of batch.
Behind ==
  \A i \in 1 .. Len(l_transitions) :
    /\ tried <= l_transitions[i].attempt /\ l_transitions[i].attempt <= attempt
    /\ l_transitions[i].attempt = tried => After(Start(Message(l_transitions[i])))

InTime ==
  /\ tried <= attempt
  /\ tried = attempt => \A m \in Coming \cup Waiting : After(Start(m))
  /\ Acting => (tried = attempt => After(First)) /\ \A m \in Messages : End(m) < First

PipeInv == UnsentOK /\ QueuesOK /\ StreamOK /\ BatchOK /\ InOrder /\ Behind /\ InTime

LEMMA InitPipe == RLInit => PipeInv
<1> SUFFICES ASSUME RLInit PROVE PipeInv
  OBVIOUS
<1>1. Rest = <<>> /\ Again = <<>> /\ Waiting = {} /\ Received = {}
  BY DEF RLInit, Rest, Again, Waiting, Received
<1>2. Coming = {} /\ Held = {}
  BY <1>1 DEF Coming, Held, Carried
<1>3. UnsentOK /\ QueuesOK /\ Behind
  BY DEF RLInit, UnsentOK, QueuesOK, First, Behind
<1>4. StreamOK
  BY <1>1, RetriesBounded DEF RLInit, StreamOK, Stream, Linked
<1>5. BatchOK /\ \A x : After(x)
  BY RetriesBounded DEF RLInit, ReplayInit, BatchOK, After
<1>6. tried <= attempt
  BY DEF RLInit
<1> QED
  BY <1>1, <1>2, <1>3, <1>4, <1>5, <1>6 DEF PipeInv, InOrder, InTime, Messages, Precede

-------------------------------------------------------------------------------
(* Streams of chunks.                                                        *)

LEMMA PieceIs ==
  ASSUME NEW c \in Pieces
  PROVE  /\ Msg(c) \in Episodes
         /\ \/ Chunks(Msg(c)) = 1 /\ c = Chunk(Msg(c), 1) /\ Opens(c) /\ Ends(c)
            \/ Chunks(Msg(c)) = 2 /\ c = Chunk(Msg(c), 1) /\ Opens(c) /\ ~Ends(c)
            \/ Chunks(Msg(c)) = 2 /\ c = Chunk(Msg(c), 2) /\ ~Opens(c) /\ Ends(c)
<1>1. CASE \E m \in Episodes : c = Chunk(m, 1)
  <2>1. PICK m \in Episodes : c = Chunk(m, 1)
    BY <1>1
  <2>2. Msg(c) = m /\ Opens(c) /\ (Ends(c) <=> Chunks(m) = 1)
    BY <2>1, ChunksOf DEF Chunk, Msg, Opens, Ends
  <2> QED
    BY <2>1, <2>2, ChunksOf
<1>2. CASE \E m \in Episodes : Chunks(m) = 2 /\ c = Chunk(m, 2)
  <2>1. PICK m \in Episodes : Chunks(m) = 2 /\ c = Chunk(m, 2)
    BY <1>2
  <2>2. Msg(c) = m /\ ~Opens(c) /\ Ends(c)
    BY <2>1 DEF Chunk, Msg, Opens, Ends
  <2> QED
    BY <2>1, <2>2
<1> QED
  BY <1>1, <1>2 DEF Pieces

\* What a stream is without its first chunk.
LEMMA StreamTail ==
  ASSUME NEW s, Stream(s), s # <<>>
  PROVE  /\ s[1] \in Pieces /\ Head(s) = s[1] /\ Stream(Tail(s))
         /\ Msg(s[1]) \in Carried(s) /\ Carried(Tail(s)) \subseteq Carried(s)
         /\ Ends(s[1]) => Precede({Msg(s[1])}, Carried(Tail(s)))
         /\ Ends(s[1]) /\ Tail(s) # <<>> => Opens(Tail(s)[1])
         /\ ~Ends(s[1]) => Tail(s) # <<>> /\ Tail(s)[1] = Chunk(Msg(s[1]), 2)
<1> DEFINE len == Len(s)
<1>1. s \in Seq(Pieces) /\ len \in Nat /\ len >= 1 /\ Ends(s[len])
  BY DEF Stream, Linked
<1>2. s[1] \in Pieces /\ Head(s) = s[1] /\ 1 \in 1 .. len
  BY <1>1
<1>3. PICK r : /\ r = Tail(s) /\ r \in Seq(Pieces) /\ Len(r) = len - 1
               /\ \A i \in 1 .. len - 1 : r[i] = s[i + 1] /\ i + 1 \in 1 .. len /\ 1 < i + 1
  BY <1>1, TailOf
<1>4. ASSUME NEW j \in 1 .. Len(r), NEW k \in 1 .. Len(r), j < k, Ends(r[j])
      PROVE  End(Msg(r[j])) < Start(Msg(r[k]))
  <2>1. r[j] = s[j + 1] /\ r[k] = s[k + 1] /\ j + 1 \in 1 .. len /\ k + 1 \in 1 .. len /\ j + 1 < k + 1
    BY <1>3, <1>4
  <2> QED
    BY <1>4, <2>1 DEF Stream, Linked
<1>5. ASSUME NEW j \in 1 .. Len(r) - 1
      PROVE  IF Ends(r[j]) THEN Opens(r[j + 1]) ELSE r[j + 1] = Chunk(Msg(r[j]), 2)
  <2>1. j \in 1 .. len - 1 /\ j + 1 \in 1 .. len - 1
    BY <1>1, <1>3
  <2>2. r[j] = s[j + 1] /\ r[j + 1] = s[j + 1 + 1]
    BY <1>3, <2>1
  <2> QED
    BY <2>1, <2>2 DEF Stream, Linked
<1>6. r # <<>> => Ends(r[Len(r)])
  <2>1. ASSUME r # <<>> PROVE Ends(r[Len(r)])
    <3>1. len - 1 \in 1 .. len - 1 /\ len - 1 + 1 = len
      BY <1>1, <1>3, <2>1
    <3>2. r[len - 1] = s[len]
      BY <1>3, <3>1
    <3> QED
      BY <1>1, <1>3, <3>2
  <2> QED
    BY <2>1
<1>7. Stream(r)
  BY <1>3, <1>4, <1>5, <1>6 DEF Stream, Linked
<1>8. Msg(s[1]) \in Carried(s)
  BY <1>2 DEF Carried
<1>9. Carried(r) \subseteq Carried(s)
  BY <1>3 DEF Carried
<1>10. Ends(s[1]) => Precede({Msg(s[1])}, Carried(r))
  BY <1>2, <1>3 DEF Stream, Linked, Precede, Carried
<1>11. r # <<>> => 1 \in 1 .. len - 1 /\ r[1] = s[2]
  BY <1>1, <1>3
<1>12. r = <<>> => len = 1
  BY <1>1, <1>3
<1>13. r # <<>> => IF Ends(s[1]) THEN Opens(r[1]) ELSE r[1] = Chunk(Msg(s[1]), 2)
  <2>1. 1 \in 1 .. len - 1 => IF Ends(s[1]) THEN Opens(s[1 + 1]) ELSE s[1 + 1] = Chunk(Msg(s[1]), 2)
    BY DEF Stream, Linked
  <2> QED
    BY <1>11, <2>1
<1>14. ~Ends(s[1]) => r # <<>>
  BY <1>1, <1>12
<1> QED
  BY <1>2, <1>3, <1>7, <1>8, <1>9, <1>10, <1>13, <1>14

\* One chunk more.
LEMMA LinkOne ==
  ASSUME NEW s, Linked(s), NEW c \in Pieces,
         s # <<>> => IF Ends(s[Len(s)]) THEN Opens(c) ELSE c = Chunk(Msg(s[Len(s)]), 2),
         \A j \in 1 .. Len(s) : Ends(s[j]) => End(Msg(s[j])) < Start(Msg(c))
  PROVE  /\ Linked(Append(s, c)) /\ Append(s, c) # <<>> /\ Append(s, c)[Len(Append(s, c))] = c
         /\ Carried(Append(s, c)) = Carried(s) \cup {Msg(c)}
         /\ \A j \in 1 .. Len(Append(s, c)) :
              (j \in 1 .. Len(s) /\ Append(s, c)[j] = s[j]) \/ Append(s, c)[j] = c
         /\ IF s = <<>> THEN Append(s, c)[1] = c ELSE Append(s, c)[1] = s[1]
<1> DEFINE len == Len(s)
<1>1. s \in Seq(Pieces) /\ len \in Nat
  BY DEF Linked
<1>2. PICK q : /\ q = Append(s, c) /\ q \in Seq(Pieces) /\ Len(q) = len + 1 /\ q[len + 1] = c
               /\ \A i \in 1 .. len : q[i] = s[i]
  <2>1. /\ Append(s, c) \in Seq(Pieces) /\ Len(Append(s, c)) = len + 1
        /\ Append(s, c)[len + 1] = c /\ \A i \in 1 .. len : Append(s, c)[i] = s[i]
    BY <1>1, AppendProperties
  <2> QED
    BY <2>1
<1>3. \A i \in 1 .. len + 1 : i \in 1 .. len \/ i = len + 1
  BY <1>1
<1>4. ASSUME NEW j \in 1 .. len + 1, NEW k \in 1 .. len + 1, j < k, Ends(q[j])
      PROVE  End(Msg(q[j])) < Start(Msg(q[k]))
  <2>1. j \in 1 .. len
    BY <1>1, <1>4
  <2>2. CASE k \in 1 .. len
    BY <1>2, <1>4, <2>1, <2>2 DEF Linked
  <2>3. CASE k = len + 1
    BY <1>2, <1>4, <2>1, <2>3
  <2> QED
    BY <1>3, <2>2, <2>3
<1>5. ASSUME NEW j \in 1 .. len
      PROVE  IF Ends(q[j]) THEN Opens(q[j + 1]) ELSE q[j + 1] = Chunk(Msg(q[j]), 2)
  <2>1. CASE j = len
    <3>1. s # <<>> /\ q[j] = s[len] /\ q[j + 1] = c
      BY <1>1, <1>2, <2>1
    <3> QED
      BY <3>1
  <2>2. CASE j # len
    <3>1. j \in 1 .. len - 1 /\ j + 1 \in 1 .. len
      BY <1>1, <2>2
    <3>2. q[j] = s[j] /\ q[j + 1] = s[j + 1]
      BY <1>2, <3>1
    <3> QED
      BY <3>1, <3>2 DEF Linked
  <2> QED
    BY <2>1, <2>2
<1>6. Linked(q)
  <2>1. Len(q) - 1 = len
    BY <1>1, <1>2
  <2> QED
    BY <1>2, <1>4, <1>5, <2>1 DEF Linked
<1>7. Carried(q) = Carried(s) \cup {Msg(c)}
  <2>1. Carried(q) \subseteq Carried(s) \cup {Msg(c)}
    BY <1>2, <1>3 DEF Carried
  <2>2. \A i \in 1 .. len : i \in 1 .. len + 1
    BY <1>1
  <2>3. len + 1 \in 1 .. len + 1
    BY <1>1
  <2>4. Carried(s) \cup {Msg(c)} \subseteq Carried(q)
    BY <1>2, <2>2, <2>3 DEF Carried
  <2> QED
    BY <2>1, <2>4
<1>8. q # <<>> /\ q[Len(q)] = c
  BY <1>1, <1>2
<1>9. \A j \in 1 .. Len(q) : (j \in 1 .. len /\ q[j] = s[j]) \/ q[j] = c
  BY <1>2, <1>3
<1>10. IF s = <<>> THEN q[1] = c ELSE q[1] = s[1]
  BY <1>1, <1>2
<1> QED
  BY <1>2, <1>6, <1>7, <1>8, <1>9, <1>10

LEMMA ConcatOne ==
  ASSUME NEW S, NEW s \in Seq(S), NEW a \in S, NEW b \in S
  PROVE  s \o <<a>> = Append(s, a) /\ s \o <<a, b>> = Append(Append(s, a), b)
<1>1. s \o <<a>> = Append(s, a)
  OBVIOUS
<1> DEFINE p == s \o <<a, b>>
           q == Append(Append(s, a), b)
<1>2. Append(s, a) \in Seq(S) /\ Len(Append(s, a)) = Len(s) + 1 /\ Append(s, a)[Len(s) + 1] = a
      /\ \A i \in 1 .. Len(s) : Append(s, a)[i] = s[i]
  BY AppendProperties
<1>3. /\ q \in Seq(S) /\ Len(q) = Len(s) + 2 /\ q[Len(s) + 2] = b /\ q[Len(s) + 1] = a
      /\ \A i \in 1 .. Len(s) : q[i] = s[i]
  <2>1. q \in Seq(S) /\ Len(q) = Len(Append(s, a)) + 1 /\ q[Len(Append(s, a)) + 1] = b
        /\ \A i \in 1 .. Len(Append(s, a)) : q[i] = Append(s, a)[i]
    BY <1>2, AppendProperties
  <2> QED
    BY <1>2, <2>1
<1>4. <<a, b>> \in Seq(S) /\ Len(<<a, b>>) = 2 /\ <<a, b>>[1] = a /\ <<a, b>>[2] = b
  OBVIOUS
<1>5. /\ p \in Seq(S) /\ Len(p) = Len(s) + 2 /\ p[Len(s) + 2] = b /\ p[Len(s) + 1] = a
      /\ \A i \in 1 .. Len(s) : p[i] = s[i]
  BY <1>4
<1>6. \A i \in 1 .. Len(s) + 2 : i \in 1 .. Len(s) \/ i = Len(s) + 1 \/ i = Len(s) + 2
  OBVIOUS
<1>7. \A i \in 1 .. Len(p) : p[i] = q[i]
  BY <1>3, <1>5, <1>6
<1> HIDE DEF p, q
<1>8. p = q
  BY <1>3, <1>5, <1>7, SeqEqual
<1> QED
  BY <1>1, <1>8 DEF p, q

\* One message more.
LEMMA StreamGrows ==
  ASSUME NEW s, Stream(s), NEW m \in Episodes, Precede(Carried(s), {m})
  PROVE  /\ Stream(s \o AllChunks(m)) /\ Carried(s \o AllChunks(m)) = Carried(s) \cup {m}
         /\ s \o AllChunks(m) # <<>>
         /\ IF s = <<>> THEN Opens((s \o AllChunks(m))[1]) ELSE (s \o AllChunks(m))[1] = s[1]
<1> DEFINE a == Chunk(m, 1)
           b == Chunk(m, 2)
<1>1. a \in Pieces /\ Msg(a) = m /\ Opens(a) /\ (Ends(a) <=> Chunks(m) = 1)
  BY ChunksOf DEF Pieces, Chunk, Msg, Opens, Ends
<1>2. Linked(s) /\ s \in Seq(Pieces)
  BY DEF Stream, Linked
<1>3. \A j \in 1 .. Len(s) : End(Msg(s[j])) < Start(m)
  BY DEF Precede, Carried
<1> HIDE DEF a
<1>4. PICK q : q = Append(s, a)
  OBVIOUS
<1>5. /\ Linked(q) /\ q # <<>> /\ q[Len(q)] = a /\ Carried(q) = Carried(s) \cup {m}
      /\ \A j \in 1 .. Len(q) : (j \in 1 .. Len(s) /\ q[j] = s[j]) \/ q[j] = a
      /\ IF s = <<>> THEN q[1] = a ELSE q[1] = s[1]
  BY <1>1, <1>2, <1>3, <1>4, LinkOne DEF Stream
<1>6. CASE Chunks(m) = 1
  <2>1. s \o AllChunks(m) = q
    BY <1>1, <1>2, <1>4, <1>6, ConcatOne DEF AllChunks, a
  <2> QED
    BY <1>1, <1>5, <1>6, <2>1 DEF Stream
<1>7. CASE Chunks(m) = 2
  <2>1. b \in Pieces /\ Msg(b) = m /\ Ends(b)
    BY <1>7 DEF Pieces, Chunk, Msg, Ends
  <2>2. b = Chunk(Msg(a), 2) /\ ~Ends(a)
    BY <1>1, <1>7
  <2> HIDE DEF b
  <2>3. PICK r : r = Append(q, b)
    OBVIOUS
  <2>4. \A j \in 1 .. Len(q) : Ends(q[j]) => End(Msg(q[j])) < Start(Msg(b))
    BY <1>3, <1>5, <2>1, <2>2
  <2>5. /\ Linked(r) /\ r # <<>> /\ r[Len(r)] = b /\ Carried(r) = Carried(q) \cup {m}
        /\ r[1] = q[1]
    BY <1>5, <2>1, <2>2, <2>3, <2>4, LinkOne
  <2>6. s \o AllChunks(m) = r
    BY <1>1, <1>2, <1>4, <1>7, <2>1, <2>3, ConcatOne DEF AllChunks, a, b
  <2> QED
    BY <1>1, <1>5, <2>1, <2>5, <2>6 DEF Stream
<1> QED
  BY <1>6, <1>7, ChunksOf

-------------------------------------------------------------------------------
(* The stream.                                                               *)

LEMMA EmptyStream == Stream(<<>>) /\ Carried(<<>>) = {}
<1>1. <<>> \in Seq(Pieces) /\ Len(<<>>) = 0
  OBVIOUS
<1> QED
  BY <1>1 DEF Stream, Linked, Carried

LEMMA StreamLost ==
  ASSUME SenderEnds, StreamOK
  PROVE  StreamOK' /\ Coming' = {} /\ Held' = {}
<1>1. /\ sending' = <<>> /\ kept' = <<>> /\ wire' = <<>> /\ bytes_buffer' = <<>>
      /\ attempt' = attempt
  BY DEF SenderEnds
<1>2. Rest' = <<>> /\ Again' = <<>>
  BY <1>1 DEF Rest, Again
<1>3. Coming' = {} /\ Held' = {}
  BY <1>2, EmptyStream DEF Coming, Held, Carried
<1>4. Stream(Rest)' /\ Stream(Again)'
  BY <1>2, EmptyStream DEF Stream, Linked
<1> QED
  BY <1>1, <1>2, <1>3, <1>4 DEF StreamOK

\* The next message joins both streams.
LEMMA NextTaken ==
  ASSUME PipeInv, TakeTransitions
  PROVE  /\ StreamOK' /\ QueuesOK'
         /\ \E m \in Waiting : /\ Coming' = Coming \cup {m} /\ Held' \subseteq Held \cup {m}
                               /\ Waiting' \subseteq Waiting /\ Precede({m}, Waiting')
<1> DEFINE m == Head(a_transitions)
<1>1. a_transitions \in Seq(Episodes) /\ a_transitions # <<>> /\ sending = <<>>
  BY DEF PipeInv, QueuesOK, TakeTransitions
<1>2. m = a_transitions[1] /\ m \in Episodes /\ 1 \in 1 .. Len(a_transitions)
  BY <1>1, TailOf
<1>3. PICK r : /\ r = Tail(a_transitions) /\ r \in Seq(Episodes)
               /\ Len(r) = Len(a_transitions) - 1 /\ Len(a_transitions) \in Nat
               /\ \A i \in 1 .. Len(r) :
                    /\ r[i] = a_transitions[i + 1]
                    /\ i + 1 \in 1 .. Len(a_transitions) /\ 1 < i + 1
  BY <1>1, TailOf
<1>4. a_transitions' = r /\ sending' = AllChunks(m)
  BY <1>3, ChunksOf DEF TakeTransitions
<1>5. UNCHANGED <<wire, bytes_buffer, l_transitions, attempt, kept>>
  BY DEF TakeTransitions, learnerQueues
<1>6. m \in Waiting
  BY <1>2 DEF Waiting
<1> HIDE DEF m
<1>7. /\ wire \in Seq(Pieces) /\ Len(wire) <= 1 /\ kept \in Seq(Pieces)
      /\ Stream(Rest) /\ attempt \in 0 .. MaxRetries
      /\ attempt < MaxRetries => Stream(Again) /\ (Again # <<>> => Opens(Again[1]))
      /\ bytes_buffer = IF Rest = <<>> \/ Opens(Rest[1]) THEN <<>> ELSE <<<<Msg(Rest[1]), 1, 2>>>>
  BY DEF PipeInv, StreamOK
<1>8. Rest = wire /\ Again = kept
  BY <1>1, <1>7 DEF Rest, Again
<1>9. Rest' = wire \o AllChunks(m) /\ Again' = kept \o AllChunks(m)
  BY <1>4, <1>5 DEF Rest, Again
<1>10. Precede(Carried(wire), {m})
  BY <1>6, <1>8 DEF PipeInv, InOrder, Precede, Coming
<1>11. PICK p : p = wire \o AllChunks(m)
  OBVIOUS
<1>12. /\ Stream(p) /\ Carried(p) = Carried(wire) \cup {m} /\ p # <<>>
       /\ IF wire = <<>> THEN Opens(p[1]) ELSE p[1] = wire[1]
  BY <1>2, <1>7, <1>8, <1>10, <1>11, StreamGrows
<1>13. Coming' = Coming \cup {m}
  BY <1>8, <1>9, <1>11, <1>12 DEF Coming, Carried
<1>14. bytes_buffer' = IF Rest' = <<>> \/ Opens(Rest'[1]) THEN <<>> ELSE <<<<Msg(Rest'[1]), 1, 2>>>>
  BY <1>5, <1>7, <1>8, <1>9, <1>11, <1>12
<1>15. PICK q : q = kept \o AllChunks(m)
  OBVIOUS
<1>16. ASSUME attempt < MaxRetries
       PROVE  Stream(q) /\ Carried(q) = Carried(kept) \cup {m} /\ Opens(q[1])
  <2>1. Precede(Carried(kept), {m})
    BY <1>6, <1>8, <1>16 DEF PipeInv, InOrder, Precede, Held
  <2>2. /\ Stream(q) /\ Carried(q) = Carried(kept) \cup {m}
        /\ IF kept = <<>> THEN Opens(q[1]) ELSE q[1] = kept[1]
    BY <1>2, <1>7, <1>8, <1>15, <1>16, <2>1, StreamGrows
  <2> QED
    BY <1>7, <1>8, <1>16, <2>2
<1>17. Held' \subseteq Held \cup {m}
  BY <1>5, <1>8, <1>9, <1>15, <1>16 DEF Held, Carried
<1>18. AllChunks(m) \in Seq(Pieces)
  <2>1. Chunk(m, 1) \in Pieces
    BY <1>2 DEF Pieces
  <2>2. Chunks(m) = 2 => Chunk(m, 2) \in Pieces
    BY <1>2 DEF Pieces
  <2> QED
    BY <2>1, <2>2, ChunksOf DEF AllChunks
<1>19. StreamOK'
  <2>1. Stream(Rest)'
    BY <1>9, <1>11, <1>12 DEF Stream, Linked
  <2>2. attempt' < MaxRetries => Stream(Again)' /\ Opens(Again[1])'
    BY <1>5, <1>9, <1>15, <1>16 DEF Stream, Linked, Opens
  <2>3. Opens(Rest'[1]) <=> Opens(Rest[1])'
    BY DEF Opens
  <2>4. bytes_buffer' = (IF Rest = <<>> \/ Opens(Rest[1]) THEN <<>> ELSE <<<<Msg(Rest[1]), 1, 2>>>>)'
    BY <1>14, <2>3 DEF Msg
  <2> QED
    BY <1>4, <1>5, <1>7, <1>18, <2>1, <2>2, <2>4 DEF StreamOK
<1>20. \A i \in 1 .. Len(r) : i + 1 \in 1 .. Len(a_transitions) /\ 1 < i + 1
  BY <1>3
<1>21. Waiting' \subseteq Waiting
  BY <1>3, <1>4, <1>20 DEF Waiting
<1>22. Precede({m}, Waiting')
  BY <1>2, <1>3, <1>4, <1>20 DEF PipeInv, QueuesOK, Precede, Waiting
<1>23. QueuesOK'
  <2>1. \A i, j \in 1 .. Len(r) : i < j => End(r[i]) < Start(r[j])
    BY <1>3, <1>20 DEF PipeInv, QueuesOK
  <2> QED
    BY <1>3, <1>4, <1>5, <2>1 DEF PipeInv, QueuesOK, Ordered
<1> QED
  BY <1>6, <1>13, <1>17, <1>19, <1>21, <1>22, <1>23

LEMMA HeadAndTail ==
  ASSUME NEW S, NEW s \in Seq(S), s # <<>>
  PROVE  /\ <<Head(s)>> \o Tail(s) = s /\ Head(s) \in S /\ Tail(s) \in Seq(S)
         /\ \A r \in Seq(S) : Append(r, Head(s)) \o Tail(s) = r \o s
<1>1. /\ Head(s) \in S /\ Tail(s) \in Seq(S) /\ Len(Tail(s)) = Len(s) - 1 /\ Len(s) \in Nat
      /\ Head(s) = s[1] /\ \A i \in 1 .. Len(s) - 1 : Tail(s)[i] = s[i + 1]
  OBVIOUS
<1>2. <<Head(s)>> \o Tail(s) = s
  OBVIOUS
<1>3. ASSUME NEW r \in Seq(S)
      PROVE  Append(r, Head(s)) \o Tail(s) = r \o s
  <2>1. PICK t : t = Tail(s) /\ t \in Seq(S)
    BY <1>1
  <2>2. PICK h : h = Head(s) /\ h \in S
    BY <1>1
  <2>3. s = <<h>> \o t
    BY <1>2, <2>1, <2>2
  <2>4. Append(r, h) = r \o <<h>> /\ <<h>> \in Seq(S)
    BY <2>2
  <2>5. (r \o <<h>>) \o t = r \o (<<h>> \o t)
    BY <2>1, <2>4
  <2> QED
    BY <2>1, <2>2, <2>3, <2>4, <2>5
<1> QED
  BY <1>1, <1>2, <1>3

\* A chunk is sent: nothing is lost of either stream, until the call commits.
LEMMA ChunkSent ==
  ASSUME PipeInv, SendChunk
  PROVE  /\ StreamOK' /\ Coming' = Coming /\ Held' \subseteq Held
         /\ attempt' = attempt \/ (attempt < attempt' /\ attempt' = MaxRetries)
<1>1. /\ wire = <<>> /\ sending # <<>> /\ bytes_buffer' = bytes_buffer
      /\ wire' = <<Head(sending)>> /\ sending' = Tail(sending)
      /\ IF attempt < MaxRetries /\ Len(kept) < RetryBuffer
         THEN kept' = Append(kept, Head(sending)) /\ attempt' = attempt
         ELSE kept' = <<>> /\ attempt' = MaxRetries
  BY DEF SendChunk
<1>2. /\ sending \in Seq(Pieces) /\ kept \in Seq(Pieces) /\ attempt \in 0 .. MaxRetries
      /\ Stream(Rest)
      /\ attempt < MaxRetries => Stream(Again) /\ (Again # <<>> => Opens(Again[1]))
      /\ bytes_buffer = IF Rest = <<>> \/ Opens(Rest[1]) THEN <<>> ELSE <<<<Msg(Rest[1]), 1, 2>>>>
  BY DEF PipeInv, StreamOK
<1>3. /\ <<Head(sending)>> \o Tail(sending) = sending /\ Head(sending) \in Pieces
      /\ Tail(sending) \in Seq(Pieces)
      /\ Append(kept, Head(sending)) \o Tail(sending) = kept \o sending
  BY <1>1, <1>2, HeadAndTail
<1>4. Rest' = Rest
  BY <1>1, <1>2, <1>3 DEF Rest
<1>5. Coming' = Coming /\ Stream(Rest)'
  BY <1>2, <1>4 DEF Coming, Carried, Stream, Linked
<1>6. attempt' < MaxRetries => attempt' = attempt /\ Again' = Again
  <2>1. CASE attempt < MaxRetries /\ Len(kept) < RetryBuffer
    BY <1>1, <1>3, <2>1 DEF Again
  <2>2. CASE ~(attempt < MaxRetries /\ Len(kept) < RetryBuffer)
    <3>1. attempt' = MaxRetries
      BY <1>1, <2>2, Zenon
    <3> QED
      BY <3>1, RetriesBounded
  <2> QED
    BY <2>1, <2>2
<1>7. attempt' = attempt \/ (attempt < attempt' /\ attempt' = MaxRetries)
  BY <1>1, <1>2, RetriesBounded
<1>8. attempt' \in 0 .. MaxRetries
  BY <1>1, <1>2, RetriesBounded
<1>9. Held' \subseteq Held
  BY <1>6 DEF Held, Carried
<1>10. wire' \in Seq(Pieces) /\ Len(wire') = 1 /\ sending' \in Seq(Pieces) /\ kept' \in Seq(Pieces)
  <2>1. PICK h : h = Head(sending) /\ h \in Pieces
    BY <1>3
  <2>2. <<h>> \in Seq(Pieces) /\ Len(<<h>>) = 1 /\ Append(kept, h) \in Seq(Pieces) /\ <<>> \in Seq(Pieces)
    BY <1>2, <2>1
  <2> QED
    BY <1>1, <1>3, <2>1, <2>2
<1>11. attempt' < MaxRetries => Stream(Again)' /\ (Again' # <<>> => Opens(Again[1])')
  BY <1>2, <1>6 DEF Stream, Linked, Opens
<1> QED
  BY <1>1, <1>2, <1>4, <1>5, <1>7, <1>8, <1>9, <1>10, <1>11 DEF StreamOK, Opens, Msg

LEMMA SecondElement ==
  ASSUME NEW a, NEW b
  PROVE  Append(<<a>>, b) = <<a, b>>
<1> DEFINE s == Append(<<a>>, b)
<1>1. <<a>> \in Seq({a, b}) /\ Len(<<a>>) = 1 /\ <<a>>[1] = a
  OBVIOUS
<1>2. s \in Seq({a, b}) /\ Len(s) = 2 /\ s[1] = a /\ s[2] = b
  BY <1>1
<1>3. <<a, b>> \in Seq({a, b}) /\ Len(<<a, b>>) = 2 /\ <<a, b>>[1] = a /\ <<a, b>>[2] = b
  OBVIOUS
<1>4. \A i \in 1 .. Len(s) : s[i] = <<a, b>>[i]
  BY <1>2, <1>3
<1> HIDE DEF s
<1>5. s = <<a, b>>
  BY <1>2, <1>3, <1>4, SeqEqual
<1> QED
  BY <1>5 DEF s

\* A chunk arrives, and with the last one the whole message.
LEMMA ChunkReceived ==
  ASSUME PipeInv, ReceiveChunk, ~l_shutdown
  PROVE  /\ StreamOK' /\ attempt' = attempt /\ Coming' \subseteq Coming /\ Held' \subseteq Held
         /\ \/ l_transitions' = l_transitions
            \/ \E m \in Coming :
                 /\ m \in Episodes /\ Precede({m}, Coming')
                 /\ l_transitions' = Append(l_transitions, [bytes |-> Bytes(m), attempt |-> attempt])
<1>1. /\ wire \in Seq(Pieces) /\ wire # <<>> /\ Len(wire) <= 1
      /\ sending \in Seq(Pieces) /\ kept \in Seq(Pieces) /\ attempt \in 0 .. MaxRetries
      /\ Stream(Rest)
      /\ attempt < MaxRetries => Stream(Again) /\ (Again # <<>> => Opens(Again[1]))
      /\ bytes_buffer = IF Rest = <<>> \/ Opens(Rest[1]) THEN <<>> ELSE <<<<Msg(Rest[1]), 1, 2>>>>
  BY DEF PipeInv, StreamOK, ReceiveChunk
<1>2. PICK c \in Pieces : wire = <<c>>
  <2>1. Len(wire) = 1
    <3>1. wire \in Seq(Pieces) /\ wire # <<>> /\ Len(wire) <= 1
      BY <1>1
    <3>2. 1 \in 1 .. Len(wire) /\ Len(wire) \in Nat
      BY <3>1, TailOf, Zenon
    <3>3. PICK k \in Nat : k = Len(wire) /\ k <= 1 /\ 1 \in 1 .. k
      BY <3>1, <3>2, Zenon
    <3> QED
      BY <3>3
  <2>2. wire[1] \in Pieces /\ wire = <<wire[1]>>
    BY <1>1, <2>1
  <2> QED
    BY <2>2
<1> DEFINE received == receive_bytes_in_chunks(bytes_buffer, c)
           m == Msg(c)
<1>3. /\ wire' = <<>> /\ bytes_buffer' = received.bytes_buffer
      /\ l_transitions' = IF received.complete = <<>> THEN l_transitions
           ELSE Append(l_transitions, [bytes |-> received.complete[1], attempt |-> attempt])
      /\ sending' = sending /\ attempt' = attempt /\ kept' = kept
  BY <1>2 DEF ReceiveChunk
<1>4. Rest = <<c>> \o sending /\ Rest # <<>> /\ Rest[1] = c /\ Tail(Rest) = sending
  BY <1>1, <1>2 DEF Rest
<1>5. Rest' = sending /\ Again' = Again
  BY <1>1, <1>3 DEF Rest, Again
<1>6. /\ Stream(sending) /\ m \in Carried(Rest) /\ Carried(sending) \subseteq Carried(Rest)
      /\ Ends(c) => Precede({m}, Carried(sending))
      /\ Ends(c) /\ sending # <<>> => Opens(sending[1])
      /\ ~Ends(c) => sending # <<>> /\ sending[1] = Chunk(m, 2)
  BY <1>1, <1>4, StreamTail
<1>7. /\ m \in Episodes
      /\ \/ Chunks(m) = 1 /\ c = Chunk(m, 1) /\ Opens(c) /\ Ends(c)
         \/ Chunks(m) = 2 /\ c = Chunk(m, 1) /\ Opens(c) /\ ~Ends(c)
         \/ Chunks(m) = 2 /\ c = Chunk(m, 2) /\ ~Opens(c) /\ Ends(c)
  BY <1>2, PieceIs
<1>8. m \in Coming /\ Coming' = Carried(sending) /\ Coming' \subseteq Coming /\ Held' = Held
  BY <1>3, <1>5, <1>6 DEF Coming, Held, Carried
<1> HIDE DEF m
<1>9. IF Ends(c) THEN received.bytes_buffer = <<>> /\ received.complete = <<Bytes(m)>>
      ELSE received.bytes_buffer = <<<<m, 1, 2>>>> /\ received.complete = <<>>
  <2>1. CASE Chunks(m) = 1 /\ c = Chunk(m, 1) /\ Opens(c) /\ Ends(c)
    <3>1. bytes_buffer = <<>> /\ Append(<<>>, <<m, 1, 1>>) = <<<<m, 1, 1>>>>
      BY <1>1, <1>4, <2>1
    <3> QED
      BY <2>1, <3>1 DEF receive_bytes_in_chunks, Chunk, Bytes
  <2>2. CASE Chunks(m) = 2 /\ c = Chunk(m, 1) /\ Opens(c) /\ ~Ends(c)
    BY <2>2 DEF receive_bytes_in_chunks, Chunk
  <2>3. CASE Chunks(m) = 2 /\ c = Chunk(m, 2) /\ ~Opens(c) /\ Ends(c)
    <3>1. bytes_buffer = <<<<m, 1, 2>>>>
      BY <1>1, <1>4, <2>3 DEF m
    <3>2. Append(<<<<m, 1, 2>>>>, <<m, 2, 2>>) = <<<<m, 1, 2>>, <<m, 2, 2>>>>
      BY SecondElement
    <3> QED
      BY <2>3, <3>1, <3>2 DEF receive_bytes_in_chunks, Chunk, Bytes
  <2> QED
    BY <1>7, <2>1, <2>2, <2>3
<1>10. sending # <<>> => IF Ends(c) THEN Opens(sending[1]) ELSE ~Opens(sending[1]) /\ Msg(sending[1]) = m
  BY <1>6 DEF Chunk, Opens, Msg, m
<1>11. bytes_buffer' = IF sending = <<>> \/ Opens(sending[1]) THEN <<>> ELSE <<<<Msg(sending[1]), 1, 2>>>>
  BY <1>3, <1>6, <1>9, <1>10
<1>12. StreamOK'
  <2>1. Stream(Rest)' /\ Stream(Again)' = Stream(Again)
    BY <1>5, <1>6 DEF Stream, Linked
  <2>2. bytes_buffer' = (IF Rest = <<>> \/ Opens(Rest[1]) THEN <<>> ELSE <<<<Msg(Rest[1]), 1, 2>>>>)'
    BY <1>5, <1>11 DEF Msg, Opens
  <2>3. wire' \in Seq(Pieces) /\ Len(wire') = 0
    BY <1>3
  <2>4. attempt' < MaxRetries => Stream(Again)' /\ (Again' # <<>> => Opens(Again[1])')
    BY <1>1, <1>3, <1>5, <2>1 DEF Opens
  <2> QED
    BY <1>1, <1>3, <2>1, <2>2, <2>3, <2>4 DEF StreamOK
<1>13. CASE Ends(c)
  <2>1. l_transitions' = Append(l_transitions, [bytes |-> Bytes(m), attempt |-> attempt])
    BY <1>3, <1>9, <1>13
  <2>2. Precede({m}, Coming')
    BY <1>6, <1>8, <1>13 DEF m
  <2> QED
    BY <1>3, <1>7, <1>8, <1>12, <2>1, <2>2 DEF m
<1>14. CASE ~Ends(c)
  BY <1>3, <1>8, <1>9, <1>12, <1>14
<1> QED
  BY <1>13, <1>14

\* The channel starts its stream again.
LEMMA StreamAgain ==
  ASSUME PipeInv, TransitionsRetried
  PROVE  /\ StreamOK' /\ attempt < attempt' /\ Coming' \subseteq Held /\ Held' \subseteq Held
<1>1. /\ attempt < MaxRetries /\ attempt' = attempt + 1 /\ sending' = Again
      /\ kept' = <<>> /\ wire' = <<>> /\ bytes_buffer' = <<>>
  BY DEF TransitionsRetried, Again
<1>2. /\ sending \in Seq(Pieces) /\ kept \in Seq(Pieces) /\ attempt \in 0 .. MaxRetries
      /\ Stream(Again) /\ (Again # <<>> => Opens(Again[1]))
  BY <1>1 DEF PipeInv, StreamOK
<1>3. Again \in Seq(Pieces)
  BY <1>2 DEF Again
<1>4. Rest' = Again /\ Again' = Again
  BY <1>1, <1>2, <1>3 DEF Rest, Again
<1>5. attempt' \in 0 .. MaxRetries /\ attempt < attempt'
  BY <1>1, <1>2, RetriesBounded
<1>6. Coming' \subseteq Held /\ Held' \subseteq Held
  BY <1>1, <1>4 DEF Coming, Held, Carried
<1>7. Stream(Rest)' /\ Stream(Again)'
  BY <1>2, <1>4 DEF Stream, Linked
<1>8. Again' # <<>> => Opens(Again[1])'
  BY <1>2, <1>4 DEF Opens
<1>9. bytes_buffer' = (IF Rest = <<>> \/ Opens(Rest[1]) THEN <<>> ELSE <<<<Msg(Rest[1]), 1, 2>>>>)'
  BY <1>1, <1>2, <1>4 DEF Opens
<1> QED
  BY <1>1, <1>3, <1>5, <1>6, <1>7, <1>8, <1>9 DEF StreamOK

-------------------------------------------------------------------------------
(* Every step preserves the invariant.                                       *)

\* Every message is an episode.
LEMMA EpisodeEnds ==
  ASSUME NEW m, Episode(m)
  PROVE  m[1] \in Transition /\ Start(m) \in Nat /\ End(m) \in Nat /\ m # <<>>
<1>1. m[1] \in Transition /\ m[Len(m)] \in Transition
  BY DEF Episode
<1> QED
  BY <1>1 DEF Start, End, Transition, Episode

LEMMA CarriedAreEpisodes ==
  ASSUME NEW s \in Seq(Pieces)
  PROVE  Carried(s) \subseteq Episodes
BY PieceIs DEF Carried

LEMMA MessagesAreEpisodes ==
  ASSUME PipeInv, NEW m \in Messages
  PROVE  Episode(m) /\ m # <<>> /\ m[1] \in Transition /\ Start(m) \in Nat /\ End(m) \in Nat
<1>1. CASE m \in Received
  <2>1. PICK i \in 1 .. Len(l_transitions) : m = Message(l_transitions[i])
    BY <1>1 DEF Received
  <2>2. l_transitions[i] \in Entries
    BY <2>1 DEF PipeInv, QueuesOK
  <2> QED
    BY <2>1, <2>2, BytesOfMessage, EpisodeEnds
<1>2. CASE m \in Coming \cup Held
  <2>1. Rest \in Seq(Pieces) /\ (attempt < MaxRetries => Again \in Seq(Pieces))
    BY DEF PipeInv, StreamOK, Stream, Linked
  <2>2. m \in Episodes
    BY <1>2, <2>1, CarriedAreEpisodes DEF Coming, Held
  <2> QED
    BY <2>2, EpisodeEnds DEF Episodes
<1>3. CASE m \in Waiting
  <2>1. m \in Episodes
    BY <1>3 DEF Waiting, PipeInv, QueuesOK
  <2> QED
    BY <2>1, EpisodeEnds DEF Episodes
<1> QED
  BY <1>1, <1>2, <1>3 DEF Messages

\* The learner's side does not change, and messages move on or are lost.
LEMMA MessagesMove ==
  ASSUME PipeInv, UNCHANGED <<actor, obs, unsent, batch, tried, last, repeats>>,
         QueuesOK', StreamOK', InOrder', Behind', Messages' \subseteq Messages,
         \/ attempt' = attempt /\ (Coming \cup Waiting)' \subseteq Coming \cup Waiting
         \/ attempt < attempt'
  PROVE  PipeInv'
<1>1. UnsentOK' /\ First' = First /\ (Acting' <=> Acting)
  BY DEF PipeInv, UnsentOK, First, Acting
<1>2. BatchOK'
  BY DEF PipeInv, BatchOK, GoesBack
<1>3. \A x : After(x)' <=> After(x)
  BY DEF After
<1>4. tried \in 0 .. MaxRetries /\ attempt \in 0 .. MaxRetries /\ attempt' \in 0 .. MaxRetries /\ tried <= attempt
  BY DEF PipeInv, BatchOK, StreamOK, InTime
<1>5. tried' = tried /\ tried' <= attempt' /\ (tried' = attempt' => tried = attempt /\ attempt' = attempt)
  <2>1. tried' = tried
    OBVIOUS
  <2>2. CASE attempt' = attempt
    BY <1>4, <2>1, <2>2
  <2>3. CASE attempt < attempt'
    BY <1>4, <2>1, <2>3, RetriesBounded
  <2> QED
    BY <2>1, <2>2, <2>3
<1>6. tried' = attempt' => (Coming \cup Waiting)' \subseteq Coming \cup Waiting
  BY <1>4, <1>5
<1>7. InTime'
  BY <1>1, <1>3, <1>5, <1>6 DEF PipeInv, InTime
<1> QED
  BY <1>1, <1>2, <1>7 DEF PipeInv

\* No message of an attempt that has just begun has been received.
LEMMA NothingYet ==
  ASSUME PipeInv, UNCHANGED <<l_transitions, batch, tried, last>>,
         attempt' \in 0 .. MaxRetries, attempt' = attempt \/ attempt < attempt'
  PROVE  Received' \subseteq Received /\ Behind' /\ (attempt < attempt' => Received' = {})
<1>1. \A i \in 1 .. Len(l_transitions) : l_transitions[i].attempt \in 0 .. MaxRetries
  <2>1. ASSUME NEW i \in 1 .. Len(l_transitions) PROVE l_transitions[i] \in Entries
    BY DEF PipeInv, QueuesOK
  <2> QED
    BY <2>1, BytesOfMessage
<1>2. attempt \in 0 .. MaxRetries
  BY DEF PipeInv, StreamOK
<1>3. \A i \in 1 .. Len(l_transitions) :
        l_transitions[i].attempt <= attempt /\ l_transitions[i].attempt <= attempt'
  BY <1>1, <1>2, RetriesBounded DEF PipeInv, Behind
<1>4. \A x : After(x)' <=> After(x)
  BY DEF After
<1>5. Behind'
  BY <1>3, <1>4 DEF PipeInv, Behind
<1>6. attempt < attempt' => \A i \in 1 .. Len(l_transitions) : l_transitions[i].attempt # attempt'
  BY <1>1, <1>2, <1>3, RetriesBounded
<1> QED
  BY <1>5, <1>6 DEF Received

LEMMA TakeStep == PipeInv /\ TakeTransitions => PipeInv'
<1> SUFFICES ASSUME PipeInv, TakeTransitions PROVE PipeInv'
  OBVIOUS
<1>1. UNCHANGED <<actor, obs, unsent, batch, tried, last, repeats, attempt, l_transitions>>
  BY DEF TakeTransitions, actorVars, learnerVars, learnerQueues, replayVars
<1>2. StreamOK' /\ QueuesOK'
  BY NextTaken
<1>3. PICK m \in Waiting : /\ Coming' = Coming \cup {m} /\ Held' \subseteq Held \cup {m}
                          /\ Waiting' \subseteq Waiting /\ Precede({m}, Waiting')
  BY NextTaken
<1>4. Received' = Received /\ Behind'
  BY <1>1 DEF Received, Behind, After, PipeInv
<1>5. InOrder' /\ Messages' \subseteq Messages /\ (Coming \cup Waiting)' \subseteq Coming \cup Waiting
  BY <1>3, <1>4 DEF PipeInv, InOrder, Precede, Messages
<1> QED
  BY <1>1, <1>2, <1>4, <1>5, MessagesMove

LEMMA SendStep == PipeInv /\ SendChunk => PipeInv'
<1> SUFFICES ASSUME PipeInv, SendChunk PROVE PipeInv'
  OBVIOUS
<1>1. UNCHANGED <<actor, obs, unsent, batch, tried, last, repeats, a_transitions, l_transitions>>
  BY DEF SendChunk, actorVars, actorQueues, learnerVars, learnerQueues, replayVars
<1>2. /\ StreamOK' /\ Coming' = Coming /\ Held' \subseteq Held
      /\ (attempt' = attempt \/ attempt < attempt') /\ attempt' \in 0 .. MaxRetries
  BY ChunkSent DEF StreamOK
<1>3. attempt' \in 0 .. MaxRetries
  BY <1>2 DEF StreamOK
<1>4. Received' \subseteq Received /\ Behind'
  BY <1>1, <1>2, <1>3, NothingYet
<1>5. Waiting' = Waiting /\ QueuesOK'
  BY <1>1 DEF Waiting, PipeInv, QueuesOK, Ordered
<1>6. InOrder' /\ Messages' \subseteq Messages
  BY <1>2, <1>4, <1>5 DEF PipeInv, InOrder, Precede, Messages
<1> QED
  BY <1>1, <1>2, <1>4, <1>5, <1>6, MessagesMove

LEMMA RetryStep == PipeInv /\ TransitionsRetried => PipeInv'
<1> SUFFICES ASSUME PipeInv, TransitionsRetried PROVE PipeInv'
  OBVIOUS
<1>1. UNCHANGED <<actor, obs, unsent, batch, tried, last, repeats, a_transitions, l_transitions>>
  BY DEF TransitionsRetried, actorVars, actorQueues, learnerVars, learnerQueues, replayVars
<1>2. StreamOK' /\ attempt < attempt' /\ Coming' \subseteq Held /\ Held' \subseteq Held
  BY StreamAgain
<1>3. attempt' \in 0 .. MaxRetries
  BY <1>2 DEF StreamOK
<1>4. Received' = {} /\ Behind'
  BY <1>1, <1>2, <1>3, NothingYet
<1>5. Waiting' = Waiting /\ QueuesOK'
  BY <1>1 DEF Waiting, PipeInv, QueuesOK, Ordered
<1>6. InOrder' /\ Messages' \subseteq Messages
  BY <1>2, <1>4, <1>5 DEF PipeInv, InOrder, Precede, Messages
<1> QED
  BY <1>1, <1>2, <1>4, <1>5, <1>6, MessagesMove

LEMMA BrokenStream ==
  ASSUME PipeInv, SenderEnds,
         UNCHANGED <<actor, obs, unsent, batch, tried, last, repeats, a_transitions, l_transitions>>
  PROVE  PipeInv'
<1>1. StreamOK' /\ Coming' = {} /\ Held' = {} /\ attempt' = attempt
  BY StreamLost DEF PipeInv, SenderEnds
<1>2. Received' = Received /\ Waiting' = Waiting /\ QueuesOK' /\ Behind'
  BY <1>1 DEF Received, Waiting, PipeInv, QueuesOK, Ordered, Behind, After
<1>3. InOrder' /\ Messages' \subseteq Messages /\ (Coming \cup Waiting)' \subseteq Coming \cup Waiting
  BY <1>1, <1>2 DEF PipeInv, InOrder, Precede, Messages
<1> QED
  BY <1>1, <1>2, <1>3, MessagesMove

LEMMA ReceiveStep == PipeInv /\ ReceiveChunk => PipeInv'
<1> SUFFICES ASSUME PipeInv, ReceiveChunk PROVE PipeInv'
  OBVIOUS
<1>1. UNCHANGED <<actor, obs, unsent, batch, tried, last, repeats, a_transitions>>
  BY DEF ReceiveChunk, actorVars, actorQueues, learnerVars, replayVars
<1>2. CASE l_shutdown
  BY <1>1, <1>2, BrokenStream DEF ReceiveChunk
<1>3. CASE ~l_shutdown
  <2>1. StreamOK' /\ attempt' = attempt /\ Coming' \subseteq Coming /\ Held' \subseteq Held
    BY <1>3, ChunkReceived
  <2>2. Waiting' = Waiting /\ \A x : After(x)' <=> After(x)
    BY <1>1 DEF Waiting, After
  <2>3. CASE l_transitions' = l_transitions
    <3>1. Received' = Received /\ QueuesOK' /\ Behind'
      BY <1>1, <2>1, <2>2, <2>3 DEF Received, PipeInv, QueuesOK, Ordered, Behind
    <3>2. InOrder' /\ Messages' \subseteq Messages
      BY <2>1, <2>2, <3>1 DEF PipeInv, InOrder, Precede, Messages
    <3> QED
      BY <1>1, <2>1, <2>2, <3>1, <3>2, MessagesMove
  <2>4. CASE l_transitions' # l_transitions
    <3> DEFINE len == Len(l_transitions)
               q == l_transitions'
    <3>1. PICK m \in Coming :
            /\ m \in Episodes /\ Precede({m}, Coming')
            /\ q = Append(l_transitions, [bytes |-> Bytes(m), attempt |-> attempt])
      BY <1>3, <2>4, ChunkReceived
    <3>2. PICK e : e = [bytes |-> Bytes(m), attempt |-> attempt]
      OBVIOUS
    <3>3. e \in Entries /\ Message(e) = m /\ e.attempt = attempt
      BY <3>1, <3>2, ChunksOf DEF Entries, MessageBytes, Message, PipeInv, StreamOK
    <3>4. l_transitions \in Seq(Entries) /\ len \in Nat
      BY DEF PipeInv, QueuesOK
    <3>5. /\ q \in Seq(Entries) /\ Len(q) = len + 1 /\ q[len + 1] = e
          /\ \A i \in 1 .. len : q[i] = l_transitions[i]
      BY <3>1, <3>2, <3>3, <3>4, AppendProperties
    <3>6. \A i \in 1 .. len + 1 : i \in 1 .. len \/ i = len + 1
      BY <3>4
    <3> HIDE DEF q
    <3>7. Received' \subseteq Received \cup {m}
      BY <2>1, <3>3, <3>5, <3>6 DEF Received, q
    <3>8. ASSUME NEW i \in 1 .. len
          PROVE  Ordered(l_transitions[i], e)
      <4>1. /\ l_transitions[i].attempt <= attempt /\ l_transitions[i].attempt \in 0 .. MaxRetries
            /\ attempt \in 0 .. MaxRetries
        BY <3>4, BytesOfMessage DEF PipeInv, Behind, StreamOK
      <4>2. l_transitions[i].attempt = attempt => Message(l_transitions[i]) \in Received
        BY DEF Received
      <4>3. l_transitions[i].attempt = attempt => End(Message(l_transitions[i])) < Start(m)
        BY <3>1, <4>2 DEF PipeInv, InOrder, Precede
      <4> QED
        BY <3>3, <4>1, <4>3, RetriesBounded DEF Ordered
    <3>9. ASSUME NEW i \in 1 .. len + 1, NEW j \in 1 .. len + 1, i < j
          PROVE  Ordered(q[i], q[j])
      <4>1. i \in 1 .. len
        BY <3>4, <3>9
      <4>2. CASE j \in 1 .. len
        BY <3>5, <3>9, <4>1, <4>2 DEF PipeInv, QueuesOK
      <4>3. CASE j = len + 1
        BY <3>5, <3>8, <4>1, <4>3
      <4> QED
        BY <3>6, <4>2, <4>3
    <3>10. QueuesOK'
      BY <1>1, <3>5, <3>9 DEF PipeInv, QueuesOK, Ordered, Message, q
    <3>11. tried = attempt => After(Start(m))
      BY <3>1 DEF PipeInv, InTime
    <3>12. ASSUME NEW i \in 1 .. len + 1
           PROVE  /\ tried <= q[i].attempt /\ q[i].attempt <= attempt
                  /\ q[i].attempt = tried => After(Start(Message(q[i])))
      <4>1. CASE i \in 1 .. len
        BY <3>5, <4>1 DEF PipeInv, Behind
      <4>2. CASE i = len + 1
        BY <3>3, <3>5, <3>11, <4>2 DEF PipeInv, InTime, StreamOK
      <4> QED
        BY <3>6, <4>1, <4>2
    <3>13. Behind'
      BY <1>1, <2>1, <2>2, <3>5, <3>12 DEF Behind, Message, q
    <3>14. InOrder' /\ Messages' \subseteq Messages
      BY <2>1, <2>2, <3>1, <3>7 DEF PipeInv, InOrder, Precede, Messages
    <3> QED
      BY <1>1, <2>1, <2>2, <3>10, <3>13, <3>14, MessagesMove
  <2> QED
    BY <2>3, <2>4
<1> QED
  BY <1>2, <1>3

LEMMA NextMessageStep == PipeInv /\ NextMessage => PipeInv'
<1> SUFFICES ASSUME PipeInv, NextMessage PROVE PipeInv'
  OBVIOUS
<1> DEFINE e == Head(l_transitions)
           m == Message(e)
<1>1. /\ UNCHANGED <<actor, obs, unsent, last, repeats, a_transitions, sending, attempt, kept, wire,
                     bytes_buffer>>
      /\ l_transitions # <<>> /\ batch = <<>> /\ batch' = m /\ tried' = e.attempt
      /\ l_transitions' = Tail(l_transitions)
  BY DEF NextMessage, actorVars, actorQueues, streamVars, replayVars, Message
<1>2. l_transitions \in Seq(Entries)
  BY DEF PipeInv, QueuesOK
<1>3. PICK r : /\ r = Tail(l_transitions) /\ r \in Seq(Entries)
               /\ Len(r) = Len(l_transitions) - 1
               /\ \A i \in 1 .. Len(r) :
                    /\ r[i] = l_transitions[i + 1]
                    /\ i + 1 \in 1 .. Len(l_transitions) /\ 1 < i + 1
  BY <1>1, <1>2, TailOf
<1>4. 1 \in 1 .. Len(l_transitions) /\ e = l_transitions[1] /\ e \in Entries
  BY <1>1, <1>2, TailOf
<1>5. /\ tried <= e.attempt /\ e.attempt <= attempt /\ e.attempt \in 0 .. MaxRetries
      /\ e.attempt = tried => After(Start(m))
      /\ tried \in 0 .. MaxRetries /\ attempt \in 0 .. MaxRetries
  BY <1>4, BytesOfMessage DEF PipeInv, Behind, BatchOK, StreamOK
<1>6. e.attempt = attempt => m \in Received
  BY <1>4 DEF Received
<1>7. Episode(m) /\ m # <<>> /\ m[1] \in Transition /\ Start(m) \in Nat /\ End(m) \in Nat
  BY <1>4, BytesOfMessage, EpisodeEnds
<1>8. /\ Coming' = Coming /\ Held' = Held /\ Waiting' = Waiting /\ Rest' = Rest /\ Again' = Again
  BY <1>1 DEF Coming, Held, Waiting, Rest, Again
<1>9. StreamOK'
  BY <1>1, <1>8 DEF PipeInv, StreamOK, Stream, Linked
<1>10. \A i \in 1 .. Len(r) : r[i] = l_transitions[i + 1] /\ i + 1 \in 1 .. Len(l_transitions) /\ 1 < i + 1
  BY <1>3
<1>11. Received' \subseteq Received
  BY <1>1, <1>3, <1>10 DEF Received
<1>12. QueuesOK'
  <2>1. \A i, j \in 1 .. Len(r) : i < j => Ordered(r[i], r[j])
    BY <1>3, <1>10 DEF PipeInv, QueuesOK
  <2>2. l_transitions' = r /\ a_transitions' = a_transitions
    BY <1>1, <1>3
  <2>3. (\A i, j \in 1 .. Len(l_transitions) : i < j => Ordered(l_transitions[i], l_transitions[j]))'
    BY <2>1, <2>2 DEF Ordered, Message
  <2>4. (\A i, j \in 1 .. Len(a_transitions) : i < j => End(a_transitions[i]) < Start(a_transitions[j]))'
    BY <2>2 DEF PipeInv, QueuesOK
  <2> QED
    BY <1>3, <2>2, <2>3, <2>4 DEF PipeInv, QueuesOK
<1>13. InOrder' /\ Messages' \subseteq Messages
  BY <1>8, <1>11 DEF PipeInv, InOrder, Precede, Messages
<1>14. UnsentOK' /\ First' = First /\ (Acting' <=> Acting)
  BY <1>1 DEF PipeInv, UnsentOK, First, Acting
<1> HIDE DEF m, e
<1>15. BatchOK'
  <2>1. /\ last # <<>> => last[1].ends /\ last[1].next_state \in Nat
        /\ repeats \in 0 .. tried
    BY <1>1 DEF PipeInv, BatchOK
  <2>2. GoesBack(m[1]) => repeats < e.attempt
    <3>1. CASE e.attempt = tried
      <4>1. last # <<>> => last[1].next_state < Start(m)
        BY <1>1, <1>5, <3>1 DEF After
      <4>2. ~GoesBack(m[1])
        BY <1>7, <2>1, <4>1 DEF GoesBack, Start
      <4> QED
        BY <4>2
    <3>2. CASE e.attempt # tried
      BY <1>5, <2>1, <3>2, RetriesBounded
    <3> QED
      BY <3>1, <3>2
  <2>3. (GoesBack(batch[1]))' <=> GoesBack(m[1])
    BY <1>1 DEF GoesBack
  <2>4. repeats' \in 0 .. tried'
    BY <1>1, <1>5, <2>1, RetriesBounded
  <2> QED
    BY <1>1, <1>5, <1>7, <2>1, <2>2, <2>3, <2>4 DEF BatchOK
<1>16. \A x : End(m) < x => After(x)'
  BY <1>1, <1>7 DEF After
<1>17. Behind'
  <2>1. ASSUME NEW i \in 1 .. Len(r)
        PROVE  /\ e.attempt <= r[i].attempt /\ r[i].attempt <= attempt
               /\ r[i].attempt = e.attempt => End(m) < Start(Message(r[i]))
    <3>1. Ordered(e, r[i]) /\ r[i].attempt <= attempt /\ r[i] \in Entries
      BY <1>3, <1>4, <1>10 DEF PipeInv, QueuesOK, Behind
    <3>2. r[i].attempt \in 0 .. MaxRetries
      BY <3>1, BytesOfMessage
    <3> QED
      BY <1>5, <3>1, <3>2, RetriesBounded DEF Ordered, m
  <2>2. l_transitions' = r
    BY <1>1, <1>3
  <2> QED
    BY <1>1, <1>16, <2>1, <2>2 DEF Behind, Message
<1>18. InTime'
  <2>1. tried' = attempt' => \A x \in (Coming \cup Waiting)' : After(Start(x))'
    <3>1. ASSUME e.attempt = attempt, NEW x \in Coming \cup Waiting PROVE End(m) < Start(x)
      BY <1>6, <3>1 DEF PipeInv, InOrder, Precede
    <3> QED
      BY <1>1, <1>8, <1>16, <3>1
  <2>2. Acting /\ e.attempt = attempt => End(m) < First
    BY <1>6 DEF PipeInv, InTime, Messages
  <2>3. tried' <= attempt'
    BY <1>1, <1>5
  <2> QED
    BY <1>1, <1>13, <1>14, <1>16, <2>1, <2>2, <2>3 DEF PipeInv, InTime
<1> QED
  BY <1>9, <1>12, <1>13, <1>14, <1>15, <1>17, <1>18 DEF PipeInv

LEMMA ProcessStep ==
  ASSUME PipeInv, ProcessTransition
  PROVE  Fed(last'[1]) /\ last' # <<>> /\ PipeInv'
<1> DEFINE t == Head(batch)
<1>1. /\ UNCHANGED <<actor, obs, unsent, a_transitions, l_transitions, sending, attempt, kept, wire,
                     bytes_buffer, tried>>
      /\ batch # <<>> /\ last' = <<t>> /\ batch' = Tail(batch) /\ (add(t) \/ skip(t))
      /\ repeats' = IF GoesBack(t) THEN repeats + 1 ELSE repeats
  BY DEF ProcessTransition, actorVars, actorQueues, streamVars, learnerQueues, add, skip, Take
<1>2. /\ Episode(batch)
      /\ last # <<>> => last[1].ends \/ Start(batch) = last[1].next_state
      /\ GoesBack(batch[1]) => repeats < tried
      /\ tried \in 0 .. MaxRetries /\ repeats \in 0 .. tried
  BY <1>1 DEF PipeInv, BatchOK
<1>3. /\ t = batch[1] /\ t \in Transition
      /\ batch' = <<>> => t.ends /\ End(batch) = t.next_state
      /\ batch' # <<>> => /\ Episode(batch') /\ End(batch') = End(batch)
                         /\ ~t.ends /\ Start(batch') = t.next_state
  BY <1>1, <1>2, EpisodeTail
<1>4. Fed(last'[1]) /\ last' # <<>>
  <2>1. Follows(t)
    <3>1. last # <<>> => last[1].ends \/ t.state = last[1].next_state
      BY <1>2, <1>3 DEF Start
    <3>2. GoesBack(t) => repeats < MaxRepeats
      BY <1>2, <1>3, RetriesBounded
    <3> QED
      BY <3>1, <3>2 DEF Follows
  <2> QED
    BY <1>1, <1>3, <2>1 DEF Fed
<1>5. BatchOK'
  <2>1. repeats' \in 0 .. tried'
    BY <1>1, <1>2, <1>3, RetriesBounded
  <2>2. last'[1] = t /\ t.next_state \in Nat /\ t.ends \in BOOLEAN
    BY <1>1, <1>3 DEF Transition
  <2>3. batch' # <<>> => ~(GoesBack(batch[1]))'
    BY <1>3, <2>2 DEF GoesBack
  <2>4. batch' # <<>> => Episode(batch)' /\ Start(batch)' = last'[1].next_state
    BY <1>3, <2>2 DEF Episode, Start
  <2>5. batch' = <<>> => last'[1].ends
    BY <1>3, <2>2
  <2> QED
    BY <1>1, <1>2, <2>1, <2>2, <2>3, <2>4, <2>5 DEF BatchOK
<1>6. \A x : After(x) => After(x)'
  BY <1>1, <1>3 DEF After
<1>7. UnsentOK' /\ First' = First /\ (Acting' <=> Acting)
  BY <1>1 DEF PipeInv, UnsentOK, First, Acting
<1>8. Rest' = Rest /\ Again' = Again
  BY <1>1 DEF Rest, Again
<1>9. Received' = Received /\ Coming' = Coming /\ Held' = Held /\ Waiting' = Waiting
  BY <1>1, <1>8 DEF Received, Coming, Held, Waiting
<1>10. StreamOK'
  BY <1>1, <1>8 DEF PipeInv, StreamOK, Stream, Linked
<1>11. QueuesOK'
  BY <1>1 DEF PipeInv, QueuesOK, Ordered
<1>12. InOrder' /\ Messages' = Messages
  BY <1>9 DEF PipeInv, InOrder, Messages
<1>13. InTime' /\ Behind'
  BY <1>1, <1>6, <1>7, <1>9, <1>12 DEF PipeInv, InTime, Behind
<1> QED
  BY <1>4, <1>5, <1>7, <1>10, <1>11, <1>12, <1>13 DEF PipeInv

\* What is between the actor's list and the replay buffer does not change.
pastVars ==
  <<a_transitions, l_transitions, sending, attempt, kept, wire, bytes_buffer, batch, tried, last, repeats>>

LEMMA ActorMoves ==
  ASSUME PipeInv, UnsentOK', Acting' => Acting /\ First' = First, UNCHANGED pastVars
  PROVE  PipeInv'
<1>1. Rest' = Rest /\ Again' = Again
  BY DEF Rest, Again, pastVars
<1>2. /\ Received' = Received /\ Coming' = Coming /\ Held' = Held /\ Waiting' = Waiting
      /\ StreamOK' /\ QueuesOK'
  BY <1>1 DEF Received, Coming, Held, Waiting, PipeInv, StreamOK, Stream, Linked, QueuesOK, Ordered, pastVars
<1>3. InOrder' /\ Messages' = Messages
  BY <1>2 DEF PipeInv, InOrder, Messages
<1>4. BatchOK' /\ \A x : After(x)' <=> After(x)
  BY DEF PipeInv, BatchOK, GoesBack, After, pastVars
<1>5. InTime' /\ Behind'
  BY <1>2, <1>3, <1>4 DEF PipeInv, InTime, Behind, pastVars
<1> QED
  BY <1>2, <1>3, <1>4, <1>5 DEF PipeInv

LEMMA FirstIsNat ==
  ASSUME UnsentOK
  PROVE  First \in Nat
<1>1. CASE unsent = <<>>
  BY <1>1 DEF UnsentOK, First
<1>2. CASE unsent # <<>>
  <2>1. unsent[1] \in Transition
    BY <1>2 DEF UnsentOK
  <2> QED
    BY <1>2, <2>1 DEF First, Transition
<1> QED
  BY <1>1, <1>2

LEMMA ActStep == PipeInv /\ Act => PipeInv'
<1> SUFFICES ASSUME PipeInv, Act PROVE PipeInv'
  OBVIOUS
<1> DEFINE len == Len(unsent)
           u == unsent'
<1>1. PICK ends \in BOOLEAN :
        /\ u = Append(unsent, [state |-> obs, next_state |-> obs + 1, ends |-> ends])
        /\ IF ends THEN actor' = "update" /\ obs' = obs ELSE actor' = "step" /\ obs' = obs + 1
  BY DEF Act
<1> DEFINE t == [state |-> obs, next_state |-> obs + 1, ends |-> ends]
<1>2. /\ obs \in Nat /\ unsent \in Seq(Transition) /\ len \in Nat /\ First <= obs /\ actor = "step"
      /\ \A i \in 1 .. len - 1 : ~unsent[i].ends /\ unsent[i + 1].state = unsent[i].next_state
      /\ unsent # <<>> => ~unsent[len].ends /\ unsent[len].next_state = obs
  BY DEF PipeInv, UnsentOK, Act
<1>3. t \in Transition /\ t.state = obs /\ t.next_state = obs + 1 /\ (t.ends <=> ends)
  BY <1>2 DEF Transition
<1> HIDE DEF t
<1>4. /\ u \in Seq(Transition) /\ u # <<>> /\ Len(u) = len + 1 /\ u[len + 1] = t
      /\ \A i \in 1 .. len : u[i] = unsent[i]
  BY <1>1, <1>2, <1>3, AppendProperties DEF t
<1>5. First' = First
  <2>1. CASE unsent = <<>>
    BY <1>3, <1>4, <2>1 DEF First
  <2>2. CASE unsent # <<>>
    <3>1. 1 \in 1 .. len
      BY <1>2, <2>2
    <3> QED
      BY <1>4, <2>2, <3>1 DEF First
  <2> QED
    BY <2>1, <2>2
<1>6. ASSUME NEW i \in 1 .. len
      PROVE  ~u[i].ends /\ u[i + 1].state = u[i].next_state
  <2>1. u[i] = unsent[i] /\ unsent # <<>>
    BY <1>2, <1>4
  <2>2. CASE i = len
    BY <1>2, <1>3, <1>4, <2>1, <2>2
  <2>3. CASE i # len
    <3>1. i \in 1 .. len - 1 /\ i + 1 \in 1 .. len
      BY <1>2, <2>3
    <3> QED
      BY <1>2, <1>4, <2>1, <3>1
  <2> QED
    BY <2>2, <2>3
<1>7. obs' \in Nat /\ First' <= obs'
  <2>1. First \in Nat
    BY FirstIsNat DEF PipeInv
  <2>2. obs' = obs \/ obs' = obs + 1
    BY <1>1, Zenon
  <2> QED
    BY <1>2, <1>5, <2>1, <2>2
<1>8. /\ actor' = "step" => ~u[len + 1].ends /\ u[len + 1].next_state = obs'
      /\ actor' # "step" => u[len + 1].ends /\ u[len + 1].next_state = obs' + 1
  <2>1. CASE ends
    BY <1>1, <1>3, <1>4, <2>1
  <2>2. CASE ~ends
    BY <1>1, <1>3, <1>4, <2>2
  <2> QED
    BY <2>1, <2>2
<1>9. UnsentOK'
  <2>1. Len(u) = len + 1 /\ Len(u) - 1 = len
    BY <1>2, <1>4
  <2> QED
    BY <1>4, <1>6, <1>7, <1>8, <2>1 DEF UnsentOK
<1>10. Acting /\ UNCHANGED pastVars
  BY <1>2 DEF Act, Acting, actorQueues, streamVars, learnerVars, learnerQueues, replayVars, pastVars
<1> QED
  BY <1>5, <1>9, <1>10, ActorMoves

LEMMA PushStep == PipeInv /\ push_transitions_to_transport_queue => PipeInv'
<1> SUFFICES ASSUME PipeInv, push_transitions_to_transport_queue PROVE PipeInv'
  OBVIOUS
<1> DEFINE len == Len(a_transitions)
           q == a_transitions'
<1>1. /\ actor = "push" /\ actor' = "step" /\ q = Append(a_transitions, unsent)
      /\ unsent' = <<>> /\ obs' = obs + 2
      /\ UNCHANGED <<l_transitions, sending, attempt, kept, wire, bytes_buffer, batch, tried, last, repeats>>
  BY DEF push_transitions_to_transport_queue, streamVars, learnerVars, replayVars
<1>2. /\ obs \in Nat /\ First \in Nat /\ First <= obs /\ a_transitions \in Seq(Episodes) /\ len \in Nat
  BY FirstIsNat DEF PipeInv, UnsentOK, QueuesOK
<1>3. Episode(unsent) /\ Start(unsent) = First /\ End(unsent) = obs + 1
  <2>1. /\ unsent \in Seq(Transition) /\ unsent # <<>>
        /\ \A i \in 1 .. Len(unsent) - 1 :
             ~unsent[i].ends /\ unsent[i + 1].state = unsent[i].next_state
        /\ unsent[Len(unsent)].ends /\ unsent[Len(unsent)].next_state = obs + 1
    BY <1>1 DEF PipeInv, UnsentOK
  <2>2. ASSUME NEW i \in 1 .. Len(unsent)
        PROVE  unsent[i].ends <=> i = Len(unsent)
    <3>1. i = Len(unsent) \/ (i \in 1 .. Len(unsent) - 1 /\ i # Len(unsent))
      BY <2>1
    <3> QED
      BY <2>1, <3>1, Zenon
  <2> QED
    BY <2>1, <2>2 DEF Episode, First, Start, End
<1>4. unsent \in Episodes
  BY <1>3 DEF Episode, Episodes
<1>5. /\ q \in Seq(Episodes) /\ Len(q) = len + 1 /\ q[len + 1] = unsent
      /\ \A i \in 1 .. len : q[i] = a_transitions[i]
  BY <1>1, <1>2, <1>4, AppendProperties
<1>6. \A i \in 1 .. len + 1 : i \in 1 .. len \/ i = len + 1
  BY <1>2
<1>7. Waiting' \subseteq Waiting \cup {unsent}
  BY <1>5, <1>6 DEF Waiting
<1>8. Rest' = Rest /\ Again' = Again
  BY <1>1 DEF Rest, Again
<1>9. Received' = Received /\ Coming' = Coming /\ Held' = Held /\ StreamOK'
  BY <1>1, <1>8 DEF Received, Coming, Held, PipeInv, StreamOK, Stream, Linked
<1>10. \A m \in Messages : End(m) < Start(unsent)
  BY <1>1, <1>3 DEF PipeInv, InTime, Acting
<1>11. /\ InOrder' /\ Messages' \subseteq Messages \cup {unsent}
       /\ (Coming \cup Waiting)' \subseteq Coming \cup Waiting \cup {unsent}
  BY <1>7, <1>9, <1>10 DEF PipeInv, InOrder, Precede, Messages
<1>12. QueuesOK'
  <2>1. ASSUME NEW i \in 1 .. len + 1, NEW j \in 1 .. len + 1, i < j
        PROVE  End(q[i]) < Start(q[j])
    <3>1. i \in 1 .. len
      BY <1>2, <2>1
    <3>2. CASE j \in 1 .. len
      BY <1>5, <2>1, <3>1, <3>2 DEF PipeInv, QueuesOK
    <3>3. CASE j = len + 1
      <4>1. a_transitions[i] \in Messages
        BY <3>1 DEF Waiting, Messages
      <4> QED
        BY <1>5, <1>10, <3>1, <3>3, <4>1
    <3> QED
      BY <1>6, <3>2, <3>3
  <2>2. (\A i, j \in 1 .. Len(a_transitions) : i < j => End(a_transitions[i]) < Start(a_transitions[j]))'
    BY <1>5, <2>1
  <2>3. (\A i, j \in 1 .. Len(l_transitions) : i < j => Ordered(l_transitions[i], l_transitions[j]))'
    BY <1>1 DEF PipeInv, QueuesOK, Ordered
  <2> QED
    BY <1>1, <1>5, <2>2, <2>3 DEF PipeInv, QueuesOK
<1>13. UnsentOK' /\ First' = obs + 2
  BY <1>1, <1>2 DEF UnsentOK, First
<1>14. BatchOK' /\ \A x : After(x)' <=> After(x)
  BY <1>1 DEF PipeInv, BatchOK, GoesBack, After
<1>15. Behind'
  BY <1>1, <1>14 DEF PipeInv, Behind
<1>16. InTime'
  <2>1. /\ tried = attempt => After(First) /\ \A m \in Coming \cup Waiting : After(Start(m))
        /\ \A m \in Messages : End(m) < First
    BY <1>1 DEF PipeInv, InTime, Acting
  <2>2. tried = attempt => \A m \in (Coming \cup Waiting)' : After(Start(m))'
    BY <1>3, <1>11, <1>14, <2>1
  <2>3. \A m \in Messages' : End(m) < First'
    <3>1. ASSUME NEW m \in Messages PROVE End(m) < First'
      <4>1. End(m) \in Nat /\ End(m) < First
        BY <2>1, MessagesAreEpisodes
      <4> QED
        BY <1>2, <1>13, <4>1
    <3>2. End(unsent) < First'
      BY <1>2, <1>3, <1>13
    <3> QED
      BY <1>11, <3>1, <3>2
  <2>4. tried = attempt => After(First)'
    <3>1. CASE batch # <<>>
      <4>1. Episode(batch) /\ End(batch) \in Nat /\ (tried = attempt => End(batch) < First)
        BY <2>1, <3>1, EpisodeEnds DEF PipeInv, BatchOK, After
      <4> QED
        BY <1>1, <1>2, <1>13, <3>1, <4>1 DEF After
    <3>2. CASE batch = <<>> /\ last # <<>>
      <4>1. last[1].next_state \in Nat /\ (tried = attempt => last[1].next_state < First)
        BY <2>1, <3>2 DEF PipeInv, BatchOK, After
      <4> QED
        BY <1>1, <1>2, <1>13, <3>2, <4>1 DEF After
    <3>3. CASE batch = <<>> /\ last = <<>>
      BY <1>1, <3>3 DEF After
    <3> QED
      BY <3>1, <3>2, <3>3
  <2>5. tried' = tried /\ attempt' = attempt /\ tried <= attempt
    BY <1>1 DEF PipeInv, InTime
  <2> QED
    BY <2>2, <2>3, <2>4, <2>5 DEF InTime
<1> QED
  BY <1>9, <1>11, <1>12, <1>13, <1>14, <1>15, <1>16 DEF PipeInv

LEMMA StopActingStep == PipeInv /\ StopActing => PipeInv'
<1> SUFFICES ASSUME PipeInv, StopActing PROVE PipeInv'
  OBVIOUS
<1>1. UnsentOK' /\ ~Acting'
  BY DEF StopActing, UnsentOK, First, Acting
<1>2. UNCHANGED pastVars
  BY DEF StopActing, streamVars, learnerVars, learnerQueues, replayVars, pastVars
<1> QED
  BY <1>1, <1>2, ActorMoves

\* What PipeInv is about, but for where the actor is.
pipeVars ==
  <<obs, unsent, a_transitions, l_transitions, sending, attempt, kept, wire, bytes_buffer, batch,
    tried, last, repeats>>

LEMMA PipeUntouched ==
  ASSUME PipeInv, UNCHANGED pipeVars,
         \/ actor' = actor
         \/ actor = "update" /\ actor' = "push"
         \/ actor = "join" /\ actor' = "done"
  PROVE  PipeInv'
<1>1. UnsentOK' /\ First' = First /\ (Acting' => Acting)
  BY DEF PipeInv, UnsentOK, First, Acting, pipeVars
<1> QED
  BY <1>1, ActorMoves DEF pipeVars, pastVars

LEMMA StopLearningStep == PipeInv /\ StopLearning => PipeInv'
<1> SUFFICES ASSUME PipeInv, StopLearning PROVE PipeInv'
  OBVIOUS
<1>1. /\ UNCHANGED <<actor, obs, unsent, batch, tried, last, repeats, a_transitions, sending, attempt,
                     kept, wire, bytes_buffer>>
      /\ l_transitions' = <<>>
  BY DEF StopLearning, actorVars, actorQueues, streamVars, replayVars
<1>2. Rest' = Rest /\ Again' = Again
  BY <1>1 DEF Rest, Again
<1>3. /\ Received' = {} /\ Coming' = Coming /\ Held' = Held /\ Waiting' = Waiting
      /\ StreamOK' /\ QueuesOK' /\ Behind'
  BY <1>1, <1>2 DEF Received, Coming, Held, Waiting, PipeInv, StreamOK, Stream, Linked, QueuesOK, Behind
<1>4. InOrder' /\ Messages' \subseteq Messages
  BY <1>3 DEF PipeInv, InOrder, Precede, Messages
<1> QED
  BY <1>1, <1>3, <1>4, MessagesMove

\* Only the processing of a transition touches the replay buffer.
LEMMA StepFeeds ==
  ASSUME PipeInv, [RLNext]_rlVars
  PROVE  PipeInv' /\ [ReplayNext]_replayVars
<1>1. CASE UNCHANGED rlVars
  BY <1>1, PipeUntouched
     DEF rlVars, pipeVars, actorVars, actorQueues, streamVars, learnerVars, learnerQueues, replayVars
<1>2. CASE ActorSignal
  BY <1>2, PipeUntouched
     DEF ActorSignal, pipeVars, actorQueues, streamVars, learnerVars, learnerQueues, replayVars
<1>3. CASE Actor
  <2>1. CASE Act
    BY <2>1, ActStep DEF Act
  <2>2. CASE update_policy_parameters
    BY <2>2, PipeUntouched
       DEF update_policy_parameters, pipeVars, streamVars, learnerVars, learnerQueues, replayVars
  <2>3. CASE push_transitions_to_transport_queue
    BY <2>3, PushStep DEF push_transitions_to_transport_queue
  <2>4. CASE LeaveActing \/ ActorFails
    BY <2>4, StopActingStep DEF LeaveActing, ActorFails, StopActing
  <2>5. CASE JoinThreads
    BY <2>5, PipeUntouched
       DEF JoinThreads, pipeVars, actorQueues, streamVars, learnerVars, learnerQueues, replayVars
  <2> QED
    BY <1>3, <2>1, <2>2, <2>3, <2>4, <2>5 DEF Actor
<1>4. CASE Sender
  <2>1. CASE TakeTransitions
    BY <2>1, TakeStep DEF TakeTransitions
  <2>2. CASE SendChunk
    BY <2>2, SendStep DEF SendChunk
  <2>3. CASE StreamEnds
    BY <2>3, PipeUntouched
       DEF StreamEnds, pipeVars, actorVars, actorQueues, learnerVars, learnerQueues, replayVars
  <2>4. CASE CallReturns
    BY <2>4, BrokenStream
       DEF CallReturns, actorVars, actorQueues, learnerVars, learnerQueues, replayVars
  <2> QED
    BY <1>4, <2>1, <2>2, <2>3, <2>4 DEF Sender
<1>5. CASE ReceiveChunk
  BY <1>5, ReceiveStep DEF ReceiveChunk
<1>6. CASE StreamParameters \/ ParametersBreak
  BY <1>6, PipeUntouched
     DEF StreamParameters, ParametersBreak, pipeVars, actorVars, actorQueues, learnerVars,
         learnerQueues, replayVars
<1>11. CASE TransitionsRetried
  BY <1>11, RetryStep
     DEF TransitionsRetried, replayVars
<1>7. CASE TransitionsBreak \/ ServerStops
  BY <1>7, BrokenStream
     DEF TransitionsBreak, ServerStops, actorVars, actorQueues, learnerVars, learnerQueues, replayVars
<1>8. CASE LearnerSignal
  BY <1>8, PipeUntouched
     DEF LearnerSignal, pipeVars, actorVars, actorQueues, streamVars, learnerQueues, replayVars
<1>9. CASE Learner
  <2>1. CASE LeaveLearning \/ SampleFails
    BY <2>1, StopLearningStep DEF LeaveLearning, SampleFails, StopLearning
  <2>2. CASE NextMessage
    BY <2>2, NextMessageStep DEF NextMessage
  <2>3. CASE ProcessTransition
    BY <2>3, ProcessStep DEF ReplayNext
  <2>4. CASE process_interaction_messages
    BY <2>4, PipeUntouched
       DEF process_interaction_messages, pipeVars, actorVars, actorQueues, streamVars, replayVars
  <2>5. CASE Train
    BY <2>5, PipeUntouched
       DEF Train, Optimize, pipeVars, actorVars, actorQueues, streamVars, learnerQueues, replayVars
  <2> QED
    BY <1>9, <2>1, <2>2, <2>3, <2>4, <2>5 DEF Learner
<1>10. CASE TrainAndPush
  BY <1>10, PipeUntouched
     DEF TrainAndPush, Optimize, pipeVars, actorVars, actorQueues, streamVars, replayVars
<1> QED
  BY <1>1, <1>2, <1>3, <1>4, <1>5, <1>6, <1>7, <1>8, <1>9, <1>10, <1>11 DEF RLNext

(* The learner adds whole episodes in the order of the environment's steps,  *)
(* and goes back at most as often as the channel tries the stream again, for *)
(* any number of steps, episodes, messages, retries and kept chunks          *)
(* (actor.py:319-364, 452-455, learner.py:1128-1168).                        *)
THEOREM LearnerImplementsReplay == RLSpec => ReplayIsFed
<1>1. RLInit => PipeInv
  BY InitPipe
<1>2. PipeInv /\ [RLNext]_rlVars => PipeInv' /\ [ReplayNext]_replayVars
  BY StepFeeds
<1>3. RLInit => ReplayInit
  BY DEF RLInit
<1> QED
  BY <1>1, <1>2, <1>3, PTL DEF RLSpec, ReplayIsFed, ReplaySpec

(* So what the learner samples is a state and the state that followed it,    *)
(* with the exceptions SampledNextFollows names (buffer.py:192-257).         *)
THEOREM LearnerSamplesPairs == RLSpec => []SampledNextFollows
BY LearnerImplementsReplay, SampleCorrect, PTL DEF ReplayIsFed
-------------------------------------------------------------------------------
(* Types.                                                                    *)

\* An episode is only finished while there are steps left.
ControlOK ==
  /\ actor \in {"step", "update", "push", "join", "done"}
  /\ learner \in {"head", "transitions", "train", "done"}
  /\ sender \in {"run", "closing", "ended"} /\ receiver \in {"run", "ended"}
  /\ step \in 0 .. online_steps
  /\ actor \in {"update", "push"} => step < online_steps

LEMMA StepControl == ControlOK /\ [RLNext]_rlVars => ControlOK'
<1> SUFFICES ASSUME ControlOK, [RLNext]_rlVars PROVE ControlOK'
  OBVIOUS
<1> USE LearningAssumption
<1>1. CASE UNCHANGED rlVars
  BY <1>1 DEF ControlOK, rlVars, actorVars, streamVars, learnerVars
<1>2. CASE ActorSignal
  BY <1>2 DEF ControlOK, ActorSignal, streamVars, learnerVars
<1>3. CASE Actor
  <2>1. CASE Act
    <3>1. actor' \in {"step", "update"} /\ step \in Nat /\ step < online_steps
      BY <2>1 DEF ControlOK, Act
    <3>2. step' = step \/ (actor' = "step" /\ step' = step + 1)
      BY <2>1 DEF Act
    <3>3. step' \in 0 .. online_steps /\ (actor' = "update" => step' < online_steps)
      <4>1. CASE step' = step
        BY <3>1, <4>1
      <4>2. CASE actor' = "step" /\ step' = step + 1
        BY <3>1, <4>2
      <4> QED
        BY <3>2, <4>1, <4>2
    <3> QED
      BY <2>1, <3>1, <3>3 DEF ControlOK, Act, streamVars, learnerVars
  <2>2. CASE update_policy_parameters
    BY <2>2 DEF ControlOK, update_policy_parameters, streamVars, learnerVars
  <2>3. CASE push_transitions_to_transport_queue
    BY <2>3 DEF ControlOK, push_transitions_to_transport_queue, streamVars, learnerVars
  <2>4. CASE LeaveActing \/ ActorFails
    BY <2>4 DEF ControlOK, LeaveActing, ActorFails, StopActing, streamVars, learnerVars
  <2>5. CASE JoinThreads
    BY <2>5 DEF ControlOK, JoinThreads, streamVars, learnerVars
  <2> QED
    BY <1>3, <2>1, <2>2, <2>3, <2>4, <2>5 DEF Actor
<1>4. CASE Sender
  BY <1>4 DEF ControlOK, Sender, TakeTransitions, SendChunk, StreamEnds, CallReturns, SenderEnds,
              actorVars, learnerVars
<1>5. CASE ReceiveChunk
  BY <1>5 DEF ControlOK, ReceiveChunk, SenderEnds, actorVars, learnerVars
<1>6. CASE StreamParameters
  BY <1>6 DEF ControlOK, StreamParameters, actorVars, learnerVars
<1>7. CASE TransitionsRetried \/ TransitionsBreak \/ ParametersBreak \/ ServerStops
  BY <1>7 DEF ControlOK, TransitionsRetried, TransitionsBreak, ParametersBreak, ServerStops, SenderEnds, actorVars,
              learnerVars
<1>8. CASE LearnerSignal
  BY <1>8 DEF ControlOK, LearnerSignal, actorVars, streamVars
<1>9. CASE Learner
  BY <1>9 DEF ControlOK, Learner, LeaveLearning, SampleFails, StopLearning, NextMessage,
              ProcessTransition, process_interaction_messages, Next_iteration, Train, Optimize,
              actorVars, streamVars
<1>10. CASE TrainAndPush
  BY <1>10 DEF ControlOK, TrainAndPush, Optimize, Next_iteration, actorVars, streamVars
<1> QED
  BY <1>1, <1>2, <1>3, <1>4, <1>5, <1>6, <1>7, <1>8, <1>9, <1>10 DEF RLNext

\* The channel's buffer: a chunk joins it while there is room.
KeptOK == Len(kept) <= RetryBuffer

LEMMA StepKept == PipeInv /\ KeptOK /\ [RLNext]_rlVars => KeptOK'
<1> SUFFICES ASSUME PipeInv, KeptOK, [RLNext]_rlVars PROVE KeptOK'
  OBVIOUS
<1>1. CASE kept' = kept
  BY <1>1 DEF KeptOK
<1>2. CASE kept' = <<>>
  BY <1>2, LearningAssumption DEF KeptOK
<1>3. CASE SendChunk
  <2>1. PICK h : h = Head(sending)
    OBVIOUS
  <2>2. kept' = <<>> \/ (Len(kept) < RetryBuffer /\ kept' = Append(kept, h))
    BY <1>3, <2>1 DEF SendChunk
  <2>3. Len(Append(kept, h)) = Len(kept) + 1 /\ Len(kept) \in Nat
    <3>1. kept \in Seq(Pieces) /\ sending \in Seq(Pieces) /\ sending # <<>>
      BY <1>3 DEF PipeInv, StreamOK, SendChunk
    <3>2. h \in Pieces
      BY <2>1, <3>1, HeadAndTail
    <3> QED
      BY <3>1, <3>2, LenProperties, AppendProperties
  <2> QED
    BY <1>2, <2>2, <2>3, LearningAssumption DEF KeptOK
<1>4. kept' = kept \/ kept' = <<>> \/ SendChunk
  BY DEF RLNext, rlVars, ActorSignal, Actor, Act, update_policy_parameters,
         push_transitions_to_transport_queue, LeaveActing, ActorFails, StopActing, JoinThreads,
         Sender, TakeTransitions, StreamEnds, CallReturns, SenderEnds, ReceiveChunk,
         StreamParameters, TransitionsRetried, TransitionsBreak, ParametersBreak, ServerStops,
         LearnerSignal, Learner, LeaveLearning, SampleFails, StopLearning, NextMessage,
         ProcessTransition, process_interaction_messages, Train, TrainAndPush, streamVars
<1> QED
  BY <1>1, <1>2, <1>3, <1>4

\* The ring of the buffer, from what it is fed; the messages, from the stream.
LEMMA TypesHold == ControlOK /\ KeptOK /\ PipeInv /\ IInv => TypeOK
<1> SUFFICES ASSUME ControlOK, KeptOK, PipeInv, IInv PROVE TypeOK
  OBVIOUS
<1>1. position \in Slot /\ size \in 0 .. capacity
  BY DEF IInv, BufferTypeOK
<1>2. \A i \in DOMAIN l_transitions : Whole(l_transitions[i].bytes)
  <2>1. ASSUME NEW i \in DOMAIN l_transitions PROVE l_transitions[i] \in Entries
    BY DEF PipeInv, QueuesOK
  <2> QED
    BY <2>1, BytesOfMessage
<1>3. attempt \in 0 .. MaxRetries
  BY DEF PipeInv, StreamOK
<1> QED
  BY <1>1, <1>2, <1>3 DEF TypeOK, ControlOK, KeptOK

(* Types, and every message in the learner's queue is whole, for episodes of *)
(* every length, whatever the channel sends again (transport/utils.py:45-110).*)
THEOREM LearnerTypeCorrect == RLSpec => []TypeOK
<1>1. RLInit => ControlOK /\ KeptOK /\ PipeInv /\ IInv
  BY InitPipe, InitIInv, LearningAssumption DEF RLInit, ControlOK, KeptOK
<1>2. ControlOK /\ KeptOK /\ PipeInv /\ IInv /\ [RLNext]_rlVars => (ControlOK /\ KeptOK /\ PipeInv /\ IInv)'
  BY StepControl, StepKept, StepFeeds, NextIInv
<1> QED
  BY <1>1, <1>2, TypesHold, PTL DEF RLSpec

-------------------------------------------------------------------------------
(* Parameters.                                                               *)

\* ParametersGetNewer, queue by queue.
Sorted(s) == \A i, j \in 1 .. Len(s) : i < j => s[i] <= s[j]
Between(x, s, y) == \A i \in 1 .. Len(s) : x <= s[i] /\ s[i] <= y

NewerInv ==
  /\ policy \in Nat /\ version \in Nat /\ policy <= version
  /\ a_parameters \in Seq(Nat) /\ Sorted(a_parameters) /\ Between(policy, a_parameters, version)
  /\ l_parameters \in Seq(Nat) /\ Sorted(l_parameters) /\ Between(policy, l_parameters, version)
  /\ \A i \in 1 .. Len(a_parameters), j \in 1 .. Len(l_parameters) :
       a_parameters[i] <= l_parameters[j]

LEMMA SortedAppend ==
  ASSUME NEW s \in Seq(Nat), Sorted(s), NEW x \in Nat, NEW y \in Nat, NEW z \in Nat,
         Between(x, s, y), y <= z, x <= z
  PROVE  /\ Append(s, z) \in Seq(Nat) /\ Sorted(Append(s, z)) /\ Between(x, Append(s, z), z)
         /\ Len(Append(s, z)) = Len(s) + 1
         /\ \A i \in 1 .. Len(s) + 1 :
              \/ i \in 1 .. Len(s) /\ Append(s, z)[i] = s[i]
              \/ i = Len(s) + 1 /\ Append(s, z)[i] = z
<1> DEFINE q == Append(s, z)
<1>1. /\ q \in Seq(Nat) /\ Len(q) = Len(s) + 1 /\ q[Len(s) + 1] = z
      /\ \A i \in 1 .. Len(s) : q[i] = s[i]
  BY AppendProperties
<1> HIDE DEF q
<1>2. Len(s) \in Nat /\ \A i \in 1 .. Len(s) : s[i] \in Nat
  OBVIOUS
<1>3. \A i \in 1 .. Len(s) + 1 :
        \/ i \in 1 .. Len(s) /\ q[i] = s[i]
        \/ i = Len(s) + 1 /\ q[i] = z
  BY <1>1, <1>2
<1>4. \A i \in 1 .. Len(s) : x <= s[i] /\ s[i] <= z
  BY <1>2 DEF Between
<1>5. Between(x, q, z)
  <2>1. ASSUME NEW i \in 1 .. Len(q) PROVE x <= q[i] /\ q[i] <= z
    <3>1. CASE i \in 1 .. Len(s) /\ q[i] = s[i]
      BY <1>4, <3>1
    <3>2. CASE q[i] = z
      <4>1. x <= z /\ z <= z
        OBVIOUS
      <4> QED
        BY <3>2, <4>1, Zenon
    <3> QED
      BY <1>1, <1>3, <3>1, <3>2
  <2> QED
    BY <2>1 DEF Between
<1>6. ASSUME NEW i \in 1 .. Len(q), NEW j \in 1 .. Len(q), i < j
      PROVE  q[i] <= q[j]
  <2>1. i \in 1 .. Len(s) /\ q[i] = s[i] /\ j \in 1 .. Len(s) + 1
    BY <1>1, <1>2, <1>6
  <2>2. CASE j \in 1 .. Len(s) /\ q[j] = s[j]
    BY <1>6, <2>1, <2>2 DEF Sorted
  <2>3. CASE q[j] = z
    BY <1>4, <2>1, <2>3
  <2> QED
    BY <1>3, <2>1, <2>2, <2>3
<1> QED
  BY <1>1, <1>3, <1>5, <1>6 DEF q, Sorted

\* Nothing of s is greater than what is in t, and q has both.
NoneGreater(s, t) == \A i \in 1 .. Len(s), j \in 1 .. Len(t) : s[i] <= t[j]

SortedBoth(q, s, t) ==
  /\ q \in Seq(Nat) /\ Sorted(q) /\ Len(q) = Len(s) + Len(t)
  /\ \A i \in 1 .. Len(s) + Len(t) :
       \/ i \in 1 .. Len(s) /\ q[i] = s[i]
       \/ i - Len(s) \in 1 .. Len(t) /\ q[i] = t[i - Len(s)]

LEMMA SortedConcat ==
  ASSUME NEW s \in Seq(Nat), NEW t \in Seq(Nat), Sorted(s), Sorted(t), NoneGreater(s, t)
  PROVE  SortedBoth(s \o t, s, t)
<1>0. \A i \in 1 .. Len(s), j \in 1 .. Len(t) : s[i] <= t[j]
  BY DEF NoneGreater
<1>1. Len(s) \in Nat /\ Len(t) \in Nat
  OBVIOUS
<1> DEFINE q == s \o t
<1>2. /\ q \in Seq(Nat) /\ Len(q) = Len(s) + Len(t)
      /\ \A i \in 1 .. Len(s) + Len(t) : q[i] = IF i <= Len(s) THEN s[i] ELSE t[i - Len(s)]
  BY ConcatProperties
<1> HIDE DEF q
<1>3. \A i \in 1 .. Len(s) + Len(t) :
        \/ i \in 1 .. Len(s) /\ q[i] = s[i]
        \/ i - Len(s) \in 1 .. Len(t) /\ q[i] = t[i - Len(s)]
  BY <1>1, <1>2
<1>4. ASSUME NEW i \in 1 .. Len(q), NEW j \in 1 .. Len(q), i < j
      PROVE  q[i] <= q[j]
  <2>1. CASE j \in 1 .. Len(s)
    <3>1. i \in 1 .. Len(s) /\ i \in 1 .. Len(s) + Len(t) /\ j \in 1 .. Len(s) + Len(t)
      BY <1>1, <1>2, <1>4, <2>1
    <3>2. q[i] = s[i] /\ q[j] = s[j]
      BY <1>1, <1>2, <2>1, <3>1
    <3> QED
      BY <1>4, <2>1, <3>1, <3>2 DEF Sorted
  <2>2. CASE j \notin 1 .. Len(s)
    <3>1. j - Len(s) \in 1 .. Len(t) /\ q[j] = t[j - Len(s)]
      BY <1>2, <1>3, <2>2
    <3>2. CASE i \in 1 .. Len(s) /\ q[i] = s[i]
      BY <1>0, <3>1, <3>2
    <3>3. CASE i - Len(s) \in 1 .. Len(t) /\ q[i] = t[i - Len(s)]
      <4>1. i - Len(s) < j - Len(s)
        BY <1>1, <1>4
      <4> QED
        BY <3>1, <3>3, <4>1 DEF Sorted
    <3> QED
      BY <1>2, <1>3, <3>2, <3>3
  <2> QED
    BY <2>1, <2>2
<1> QED
  BY <1>2, <1>3, <1>4 DEF Sorted, SortedBoth, q

LEMMA NewerIsSorted == NewerInv => ParametersGetNewer
<1> SUFFICES ASSUME NewerInv PROVE ParametersGetNewer
  OBVIOUS
<1> DEFINE one == <<policy>>
           end == <<version>>
           p == one \o a_parameters
           pl == p \o l_parameters
           all == pl \o end
<1>1. /\ policy \in Nat /\ version \in Nat /\ policy <= version
      /\ a_parameters \in Seq(Nat) /\ l_parameters \in Seq(Nat)
      /\ Sorted(a_parameters) /\ Sorted(l_parameters)
  BY DEF NewerInv
<1>2. /\ one \in Seq(Nat) /\ Len(one) = 1 /\ one[1] = policy
      /\ end \in Seq(Nat) /\ Len(end) = 1 /\ end[1] = version
      /\ Sorted(one) /\ Sorted(end)
  BY <1>1 DEF Sorted
<1> HIDE DEF one, end
<1>3. \A i \in 1 .. Len(a_parameters), j \in 1 .. Len(l_parameters) :
        /\ policy <= a_parameters[i] /\ a_parameters[i] <= version
        /\ policy <= l_parameters[j] /\ l_parameters[j] <= version
        /\ a_parameters[i] <= l_parameters[j]
  BY DEF NewerInv, Between
<1>4. /\ \A i \in 1 .. Len(a_parameters) : policy <= a_parameters[i] /\ a_parameters[i] <= version
      /\ \A j \in 1 .. Len(l_parameters) : policy <= l_parameters[j] /\ l_parameters[j] <= version
  BY DEF NewerInv, Between
<1>5. NoneGreater(one, a_parameters)
  BY <1>2, <1>4 DEF NoneGreater
<1>6. SortedBoth(p, one, a_parameters)
  BY <1>1, <1>2, <1>5, SortedConcat
<1> HIDE DEF p
<1>7. /\ p \in Seq(Nat) /\ Sorted(p) /\ NoneGreater(p, l_parameters)
      /\ \A i \in 1 .. Len(p) : p[i] <= version
  <2>1. ASSUME NEW i \in 1 .. Len(p)
        PROVE  p[i] <= version /\ \A j \in 1 .. Len(l_parameters) : p[i] <= l_parameters[j]
    <3>1. CASE i \in 1 .. Len(one) /\ p[i] = one[i]
      <4>1. p[i] = policy
        BY <1>2, <3>1
      <4> QED
        BY <1>1, <1>4, <4>1
    <3>2. CASE i - Len(one) \in 1 .. Len(a_parameters) /\ p[i] = a_parameters[i - Len(one)]
      BY <1>3, <1>4, <3>2
    <3> QED
      BY <1>6, <3>1, <3>2 DEF SortedBoth
  <2> QED
    BY <1>6, <2>1 DEF NoneGreater, SortedBoth
<1>8. SortedBoth(pl, p, l_parameters)
  BY <1>1, <1>7, SortedConcat
<1> HIDE DEF pl
<1>9. pl \in Seq(Nat) /\ Sorted(pl) /\ \A i \in 1 .. Len(pl) : pl[i] <= version
  BY <1>4, <1>7, <1>8 DEF SortedBoth
<1>10. NoneGreater(pl, end)
  BY <1>2, <1>9 DEF NoneGreater
<1>11. all \in Seq(Nat) /\ Sorted(all)
  <2>1. SortedBoth(all, pl, end)
    BY <1>2, <1>9, <1>10, SortedConcat
  <2> QED
    BY <2>1 DEF SortedBoth
<1>12. DOMAIN all = 1 .. Len(all)
  BY <1>11
<1>13. all = <<policy>> \o a_parameters \o l_parameters \o <<version>>
  BY DEF pl, p, one, end
<1> HIDE DEF all
<1> QED
  BY <1>11, <1>12, <1>13 DEF ParametersGetNewer, Sorted

LEMMA StepNewer == NewerInv /\ [RLNext]_rlVars => NewerInv'
<1> SUFFICES ASSUME NewerInv, [RLNext]_rlVars PROVE NewerInv'
  OBVIOUS
<1>1. /\ policy \in Nat /\ version \in Nat /\ policy <= version
      /\ a_parameters \in Seq(Nat) /\ l_parameters \in Seq(Nat)
      /\ Sorted(a_parameters) /\ Sorted(l_parameters)
      /\ Between(policy, a_parameters, version) /\ Between(policy, l_parameters, version)
      /\ \A i \in 1 .. Len(a_parameters), j \in 1 .. Len(l_parameters) :
           a_parameters[i] <= l_parameters[j]
  BY DEF NewerInv
<1>2. CASE UNCHANGED <<policy, version, a_parameters, l_parameters>>
  BY <1>2 DEF NewerInv
<1>3. CASE update_policy_parameters
  <2>1. UNCHANGED <<version, l_parameters>>
    BY <1>3 DEF update_policy_parameters, learnerVars, learnerQueues
  <2>2. CASE a_parameters # <<>>
    <3>1. policy' = a_parameters[Len(a_parameters)] /\ a_parameters' = <<>>
      BY <1>3, <2>2 DEF update_policy_parameters, Newest_of
    <3>2. Len(a_parameters) \in 1 .. Len(a_parameters) /\ policy' \in Nat
      BY <1>1, <2>2, <3>1
    <3>3. policy' <= version /\ Between(policy', l_parameters, version)
      BY <1>1, <3>1, <3>2 DEF Between
    <3> QED
      BY <1>1, <2>1, <3>1, <3>2, <3>3 DEF NewerInv, Sorted, Between
  <2> QED
    BY <1>2, <1>3, <2>1, <2>2 DEF update_policy_parameters
<1>4. CASE LeaveActing \/ ActorFails
  <2>1. UNCHANGED <<policy, version, l_parameters>> /\ a_parameters' = <<>>
    BY <1>4 DEF LeaveActing, ActorFails, StopActing, learnerVars, learnerQueues
  <2> QED
    BY <1>1, <2>1 DEF NewerInv, Sorted, Between
<1>5. CASE StreamParameters
  <2>1. UNCHANGED <<policy, version>> /\ l_parameters # <<>> /\ l_parameters' = <<>>
    BY <1>5 DEF StreamParameters, actorVars, learnerVars
  <2>2. CASE a_parameters' = a_parameters
    BY <1>1, <2>1, <2>2 DEF NewerInv, Sorted, Between
  <2>3. CASE a_parameters' = Append(a_parameters, Newest_of(l_parameters))
    <3> DEFINE x == Newest_of(l_parameters)
               len == Len(a_parameters)
    <3>1. Len(l_parameters) \in 1 .. Len(l_parameters) /\ x = l_parameters[Len(l_parameters)]
          /\ x \in Nat
      BY <1>1, <2>1 DEF Newest_of
    <3>2. policy <= x /\ x <= version /\ \A i \in 1 .. len : a_parameters[i] <= x
      BY <1>1, <3>1 DEF Between
    <3> HIDE DEF x
    <3>3. Between(policy, a_parameters, x)
      BY <1>1, <3>2 DEF Between
    <3>4. /\ a_parameters' \in Seq(Nat) /\ Sorted(a_parameters') /\ Between(policy, a_parameters', x)
      BY <1>1, <2>3, <3>1, <3>2, <3>3, SortedAppend DEF x
    <3>5. Between(policy, a_parameters', version)
      BY <1>1, <3>1, <3>2, <3>4 DEF Between
    <3> QED
      BY <1>1, <2>1, <3>4, <3>5 DEF NewerInv, Sorted, Between
  <2> QED
    BY <1>5, <2>2, <2>3 DEF StreamParameters
<1>6. CASE StopLearning
  <2>1. UNCHANGED <<policy, version, a_parameters>> /\ l_parameters' = <<>>
    BY <1>6 DEF StopLearning, actorVars, actorQueues
  <2> QED
    BY <1>1, <2>1 DEF NewerInv, Sorted, Between
<1>7. CASE Train \/ TrainAndPush
  <2>1. UNCHANGED <<policy, a_parameters>> /\ (version' = version \/ version' = version + 1)
    BY <1>7 DEF Train, TrainAndPush, Optimize, actorVars, actorQueues
  <2>2. version' \in Nat /\ version <= version' /\ policy <= version'
    BY <1>1, <2>1
  <2>3. Between(policy, a_parameters, version') /\ Between(policy, l_parameters, version')
    BY <1>1, <2>2 DEF Between
  <2>4. CASE l_parameters' = l_parameters
    BY <1>1, <2>1, <2>2, <2>3, <2>4 DEF NewerInv
  <2>5. CASE l_parameters' = Append(l_parameters, version')
    <3>1. /\ l_parameters' \in Seq(Nat) /\ Sorted(l_parameters')
          /\ Between(policy, l_parameters', version') /\ Len(l_parameters') = Len(l_parameters) + 1
          /\ \A i \in 1 .. Len(l_parameters) + 1 :
               \/ i \in 1 .. Len(l_parameters) /\ l_parameters'[i] = l_parameters[i]
               \/ i = Len(l_parameters) + 1 /\ l_parameters'[i] = version'
      BY <1>1, <2>2, <2>5, SortedAppend
    <3>2. \A i \in 1 .. Len(a_parameters), j \in 1 .. Len(l_parameters') :
            a_parameters[i] <= l_parameters'[j]
      BY <1>1, <2>3, <3>1 DEF Between
    <3> QED
      BY <1>1, <2>1, <2>2, <2>3, <3>1, <3>2 DEF NewerInv
  <2> QED
    BY <1>7, <2>4, <2>5 DEF Train, TrainAndPush, learnerQueues
<1>8. CASE UNCHANGED rlVars
  BY <1>2, <1>8 DEF rlVars, actorVars, actorQueues, learnerVars, learnerQueues
<1>9. CASE Actor
  <2>1. CASE Act \/ push_transitions_to_transport_queue \/ JoinThreads
    BY <1>2, <2>1 DEF Act, push_transitions_to_transport_queue, JoinThreads, actorQueues,
                      learnerVars, learnerQueues
  <2> QED
    BY <1>3, <1>4, <1>9, <2>1 DEF Actor
<1>10. CASE Sender \/ ReceiveChunk
  BY <1>2, <1>10 DEF Sender, TakeTransitions, SendChunk, StreamEnds, CallReturns, ReceiveChunk,
                     actorVars, actorQueues, learnerVars, learnerQueues
<1>11. CASE Learner
  <2>1. CASE NextMessage \/ ProcessTransition \/ process_interaction_messages
    BY <1>2, <2>1 DEF NextMessage, ProcessTransition, process_interaction_messages, actorVars,
                      actorQueues, learnerQueues
  <2> QED
    BY <1>6, <1>7, <1>11, <2>1 DEF Learner, LeaveLearning, SampleFails
<1>12. CASE \/ ActorSignal \/ LearnerSignal
            \/ TransitionsRetried \/ TransitionsBreak \/ ParametersBreak \/ ServerStops
  BY <1>2, <1>12 DEF ActorSignal, LearnerSignal, TransitionsRetried, TransitionsBreak, ParametersBreak, ServerStops,
                     actorVars, actorQueues, learnerVars, learnerQueues
<1> QED
  BY <1>5, <1>7, <1>8, <1>9, <1>10, <1>11, <1>12 DEF RLNext

(* The actor never goes back to older parameters, however many are under way *)
(* (learner_service.py:54-87, actor.py:655-681).                             *)
THEOREM ActorOnlyAdvances == RLSpec => []ParametersGetNewer
<1>1. RLInit => NewerInv
  <2> SUFFICES ASSUME RLInit PROVE NewerInv
    OBVIOUS
  <2>1. /\ policy = 0 /\ version = 0 /\ a_parameters = <<>> /\ l_parameters = <<0>>
    BY DEF RLInit
  <2>2. <<0>> \in Seq(Nat) /\ Len(<<0>>) = 1 /\ <<0>>[1] = 0
    OBVIOUS
  <2> QED
    BY <2>1, <2>2 DEF NewerInv, Sorted, Between
<1> QED
  BY <1>1, StepNewer, NewerIsSorted, PTL DEF RLSpec

============================================================================
