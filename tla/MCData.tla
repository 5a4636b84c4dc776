-------------------------------- MODULE MCData --------------------------------
(***************************************************************************)
(* Where data go, on small instances, in one run: from an actor to its     *)
(* learner, from a recording session to the disk, from the recording       *)
(* thread to the video encoders, from a camera to the robot.  A behaviour  *)
(* is of one of the four; the others stay as they are.                     *)
(***************************************************************************)
EXTENDS ActorLearner, Camera

CONSTANTS
  video_keys, chunks_size, metadata_buffer_size, queue_maxsize,
  MaxFrames, MaxSessions, MaxEpisodes

\* The queues of frames are bounded: queue.Queue takes 0 for "no bound"
\* (video_utils.py:770).  DatasetInfo.__post_init__ refuses a chunks_size of 0
\* (utils.py:143); a metadata buffer of no rows behaves as one of a single row
\* (dataset_metadata.py:468).  The rest are bounds of the model.
ASSUME DataAssumption ==
  /\ {queue_maxsize, chunks_size, metadata_buffer_size} \subseteq Nat \ {0}
  /\ {MaxFrames, MaxEpisodes} \subseteq Nat /\ MaxSessions \in Nat \ {0}

VARIABLES
  system,
  data, videos, episodes, info, meta, phase, buffer, row, n, session, saved, failed, crashed, torn,
  e_main, todo, after, e_n, episode, active, threads, accepted, finished

W == INSTANCE DatasetWriter
E == INSTANCE StreamingEncoder WITH main <- e_main, n <- e_n

writerVars == <<data, videos, episodes, info, meta, phase, buffer, row, n, session, saved, failed,
                crashed, torn>>
encoderVars == <<e_main, todo, after, e_n, episode, active, threads, accepted, finished>>
allVars == <<system, rlVars, writerVars, encoderVars, cameraVars>>

DataInit ==
  /\ system \in {"rl", "writer", "encoder", "camera"}
  /\ RLInit /\ W!Init /\ E!Init /\ CameraInit

InRL == system = "rl" /\ UNCHANGED <<system, writerVars, encoderVars, cameraVars>>
InWriter == system = "writer" /\ UNCHANGED <<system, rlVars, encoderVars, cameraVars>>
InEncoder == system = "encoder" /\ UNCHANGED <<system, rlVars, writerVars, cameraVars>>
InCamera == system = "camera" /\ UNCHANGED <<system, rlVars, writerVars, encoderVars>>

DataNext ==
  \/ InRL /\ RLNext
  \/ InWriter /\ W!Next
  \/ InEncoder /\ E!Next
  \/ InCamera /\ CameraNext

\* Fairness as in RLSpec and in StreamingEncoder's FairSpec.
DataSpec ==
  /\ DataInit /\ [][DataNext]_allVars
  /\ WF_rlVars(system = "rl" /\ Actor) /\ WF_rlVars(system = "rl" /\ Transitions)
  /\ WF_rlVars(system = "rl" /\ StreamParameters)
  /\ WF_rlVars(system = "rl" /\ Learner) /\ SF_rlVars(system = "rl" /\ TrainAndPush)
  /\ \A t \in video_keys \X (1 .. MaxEpisodes) : WF_encoderVars(system = "encoder" /\ E!Encoder(t))

-------------------------------------------------------------------------------
(* Types of what the writer and the encoders keep; no queue of an encoder    *)
(* grows beyond its size (video_utils.py:757-839).                           *)
RecordingTypeOK == W!TypeOK /\ E!TypeOK

(* Listed episodes keep their rows and their stretch of every video          *)
(* (dataset_writer.py:387-524).                                              *)
ListedIsStored == W!ListedIsStored

(* A listed episode stays listed (dataset_metadata.py:400-469).              *)
ListedStays == W!ListedStays

(* Orderly sessions leave a dataset that reads back                          *)
(* (dataset_writer.py:626-644).                                              *)
SessionsReadBack == W!SessionsReadBack

(* A failed save leaves every file closed, every row listed, and no episode  *)
(* counted that is not (dataset_metadata.py:500-511).                        *)
FailuresLeaveItWhole == W!FailuresLeaveItWhole

(* A finished video shows what its queue accepted (video_utils.py:841-885).  *)
FinishedIsFed == E!FinishedIsFed

(* No encoder thread outlives the session for ever                           *)
(* (video_utils.py:869-926).                                                 *)
ThreadsEnd == E!ThreadsEnd
================================================================================
