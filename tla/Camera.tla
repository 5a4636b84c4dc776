-------------------------------- MODULE Camera --------------------------------
(***************************************************************************)
(* An RGB-D camera (cameras/realsense/camera_realsense.py) and the robot   *)
(* that reads it (SOFollower.get_observation): a background thread stores  *)
(* the newest color and depth image, the main thread connects, peeks at    *)
(* the color image, waits for the next depth image, and disconnects.       *)
(*                                                                         *)
(* A frame is its number, the same for its color and its depth image; 0 is *)
(* None.  A connection, its thread and its stop event have one number.  A  *)
(* thread in a hardware read may hang there for longer than the join in    *)
(* _stop_read_thread waits, and is then left behind.                       *)
(***************************************************************************)
EXTENDS Naturals

CONSTANTS
  MaxConnections, MaxCaptured, (* bounds                                    *)
  MaxFailures                  (* consecutive failures a thread survives    *)

ASSUME CameraAssumption ==
  MaxConnections \in Nat /\ MaxCaptured \in Nat /\ MaxFailures \in Nat

VARIABLES
  main,              (* where the main thread is                            *)
  connecting,        (* it is in connect                                    *)
  rs_pipeline,       (* started                                             *)
  connection,        (* the number of the last one                          *)
  thread, stop_event,
  stopped,           (* the stop events that are set                        *)
  readers,           (* the threads: where, with which pipeline and frame   *)
  frames,            (* the hardware has delivered                          *)
  latest_color_frame, latest_depth_frame, new_frame_event,
  color,             (* what read_latest has returned                       *)
  observation,       (* <<>>, or the last one: its images, and how many     *)
                     (* frames there were before this connection            *)
  before,            (* that number                                         *)
  left_behind        (* a join has timed out                                *)

bufferVars == <<latest_color_frame, latest_depth_frame, new_frame_event>>
threadVars == <<thread, stop_event, stopped>>
robotVars == <<color, observation>>
cameraVars == <<main, connecting, rs_pipeline, connection, threadVars, readers, frames,
                bufferVars, robotVars, before, left_behind>>

Connections == 1 .. MaxConnections
NoReader == [at |-> "none", pipeline |-> 0, frame |-> 0, failures |-> 0]
Ended == [at |-> "ended", pipeline |-> 0, frame |-> 0, failures |-> 0]

CameraInit ==
  /\ main = "off" /\ connecting = FALSE /\ rs_pipeline = FALSE /\ connection = 0
  /\ thread = 0 /\ stop_event = 0 /\ stopped = {}
  /\ readers = [i \in Connections |-> NoReader] /\ frames = 0
  /\ latest_color_frame = 0 /\ latest_depth_frame = 0 /\ new_frame_event = FALSE
  /\ color = 0 /\ observation = <<>> /\ before = 0 /\ left_behind = FALSE

is_alive(i) == i # 0 /\ readers[i].at \notin {"none", "ended"}

-------------------------------------------------------------------------------
(* _read_loop.                                                               *)

Reader(i, at) == readers[i].at = at
ReaderUnchanged ==
  UNCHANGED <<main, connecting, rs_pipeline, connection, threadVars, robotVars, before, left_behind>>

\* The attribute stop_event is looked up anew; None has no is_set.
CheckStop(i) ==
  /\ Reader(i, "check")
  /\ IF stop_event = 0 \/ stop_event \in stopped
     THEN readers' = [readers EXCEPT ![i] = Ended]
     ELSE readers' = [readers EXCEPT ![i].at = "read",
                                     ![i].pipeline = IF rs_pipeline THEN connection ELSE 0]
  /\ UNCHANGED <<frames, bufferVars>> /\ ReaderUnchanged

_read_from_hardware(i) ==
  /\ Reader(i, "read") /\ rs_pipeline /\ readers[i].pipeline = connection /\ frames < MaxCaptured
  /\ frames' = frames + 1
  /\ readers' = [readers EXCEPT ![i].at = "store", ![i].frame = frames + 1]
  /\ UNCHANGED bufferVars /\ ReaderUnchanged

\* No frame, or one that cannot be processed.
ReadFails(i) ==
  /\ Reader(i, "read")
  /\ IF readers[i].failures < MaxFailures
     THEN readers' = [readers EXCEPT ![i].at = "check", ![i].failures = @ + 1]
     ELSE readers' = [readers EXCEPT ![i] = Ended]
  /\ UNCHANGED <<frames, bufferVars>> /\ ReaderUnchanged

\* Under the lock ...
StoreFrame(i) ==
  /\ Reader(i, "store")
  /\ latest_color_frame' = readers[i].frame /\ latest_depth_frame' = readers[i].frame
  /\ readers' = [readers EXCEPT ![i].at = "signal"]
  /\ UNCHANGED <<new_frame_event, frames>> /\ ReaderUnchanged

\* ... and after it.
SignalFrame(i) ==
  /\ Reader(i, "signal") /\ new_frame_event' = TRUE
  /\ readers' = [readers EXCEPT ![i].at = "check", ![i].frame = 0, ![i].failures = 0]
  /\ UNCHANGED <<latest_color_frame, latest_depth_frame, frames>> /\ ReaderUnchanged

ReadLoop ==
  \E i \in Connections :
    CheckStop(i) \/ _read_from_hardware(i) \/ ReadFails(i) \/ StoreFrame(i) \/ SignalFrame(i)

-------------------------------------------------------------------------------
(* connect, disconnect and what they share.                                  *)

connect ==
  /\ main = "off" /\ connection < MaxConnections
  /\ main' = "stop" /\ connecting' = TRUE
  /\ rs_pipeline' = TRUE /\ connection' = connection + 1 /\ before' = frames
  /\ UNCHANGED <<threadVars, readers, frames, bufferVars, robotVars, left_behind>>

disconnect ==
  /\ main \in {"observe", "raised"}
  /\ main' = "stop" /\ connecting' = FALSE
  /\ UNCHANGED <<rs_pipeline, connection, threadVars, readers, frames, bufferVars, robotVars,
                 before, left_behind>>

MainUnchanged ==
  UNCHANGED <<connecting, connection, readers, frames, robotVars, before>>

\* _stop_read_thread: the event is set, ...
SetStop ==
  /\ main = "stop" /\ main' = "join"
  /\ stopped' = stopped \cup ({stop_event} \ {0})
  /\ UNCHANGED <<rs_pipeline, thread, stop_event, bufferVars, left_behind>> /\ MainUnchanged

\* ... the thread ends, or hangs in the hardware for more than 2 seconds, ...
JoinThread ==
  /\ main = "join" /\ main' = "forget"
  /\ IF is_alive(thread) THEN Reader(thread, "read") /\ left_behind' = TRUE
     ELSE UNCHANGED left_behind
  /\ thread' = 0 /\ stop_event' = 0
  /\ UNCHANGED <<rs_pipeline, stopped, bufferVars>> /\ MainUnchanged

\* Faulty variant: only the images are forgotten.
ForgetImages == latest_color_frame' = 0 /\ latest_depth_frame' = 0 /\ UNCHANGED new_frame_event

\* Under the lock, the frames and the event are reset.
ForgetFrames == latest_color_frame' = 0 /\ latest_depth_frame' = 0 /\ new_frame_event' = FALSE

\* ... and its frames are forgotten.
Forget ==
  /\ main = "forget" /\ main' = IF connecting THEN "start" ELSE "release"
  /\ ForgetFrames
  /\ UNCHANGED <<rs_pipeline, threadVars, left_behind>> /\ MainUnchanged

_start_read_thread ==
  /\ main = "start" /\ main' = "enter"
  /\ thread' = connection /\ stop_event' = connection
  /\ readers' = [readers EXCEPT ![connection].at = "check"]
  /\ UNCHANGED <<connecting, rs_pipeline, connection, stopped, frames, bufferVars, robotVars,
                 before, left_behind>>

\* disconnect stops the pipeline ...
StopPipeline ==
  /\ main = "release" /\ main' = "released" /\ rs_pipeline' = FALSE
  /\ UNCHANGED <<threadVars, bufferVars, left_behind>> /\ MainUnchanged

\* ... and forgets once more.
ForgetAgain ==
  /\ main = "released" /\ main' = "off" /\ ForgetFrames
  /\ UNCHANGED <<rs_pipeline, threadVars, left_behind>> /\ MainUnchanged

-------------------------------------------------------------------------------
(* Reading.                                                                  *)

ThreadsUnchanged ==
  UNCHANGED <<rs_pipeline, connection, threadVars, readers, frames, before, left_behind>>

\* An exception: no thread, no frame in time, or a frame that is too old.
Raise == main' = "raised" /\ UNCHANGED <<connecting, bufferVars, robotVars>> /\ ThreadsUnchanged

\* async_read: there must be a thread, ...
EnterRead ==
  /\ main = "enter" /\ is_alive(thread) /\ main' = "wait"
  /\ UNCHANGED <<connecting, bufferVars, robotVars>> /\ ThreadsUnchanged

NotRunning == main \in {"enter", "clear"} /\ ~is_alive(thread) /\ Raise

\* ... wait for the event ...
WaitForFrame ==
  /\ main = "wait" /\ new_frame_event /\ main' = "take"
  /\ UNCHANGED <<connecting, bufferVars, robotVars>> /\ ThreadsUnchanged

WaitFails == main = "wait" /\ ~new_frame_event /\ Raise

\* ... and take the frame under the lock; "Event set but no frame available".
TakeFrame ==
  /\ main = "take" /\ new_frame_event' = FALSE
  /\ main' = CASE latest_color_frame = 0 -> "raised"
               [] connecting -> "warmup"
               [] OTHER -> "depth"
  /\ UNCHANGED <<connecting, latest_color_frame, latest_depth_frame, color, observation>>
  /\ ThreadsUnchanged

\* connect reads for warmup_s, then there must be a frame.
WarmUp ==
  /\ main = "warmup" /\ main' = "enter"
  /\ UNCHANGED <<connecting, bufferVars, robotVars>> /\ ThreadsUnchanged

Connected ==
  /\ main = "warmup" /\ connecting' = FALSE
  /\ main' = IF latest_color_frame = 0 \/ latest_depth_frame = 0 THEN "raised" ELSE "observe"
  /\ UNCHANGED <<bufferVars, robotVars>> /\ ThreadsUnchanged

\* get_observation: read_latest returns the color image, ...
read_latest ==
  /\ main = "observe" /\ is_alive(thread) /\ latest_color_frame # 0
  /\ main' = "clear" /\ color' = latest_color_frame
  /\ UNCHANGED <<connecting, bufferVars, observation>> /\ ThreadsUnchanged

LatestFails == main = "observe" /\ Raise

\* ... and read_depth waits for another frame ...
ClearEvent ==
  /\ main = "clear" /\ is_alive(thread) /\ main' = "enter" /\ new_frame_event' = FALSE
  /\ UNCHANGED <<connecting, latest_color_frame, latest_depth_frame, robotVars>> /\ ThreadsUnchanged

\* ... and returns the depth image there is by then.
read_depth ==
  /\ main = "depth"
  /\ IF latest_depth_frame = 0 THEN main' = "raised" /\ UNCHANGED observation
     ELSE main' = "observe" /\ observation' = <<color, latest_depth_frame, before>>
  /\ UNCHANGED <<connecting, bufferVars, color>> /\ ThreadsUnchanged

-------------------------------------------------------------------------------
CameraNext ==
  \/ ReadLoop
  \/ connect \/ SetStop \/ JoinThread \/ Forget \/ _start_read_thread
  \/ disconnect \/ StopPipeline \/ ForgetAgain
  \/ EnterRead \/ NotRunning \/ WaitForFrame \/ WaitFails \/ TakeFrame \/ WarmUp \/ Connected
  \/ read_latest \/ LatestFails \/ ClearEvent \/ read_depth

CameraSpec == CameraInit /\ [][CameraNext]_cameraVars

-------------------------------------------------------------------------------
(* What the robot observes was captured in this connection, depth not before *)
(* color, and a set event stands for a frame - whatever raised, hung, and    *)
(* was reconnected, as long as every join found its thread's end             *)
(* (so_follower.py:190-199, camera_realsense.py:543-558).                    *)
ObservationsAreCurrent ==
  ~left_behind =>
    /\ new_frame_event => latest_color_frame # 0
    /\ observation # <<>> => observation[3] < observation[1] /\ observation[1] <= observation[2]
================================================================================
