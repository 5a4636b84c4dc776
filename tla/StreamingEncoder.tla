--------------------------- MODULE StreamingEncoder ---------------------------
(***************************************************************************)
(* StreamingVideoEncoder and its encoder threads (datasets/video_utils.py),*)
(* as DatasetWriter uses them: every frame goes into one bounded queue per *)
(* camera; a thread per camera and episode encodes it.  finish_episode     *)
(* sends None, joins the threads and collects their results;               *)
(* cancel_episode sets their stop events.  A thread may die of an encoder  *)
(* error, and a join may time out.  A frame is its number.                 *)
(***************************************************************************)
EXTENDS Naturals, Sequences

CONSTANTS
  video_keys,               (* the cameras                                  *)
  queue_maxsize,
  MaxFrames, MaxEpisodes    (* bounds: frames and episodes of a behaviour   *)

VARIABLES
  main,       (* what the recording thread does                             *)
  todo,       (* the cameras it has not got to in this step                 *)
  after,      (* where it goes on once the episode is cancelled             *)
  n,          (* the number of the newest frame                             *)
  episode,    (* how many episodes were started                             *)
  active,     (* _episode_active                                            *)
  threads,    (* the encoder thread of a camera and an episode              *)
  accepted,   (* the frames that were put into its queue                    *)
  finished    (* the videos that finish_episode returned with a result      *)

mainVars == <<main, todo, after, n, episode, active>>
vars == <<mainVars, threads, accepted, finished>>

Threads == video_keys \X (1 .. MaxEpisodes)
Sentinel == 0     (* None                                                   *)
NotStarted == [state |-> "none", queue |-> <<>>, stop |-> FALSE, video |-> <<>>]

Init ==
  /\ main = "ready" /\ todo = {} /\ after = "ready"
  /\ n = 0 /\ episode = 0 /\ active = FALSE
  /\ threads = [t \in Threads |-> NotStarted]
  /\ accepted = [t \in Threads |-> <<>>]
  /\ finished = {}

\* The thread of a camera in this episode.
Of(key) == <<key, episode>>
Alive(t) == threads[t].state = "run"
Full(t) == Len(threads[t].queue) >= queue_maxsize

-------------------------------------------------------------------------------
(* The recording thread.                                                     *)

\* add_frame; the first frame of an episode starts the threads.
AddFrame ==
  /\ main = "ready" /\ n < MaxFrames /\ (active \/ episode < MaxEpisodes)
  /\ n' = n + 1 /\ main' = "feed" /\ todo' = video_keys
  /\ IF active THEN UNCHANGED <<episode, active, threads>>
     ELSE /\ episode' = episode + 1 /\ active' = TRUE
          /\ threads' = [t \in Threads |-> IF t[2] = episode' THEN [NotStarted EXCEPT !.state = "run"]
                                           ELSE threads[t]]
  /\ UNCHANGED <<after, accepted, finished>>

feed_frame(key) ==
  /\ main = "feed" /\ key \in todo /\ Alive(Of(key)) /\ ~Full(Of(key))
  /\ threads' = [threads EXCEPT ![Of(key)].queue = Append(@, n)]
  /\ accepted' = [accepted EXCEPT ![Of(key)] = Append(@, n)]
  /\ todo' = todo \ {key}
  /\ UNCHANGED <<main, after, n, episode, active, finished>>

\* The queue stays full: the frame is dropped with a warning.
DropFrame(key) ==
  /\ main = "feed" /\ key \in todo /\ Alive(Of(key)) /\ Full(Of(key))
  /\ todo' = todo \ {key}
  /\ UNCHANGED <<main, after, n, episode, active, threads, accepted, finished>>

\* The thread is dead: the exception ends the session.
FeedRaises(key) ==
  /\ main = "feed" /\ key \in todo /\ ~Alive(Of(key))
  /\ main' = "cancel" /\ after' = "over" /\ todo' = {}
  /\ UNCHANGED <<n, episode, active, threads, accepted, finished>>

FrameFed ==
  /\ main = "feed" /\ todo = {}
  /\ main' = "ready"
  /\ UNCHANGED <<todo, after, n, episode, active, threads, accepted, finished>>

\* save_episode calls finish_episode.
Save ==
  /\ main = "ready" /\ active
  /\ main' = "sentinel" /\ todo' = video_keys
  /\ UNCHANGED <<after, n, episode, active, threads, accepted, finished>>

\* The episode is recorded again, or the session ends.
Abandon ==
  /\ main = "ready" /\ active
  /\ main' = "cancel" /\ todo' = {} /\ after' \in {"ready", "over"}
  /\ UNCHANGED <<n, episode, active, threads, accepted, finished>>

Close ==
  /\ main = "ready" /\ ~active /\ main' = "over"
  /\ UNCHANGED <<todo, after, n, episode, active, threads, accepted, finished>>

\* A blocking put, without a timeout.
PutSentinel(key) ==
  /\ main = "sentinel" /\ key \in todo /\ ~Full(Of(key))
  /\ threads' = [threads EXCEPT ![Of(key)].queue = Append(@, Sentinel)]
  /\ todo' = todo \ {key}
  /\ UNCHANGED <<main, after, n, episode, active, accepted, finished>>

SentinelsSent ==
  /\ main = "sentinel" /\ todo = {}
  /\ main' = "join" /\ todo' = video_keys
  /\ UNCHANGED <<after, n, episode, active, threads, accepted, finished>>

\* Faulty variant: the frames are taken for encoded once None is sent.
JoinEarly(key) ==
  /\ main = "join" /\ key \in todo /\ threads[Of(key)].state # "error"
  /\ finished' = finished \cup {Of(key)}
  /\ todo' = todo \ {key}
  /\ UNCHANGED <<main, after, n, episode, active, threads, accepted>>

Join(key) ==
  /\ main = "join" /\ key \in todo /\ threads[Of(key)].state = "ok"
  /\ finished' = finished \cup {Of(key)}
  /\ todo' = todo \ {key}
  /\ UNCHANGED <<main, after, n, episode, active, threads, accepted>>

\* The thread failed: the exception leaves the episode active, and the end of
\* the session cancels it.
JoinRaises(key) ==
  /\ main = "join" /\ key \in todo /\ threads[Of(key)].state = "error"
  /\ main' = "cancel" /\ after' = "over" /\ todo' = {}
  /\ UNCHANGED <<n, episode, active, threads, accepted, finished>>

\* Faulty variant: a thread that is late is left alone.
LeaveThread(key) ==
  /\ main = "join" /\ key \in todo /\ Alive(Of(key))
  /\ todo' = todo \ {key}
  /\ UNCHANGED <<main, after, n, episode, active, threads, accepted, finished>>

\* A late thread is told to stop, and its video is taken as it is.
JoinTimesOut(key) ==
  /\ main = "join" /\ key \in todo /\ Alive(Of(key))
  /\ threads' = [threads EXCEPT ![Of(key)].stop = TRUE]
  /\ todo' = todo \ {key}
  /\ UNCHANGED <<main, after, n, episode, active, accepted, finished>>

\* _cleanup empties the queues, also those of threads that still run.
Cleanup == [t \in Threads |-> IF t[2] = episode THEN [threads[t] EXCEPT !.queue = <<>>]
                              ELSE threads[t]]

EpisodeFinished ==
  /\ main = "join" /\ todo = {}
  /\ threads' = Cleanup /\ active' = FALSE /\ main' = "ready"
  /\ UNCHANGED <<todo, after, n, episode, accepted, finished>>

\* cancel_episode: every stop event is set, ...
SignalStop ==
  /\ main = "cancel" /\ main' = "cancelled" /\ todo' = video_keys
  /\ threads' = [t \in Threads |-> IF t[2] = episode THEN [threads[t] EXCEPT !.stop = TRUE]
                                   ELSE threads[t]]
  /\ UNCHANGED <<after, n, episode, active, accepted, finished>>

\* ... every thread is joined, for at most five seconds, ...
CancelJoin(key) ==
  /\ main = "cancelled" /\ key \in todo
  /\ todo' = todo \ {key}
  /\ UNCHANGED <<main, after, n, episode, active, threads, accepted, finished>>

\* ... and everything is forgotten.
EpisodeCancelled ==
  /\ main = "cancelled" /\ todo = {}
  /\ threads' = Cleanup /\ active' = FALSE /\ main' = after
  /\ UNCHANGED <<todo, after, n, episode, accepted, finished>>

-------------------------------------------------------------------------------
(* An encoder thread.                                                        *)

Encode(t) ==
  /\ Alive(t) /\ threads[t].queue # <<>>
  /\ LET frame == Head(threads[t].queue)
         taken == [threads[t] EXCEPT !.queue = Tail(@)]
     IN  \/ /\ frame = Sentinel
            /\ threads' = [threads EXCEPT ![t] = [taken EXCEPT !.state = "ok"]]
         \/ /\ frame # Sentinel
            /\ threads' = [threads EXCEPT ![t] = [taken EXCEPT !.video = Append(@, frame)]]
  /\ UNCHANGED <<mainVars, accepted, finished>>

EncodeFails(t) ==
  /\ Alive(t) /\ threads[t].queue # <<>>
  /\ threads' = [threads EXCEPT ![t].queue = Tail(@), ![t].state = "error"]
  /\ UNCHANGED <<mainVars, accepted, finished>>

\* Only an empty queue makes it look at its stop event.
SeeStop(t) ==
  /\ Alive(t) /\ threads[t].queue = <<>> /\ threads[t].stop
  /\ threads' = [threads EXCEPT ![t].state = "ok"]
  /\ UNCHANGED <<mainVars, accepted, finished>>

-------------------------------------------------------------------------------
Main ==
  \/ AddFrame \/ FrameFed \/ Save \/ Abandon \/ Close \/ SentinelsSent \/ EpisodeFinished
  \/ SignalStop \/ EpisodeCancelled
  \/ \E key \in video_keys :
       \/ feed_frame(key) \/ DropFrame(key) \/ FeedRaises(key) \/ PutSentinel(key)
       \/ Join(key) \/ JoinRaises(key) \/ JoinTimesOut(key) \/ CancelJoin(key)

Encoder(t) == Encode(t) \/ EncodeFails(t) \/ SeeStop(t)

Next == Main \/ \E t \in Threads : Encoder(t)

Spec == Init /\ [][Next]_vars

FairSpec == Spec /\ \A t \in Threads : WF_vars(Encoder(t))

-------------------------------------------------------------------------------
(* Types of the state.                                                       *)
TypeOK ==
  /\ main \in {"ready", "feed", "sentinel", "join", "cancel", "cancelled", "over"}
  /\ todo \subseteq video_keys /\ after \in {"ready", "over"}
  /\ n \in 0 .. MaxFrames /\ episode \in 0 .. MaxEpisodes /\ active \in BOOLEAN
  /\ \A t \in Threads :
       /\ threads[t].state \in {"none", "run", "ok", "error"} /\ threads[t].stop \in BOOLEAN
       /\ Len(threads[t].queue) <= queue_maxsize
  /\ finished \subseteq Threads

(* A video that finish_episode returns with a result shows exactly the       *)
(* frames its queue accepted, in order: none is lost to a stop event, to the *)
(* clean-up or to the thread of another episode (video_utils.py:841-885).    *)
FinishedIsFed == \A t \in finished : threads[t].video = accepted[t]

(* No encoder thread outlives the session for ever, also if it was slow, was *)
(* cancelled or stood beside one that failed (video_utils.py:869-926).       *)
ThreadsEnd == main = "over" ~> \A t \in Threads : ~Alive(t)

================================================================================
