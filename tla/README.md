# TLA+ models of the LeRobot (SmolVLA RGB-D) runtime

This directory specifies, model-checks and partly proves the concurrent and
stateful core of the repository: what runs while a policy drives a robot, while
a dataset is recorded and while an actor and a learner train a policy together.
Paths below are relative to `src/lerobot/`.

```
tlc -workers 2 -config rollout.cfg MCRollout         # a run: <run>.cfg with its MC module
tlapm RTCInferenceProofs.tla                       # a proof module
```

`PROJECT.json` lists components, runs, mutants (a plausible bug per property
that the run must detect), the map from definitions to source lines, hazards,
findings and theorems.

## 1. Inventory

### Asynchronous inference (`async_inference/`)

| part | state | operations |
|---|---|---|
| `RobotClient` | `action_queue`, `latest_action`, `must_go`, `action_chunk_size`, `shutdown_event`, `start_barrier` | `start`, `stop`, control loop (pop, perform, observe, send), receiver thread (`GetActions`, aggregate, swap) |
| `PolicyServer` | `observation_queue` (one place), `_predicted_timesteps`, `last_processed_obs`, `policy` | RPCs `Ready`, `SendPolicyInstructions`, `SendObservations`, `GetActions`, on a pool of 4 threads |
| gRPC channel | calls in flight, retry policy (`transport/utils.py`) | deliver late, fail, retry, cancel on close |

Two client threads and up to four server threads share two queues and one
flag. Hard: the interleaving of the control loop with the queue swap; the
must-go flag, which is the only way out of an empty queue; a server that
outlives its clients, with handlers of the last session still at work when the
next one starts. Correct means: actions are performed in order and once, an
empty queue leads to new actions, no handler blocks for good, `stop()` stops.

### Rollout (`rollout/`, `policies/rtc/`)

| part | state | operations |
|---|---|---|
| `RTCInferenceEngine` (`inference/rtc.py`) | five events, `_obs_holder`, error and warmup counters, thread | `start`, `stop`, `pause`, `resume`, `reset`, `notify_observation`, `get_action`, `_rtc_loop` |
| `ActionQueue` (`policies/rtc/action_queue.py`) | `queue`, `original_queue`, `last_index` | `get`, `clear`, `qsize`, `get_left_over`, `merge` (replace or append) |
| strategies' core (`strategies/core.py`, `base.py`) | `_warmup_flushed`, loop position | control loop, `_handle_warmup`, `send_next_action`, teardown |
| `RolloutRingBuffer` | deque with `maxlen`, byte estimate | `append`, `drain` |
| `HighlightStrategy` | three key events, episode lock, push executor | loop, keys, background push, teardown |
| `SentryStrategy` | `_needs_push`, episode lock, push executor | loop with rotation, background push, teardown |
| `DAggerStrategy` | phase, pending transition, stop and upload events | transitions, two recording modes |
| sync engine, factories, context, configs | none between calls | - |

Hard: real time (a chunk is about moments that pass while it is computed),
reset of an engine whose thread is at work, warmup, failures that must end the
rollout; keys, uploads and saves in any order; shutdown at any point. Correct
means: the plan the robot follows keeps pace with time, a fed robot never runs
dry, a failed engine ends the rollout, no recorded episode is lost, cut or
duplicated, and the Hub ends up with all of them, readable.

### Datasets (`datasets/`)

| part | state | operations |
|---|---|---|
| `DatasetWriter` | episode buffer, open parquet writer, latest episode's file | `add_frame`, `clear_episode_buffer`, `save_episode` (rows, videos, metadata), `finalize` |
| `LeRobotDatasetMetadata` | `info.json`, buffered metadata rows, open metadata file | `save_episode`, `_flush_metadata_buffer`, `finalize` |
| `LeRobotDataset` | writer and metadata of a session | `create`, `resume`, `push_to_hub` |
| `StreamingVideoEncoder` | per camera: bounded queue, thread, stop event, result queue | `start_episode`, `feed_frame`, `finish_episode`, `cancel_episode`, `close` |

Hard: a failure or a crash between the writes of one episode, metadata that is
buffered while the counters are not, three kinds of files that roll over
independently and are continued by later sessions, encoder threads that are
slow, die or are cancelled. Correct means: an episode that is listed has its
rows and its stretch of every video, for ever; orderly sessions read back what
was recorded; a finished video shows exactly what its queue accepted; threads
end.

### Reinforcement learning (`rl/`, `transport/`)

| part | state | operations |
|---|---|---|
| actor (`actor.py`) | episode's transitions, policy, three queues, `shutdown_event` | environment loop, `send_transitions`, `send_interactions`, `receive_policy` |
| learner (`learner.py`, `learner_service.py`) | three queues, replay buffer, step counters, checkpoints | RPC handlers, `process_transitions`, `process_interaction_messages`, optimization, parameter push, checkpoint |
| `transport/utils.py` | `bytes_buffer` of a stream | `send_bytes_in_chunks`, `receive_bytes_in_chunks` |
| `ReplayBuffer` | ring of transitions, `position`, `size` | `add`, `sample` |

Hard: messages cut into chunks between queues that are drained, closed and
broken at any time; a channel that retries a broken stream from what it has
kept; a ring that stores a state's successor in the slot behind it; threads that
wait for data and for a shutdown event at once. Correct means: transitions reach
the buffer in order, and twice only when the channel sends whole episodes again;
sampled successors are successors, the actor's parameters only get newer, both
sides end, and a checkpoint says where training was.

### Cameras and the robot that reads them (`cameras/realsense/`, `robots/so_follower/`)

| part | state | operations |
|---|---|---|
| `RealSenseCamera` | pipeline, thread, stop event, newest color and depth image, `new_frame_event` | `connect`, `disconnect`, `async_read`, `read_latest`, `read_depth` |
| its thread | the frame it has read, failures in a row | `_read_loop` |
| `SOFollower` | - | `get_observation` |

Hard: the thread overwrites the buffer at any time, sets the event after it has
released the lock, may hang in the hardware for longer than a join waits, or end
after failures; a camera is reconnected with the same buffer and event. Correct
means: an observation's images are of the present connection, its depth is not
older than its color, and a set event stands for a frame.

### The rest

Motors, other robots, teleoperators,
processors, policies, training, environments, offline dataset tools and
scripts. The components list in `PROJECT.json` gives the reason for each one
that is not modelled.

## 2. Modules

```
AsyncTypes <- RobotClient, PolicyServer
RobotClient + PolicyServer <- AsyncInference <- MCAsyncInference, AsyncInferenceProofs

PendingActions <..refines.. ActionQueue
ActionQueue <- RTCInference <- MCRTCInference, RTCInferenceProofs

RingBuffer + DatasetPush <- Highlight <- HighlightProofs
             DatasetPush <- DAgger    <- DAggerProofs
             DatasetPush <- Sentry    <- MCSentry
Sentry + Highlight + DAgger <- MCStrategies
MCRTCInference + MCStrategies <- MCRollout
MCStrategies + HighlightProofs + DAggerProofs <- StrategiesProofs

ReplayBuffer + Transport <- ActorLearner <- MCActorLearner
DatasetWriter <- MCDatasetWriter, WriterProofs
StreamingEncoder <- EncoderProofs
ActorLearner + DatasetWriter + StreamingEncoder + Camera <- MCData
MCData + EncoderProofs + WriterProofs <- DataProofs
```

`MCStrategies`, `MCRollout` and `MCData` are sums, not compositions: a behaviour is
of one of their components, which a variable chooses at the start, and the
others stand still. Sentry, Highlight and DAgger are alternatives in the program
too (`create_strategy`); the engine and the strategies of `MCRollout`, and the
components of `MCData`, share a run because they do not share state. What is proved of
`RTCSpec` and of `StrategiesSpec` is what the run of `MCRollout` checks on its instance.

**RobotClient.** An action is its timestep. A step goes from one access to
shared state to the next, so `actions_available` and `get_nowait` are two steps
(`Avail`, `Pop`), the iteration over the aliased deque begins and ends
(`IterateBegin`, `IterateEnd`: a pop in between raises and kills the thread),
each new action is compared with `latest_action` on its own (`Filter`), and the
swap comes after (`Swap`). The server is open: any chunk, at any time. This is
the specification the proofs are about.

**PolicyServer.** One record per pool thread says where its handler is.
`_reset_server` replaces the queue object; a handler blocked in `get` or `put`
stays with the one it called, so `obsQueue` is the sequence of all of them.
The three operations of `_enqueue_observation` on the queue are three steps.

**AsyncInference** joins the two: a call binds a client thread to a worker.
`SendFails`, `GetFails`, `SendRetried` and `GetRetried` cut the bond while the
worker goes on; so one client can have two handlers of `SendObservations` at
work. `Stop` and `Restart` put a new client process before the same server. The
property `ClientSpec` shows that the joined system is one of the open client's
behaviours, so that what is proved of `RobotClient` holds here.

**PendingActions / ActionQueue.** The abstract queue is a sequence with take,
forget, replan and extend, the detailed one has two arrays and an index. Each
method holds the lock and is one step.

**RTCInference** extends `ActionQueue` with the control loop, tick by tick, and
with `_rtc_loop`, one step per access to shared state. `Sleep`, the end of a
loop iteration, is the tick. An action carries the step of the plan it is meant
for and whether its inference was under way at the last reset
(`OutdateInference`); an inference that begins after a reset does not count as
stale, whatever it observes. DAgger's pause and resume are part of the loop
(`PausePolicy`, `ResetPolicy`, `ResumePolicy`), because they exercise the same
engine.

**RingBuffer, DatasetPush, Highlight, Sentry, DAgger.** Frames are numbers. The
dataset is its episodes and the state of the parquet file being written; an
upload has a beginning and an end and sees the file as it was at either. Its
episodes are those `info.json` counts; that their metadata rows may still be
buffered, and the files open, is what `readable` says. A save, and the drain of
the ring into a new episode (`DrainFails`), may raise and leave the buffer
`broken`. `save_episode` needs the lock, the exit of `VideoEncodingManager`
(`finalize`) does not, as in the code. In `DAgger` the input thread sets the
pending request and the upload event, and the main loop consumes them;
`record_autonomous` chooses between the two loops, whose steps have the same
names; a stride makes only some ticks frames; time (rotation) is a choice. What
a save and its flag do is two steps, since `needs_push` is set after the lock is
released.

**DatasetWriter** is the inside of `save_episode`. The disk is tables of parquet
files (rows, and whether the footer is written), videos (the frames they show)
and `info.json`; the memory is the episode buffer, the buffered metadata rows
and the latest row. `_save_episode_data`, `_save_episode_video` (once per
camera), `_save_episode_metadata` (the row is buffered), `write_info` and
`write_stats` are the phases of a save; `SaveRaises` and `Crash` come between
any two. Either may leave the JSON or tasks file that was being written in half
(`torn`). The totals in memory, which an exception loses with the session, are
not kept apart from `info`. A row's `order`, the number of rows made before it,
is a history: after a failed `write_info` two episodes have the same
`episode_index`. `resume` reads the metadata back, and only if it can. Whether a
file is full is a choice, so every rollover happens, and `chunks_size` = 2 makes
chunks roll over as well. What a reader sees is `Listed`, `RowSays` and
`VideoShows`: by place, as `DatasetReader` reads.

**StreamingEncoder** has one queue and one thread per camera and episode, so
that a late thread of an earlier episode goes on beside the current one. The
recording thread goes through the cameras one by one (`todo`), as the loops of
the code do. `EncodeFails` and `JoinTimesOut` may happen at any time.

**ReplayBuffer** has the producer open: whatever follows in the order of the
environment may be added or skipped. `ReplaySpec` is what the proof is about,
and the abstract specification that `ActorLearner` is shown to implement
(`ReplayIsFed`): the pipeline from the actor's list of transitions through its
queue, the chunks on the wire, the handler's `bytes_buffer` and the learner's
queue delivers whole episodes in order. It may start again from an episode that
has come already (`GoesBack`), after a whole one and at most `MaxRepeats` times:
the channel's retries. Nothing in the code recognizes such a repetition, so
"once" would be false.

**ActorLearner** takes one step per access to a queue, an event or the wire.
`SendChunk`, `ReceiveChunk` move one chunk; `CallReturns`, `TransitionsBreak`
and `ServerStops` end the stream and lose what is on it. The retry policy of
`grpc_channel_options` covers `SendTransitions`: `SendChunk` keeps each chunk
for the next attempt until gRPC's buffer is full (`RetryBuffer`), which commits
the call, and `TransitionsRetried` sends what was kept, and then the rest, to a
new handler. Parameters are the optimization step they come from. The
interactions' stream, of which only the newest message counts, is one cell.

**Camera.** A frame is its number, one for both images. The main thread is the
robot: it connects (with warmup reads), observes, disconnects, and after an
exception only disconnects. Each access to the buffer, the event or the thread is
a step; `_read_loop` reads, stores under the lock, and signals after it.
`ReadFails`, and a join that times out (`left_behind`), may happen whenever the
thread is in the hardware. A thread looks the stop event up anew in each
iteration (`camera_realsense.py:484`), so one left behind can read on beside
the next; the property is about runs without that. Color comes from
`read_latest`, depth from `read_depth`, which waits for a later frame: the two
images of an observation are as a rule of different captures. And since the
event is set after the lock is released, `async_read` can take a frame before
its event is set and return it once more, though `camera.py:132` promises "the
latest unconsumed frame".

## 3. Runs

| run | what it shows |
|---|---|
| `async_recovery` | `TypeOK`, `QueueIsOneChunk`, `ActionsWerePredicted` with one fault anywhere and two client processes |
| `async_live` | `MustGoIsServed`, `StopJoinsReceiver`, `HandlersReturn`, `ClientSpec` in one session without faults |
| `async_order` | violated: `PerformsInOrder` |
| `async_starve` | violated: `RobotProgresses` |
| `async_put` | violated, with one fault: `PutNeverBlocks` |
| `rollout` | engine: `RTCTypeOK`, `LeftOverMatchesPlan`, `ImplementsPlan`, `PlanFollowsTime`, `NeverStarves`, `FailureEndsRollout`, `StopEndsThread`; Sentry: `TypeOK`, `NoEpisodeForgotten`, `HubHasAll`; Highlight: `HighlightTypeOK`, `RingIsRecent`, `EpisodesAreStretches`, `NothingUnsaved`, `HubIsComplete`, `SessionEnds`; DAgger: `RequestFitsPhase`, `CorrectionsAreWhole`, `NothingForgotten` |
| `rtc_stale` | violated: `NoStaleActions` |
| `rtc_warmup` | violated: `WarmupEnds` |
| `sentry_hub` | violated: `HubIsReadable` |
| `data` | actor and learner: `TypeOK`, `SampledNextFollows`, `ReplayIsFed`, `ParametersGetNewer`, `ActorJoins`; writer: `RecordingTypeOK`, `ListedIsStored`, `ListedStays`, `SessionsReadBack`, `FailuresLeaveItWhole`; encoder: `FinishedIsFed`, `ThreadsEnd`; camera: `ObservationsAreCurrent` |
| `dataset_failure` | violated: `FailureReadsBack` |
| `rl_checkpoint` | violated: `CheckpointKeepsStep` |

The violated properties are quoted from the code's own comments, docstrings and
tests; `findings` in `PROJECT.json` tells the counterexamples. Four more are
refuted by TLC, each in a few seconds, when an existing configuration is given
them instead of its property:
- `MustGoIsEnqueued` in `async_put.cfg`
  (`tests/async_inference/test_policy_server.py:144`, "An observation with
  `must_go=True` is always enqueued."): `GetActions` takes the old observation
  between `full()` and `get_nowait()`, which raises `Empty`.
- `IndexIsItsOwn` in `dataset_failure.cfg` (`feature_utils.py:345-349`, an episode's
  index is the number of episodes before it; `video_utils.py:1063`, "data cleanup
  even if exceptions occur"): `write_info` fails after the metadata row was
  buffered, `finalize` lists that episode, and the resumed session gives its
  index to another.
- `IssueCanResume` in `dataset_failure.cfg` (`docs/source/il_robots.mdx:350`,
  checkpoints "are automatically created during recording"): a session killed
  before its end leaves a metadata file without a footer, or none, or half an
  `info.json`, and `resume` raises.
- `NoPushInCorrection` of `DAgger`, as `D!NoPushInCorrection` in a module that
  extends `MCRollout`, with the constants of `rollout.cfg` (`dagger.py:805`,
  pushes "are blocked while the operator is mid-correction"): the phase is
  tested when a push is submitted, and a queued one runs later.

`MustGoIsServed` allows what refutes `MustGoIsEnqueued` (a must-go observation
that loses the race in `_enqueue_observation`, whose call then fails) and
nothing more: in every other case the policy runs on that observation or on one
taken no earlier.

### Bounds, and why they are enough

- **async**: two workers (one call of each kind is in flight, and a third
  handler is possible only for an orphan, which the second session provides);
  chunks of two actions, the least with which actions overlap between chunks;
  `Horizon` ends the popping of actions at timestep 1 or 2, past the first
  overlap; threshold 1/2, so that observations are sent with an empty and a
  half-empty queue. `PatientGet` says that a `get` does not time out in the
  instants between a sender's eviction and its put, which the liveness runs need
  (timeout 0 is legal and would let `GetActions` miss every observation) and
  the safety run does without. The liveness runs have no fault; `async_put` has
  one, which a second sender needs.
- **rollout**, engine: chunk 6, threshold 3, latency of at most one tick once warm, two
  warmup inferences, two errors in a row, one pause. `NeverStarves` is
  tight: a threshold of 2 (latency + 1) violates it, because the request
  itself may come a tick late. The interval of `PlanFollowsTime` is tight at
  both ends. Ages saturate beyond a chunk's length. Warmup inferences may take
  any time.
- **rollout**, strategies: six frames (three in DAgger), a ring of two, four presses of
  the save key (two episodes), two of the push key; upload every two episodes;
  two corrections, a stride of two, one queued push. The
  ring's byte limit (7, frames of 2) is where the drifting estimate differs
  from the true size and evicts.
- **data**: three sessions of four frames with chunks of two files and a
  metadata buffer of two rows: a session can continue a file, start one, and
  find a failed or crashed predecessor. Two episodes of encoding with queues of
  two, so that a thread of the first may outlive it into the second, and queues
  fill up. Two environment steps, a ring of two (filling, full, and wrapped when
  a retry brings them again), messages of one chunk and of two, parameters of
  two versions, one retry of a stream that keeps two chunks (a message of two,
  or two messages of one). Two connections of a camera, three frames, two
  failures in a row end a thread: a frame of the first connection, a color
  image, and a later depth image.
- **rl_checkpoint, dataset_failure**: the same models, with checkpoints and with two
  cameras; **rtc_stale, rtc_warmup**: the engine alone, with warmup and no pause.

### Fairness

Weak fairness of each thread: the operating system schedules it, and every wait
in it is a sleep, a lock held for a bounded time, or a call with a timeout.
`TakeObservation` is strongly fair, since `put` wakes the waiting `get`. Uploads and
inferences end, with or without an error. An encoder thread encodes or fails.
`TrainAndPush` is strongly fair: parameters are pushed by the clock, and an
optimization step ends after the period again and again. `ActorJoins` assumes a
learner that trains or shuts down: before it has enough transitions it sends
nothing, and the actor does wait (`receive_bytes_in_chunks` tests its event only
when an item comes). Nothing makes a fault, a key press, an interrupt, a
restart or a resume happen, and nobody has to stop a rollout.

## 4. Proofs

| module | theorem | statement |
|---|---|---|
| `AsyncInferenceProofs` | `ClientTypeCorrect` | `ClientSpec => []ClientTypeOK` |
| | `ClientQueueCorrect` | `ClientSpec => []QueueIsOneChunk` |
| | `SystemTypeCorrect` | `Spec => []TypeOK` |
| | `SystemQueueCorrect` | `Spec => []QueueIsOneChunk` |
| | `ActionsOfThisSession` | `Spec => []ActionsWerePredicted` |
| | `SystemImplementsClient` | `Nat \subseteq Timesteps => (Spec => ClientSpec)` |
| `RTCInferenceProofs` | `QueueTypeCorrect` | `QueueSpec => []QueueTypeOK` |
| | `LeftOverCorrect` | `QueueSpec => []LeftOverMatchesPlan` |
| | `QueueImplementsPlan` | `QueueSpec => ImplementsPlan` |
| | `RolloutTypeCorrect` | `RTCSpec => []RTCTypeOK` |
| | `RolloutKeepsLeftOver` | `RTCSpec => []LeftOverMatchesPlan` |
| | `RolloutImplementsPlan` | `RTCSpec => ImplementsPlan` |
| | `RolloutFollowsTime` | `RTCSpec => PlanFollowsTime` |
| | `ThresholdSuffices` | `EnoughAhead => (RTCSpec => NeverStarves)` |
| `StrategiesProofs` | `DAggerRequestsFit` | `StrategiesSpec => []RequestFitsPhase` |
| | `DAggerCorrectionsWhole` | `StrategiesSpec => []CorrectionsAreWhole` |
| | `DAggerForgetsNothing` | `StrategiesSpec => []NothingForgotten` |
| | `HighlightTypeCorrect` | `StrategiesSpec => []HighlightTypeOK` |
| | `HighlightRingRecent` | `StrategiesSpec => []RingIsRecent` |
| | `HighlightEpisodesStretch` | `StrategiesSpec => []EpisodesAreStretches` |
| | `HighlightSavesLive` | `StrategiesSpec => []NothingUnsaved` |
| | `HighlightHubComplete` | `StrategiesSpec => []HubIsComplete` |
| | `SentryForgetsNothing` | `StrategiesSpec => []NoEpisodeForgotten` |
| | `SentryHubHasAll` | `StrategiesSpec => []HubHasAll` |
| | `SentryTypeCorrect` | `StrategiesSpec => []TypeOK` |
| `DataProofs` | `SampleCorrect` | `ReplaySpec => []SampledNextFollows` |
| | `LearnerImplementsReplay` | `RLSpec => ReplayIsFed` |
| | `LearnerSamplesPairs` | `RLSpec => []SampledNextFollows` |
| | `LearnerTypeCorrect` | `RLSpec => []TypeOK` |
| | `ActorOnlyAdvances` | `RLSpec => []ParametersGetNewer` |
| | `RecordingTypeCorrect` | `DataSpec => []RecordingTypeOK` |
| | `ListedEpisodesStored` | `DataSpec => []ListedIsStored` |
| | `ListedEpisodesStay` | `DataSpec => ListedStays` |
| | `FailuresLeaveDatasetWhole` | `DataSpec => []FailuresLeaveItWhole` |
| | `SessionsAreReadBack` | `DataSpec => []SessionsReadBack` |
| | `FinishedVideosComplete` | `DataSpec => []FinishedIsFed` |
| | `CameraObservesCurrent` | `CameraSpec => []ObservationsAreCurrent` |

The only assumptions are those the modules state on their constants, which TLC
evaluates in the runs. Two theorems (`SystemImplementsClient`, `ThresholdSuffices`) have
a hypothesis of their own, explained below.

- *The client's queue.* The queue is only ever a tail of `future_action_queue`,
  which the receiver builds while the queue is being popped. The inductive
  invariant says that `future` followed by `incoming` is ascending and no longer
  than a chunk, in each position of the receiver, beside the queue itself.
- *Client and server.* `JointInv` joins the client's invariant to three facts. A
  handler past its acceptance belongs to a session that has begun, and what it
  carries was captured at a timestep (`ServerInv`: jobs are `Sound`, queue objects
  hold nothing or one such observation). A pending call is served by a handler of
  its own kind (`CallInv`), so a reply goes to the call it answers even when
  faults have cut earlier bonds. A client in its handshake holds nothing and
  waits for nothing (`FreshInv`). From it follow types, and that every step of the
  system is a step of the open client or the arrival of one chunk
  (`ClientSide`), hence `SystemImplementsClient`; its hypothesis lets the open client
  be sent any timestep, where a run has to bound them. For `ActionsWerePredicted` the
  invariant is `PredInv`: the queue, the chunk being compared, the future queue
  and the observation of the pending `GetActions` are all covered by
  `_predicted_timesteps`. It says nothing of orphaned handlers, whose timesteps
  `_reset_server` forgets; that it is inductive all the same shows that they
  cannot reach the client.
- *The action queue.* Equal lengths and an index within them are inductive. The
  refinement maps `plan` to `queue[last_index:]`; lemmas on `Drop` (its length,
  its elements, what it does to a concatenation) give each step. `RolloutUsesQueue`
  shows that every step of the rollout is a method of the queue or leaves it
  alone, which carries both results over to the rollout; `RolloutAssumption`
  says that the queue admits the chunks and delays the thread produces.
- *The plan and time.* In a rollout the queue is always the end of a chunk
  (`EndOfChunk`), so the next action is that of step `ChunkSize - qsize`, and
  `OnTime` bounds the difference to the chunk's age, one tick apart between
  `sleep` and the rest of the loop. What a merge brings is off by what rounding the
  latency to ticks costs (`Rounded`). `LoopInv` says when the loop may take
  actions at all: running, past the warmup's flush.
- *The threshold.* `Supply` counts, for each position of the inference thread, the
  actions that must still be there until the next merge; `WarmInv` and `PrimedInv`
  say that a fed thread is past its warmup inferences, whose latency is
  unbounded, and is working. `EnoughAhead` (`MaxLatency` + 2 <= `queue_threshold` and
  2 `MaxLatency` + 4 <= `ChunkSize`) is tight: the run's constants meet it with
  equality, and TLC finds a dry robot with either lowered by one.
- *Sentry.* `needs_push` is set after the lock is released and cleared under it.
  The invariant adds what an upload under way has read: while the worker holds the
  lock nothing is saved, so what it read is everything, and its end makes the
  Hub complete exactly when it clears the flag.

  `HubHasAll` follows from it with what each position of the main loop knows of
  the final save and of the executor.
- *A session of one strategy.* `DAggerProofs` and `HighlightProofs` prove lemmas
  about one step of a strategy; `StrategiesProofs` instantiates them with the
  variables of `MCStrategies` (`DP`, `HP`), discharges their constants from
  `StrategiesAssumption`, shows that a step of a session is one of the strategy
  or a stutter, and states the theorems.
- *DAgger.* `needs_push` follows Sentry's argument (`FlagInv`). For whole corrections,
  `WholeInv`: every frame is in the buffer or in a saved episode and never in
  both; while a correction is under way none of its frames is saved
  (`CurrentIsUnsaved`); in corrections-only mode the buffer holds one correction
  or, in between, nothing.
- *Highlight.* The ring is `Stretch(Recorded, Len(ring))`, the frames up to the
  newest, and so is the episode under way; saved episodes end before both
  (`EpisodesComeBefore`). The byte estimate drifts from the truth when a full
  deque drops a frame by itself: `RingInv` bounds it on both sides, which is
  enough to know the ring's length at every moment, including the case of a
  frame larger than the limit. A drain that fails leaves a part of the ring in a
  buffer that is `broken`, and the session in its teardown (`Ended`), so nobody
  saves it. `EndsInOrder` follows the teardown: final save, `finalize()`, wait
  for the pushes, last push.
- *The replay buffer.* The inductive invariant says of every written slot but
  the newest that the slot behind it, if written later, holds the state that
  follows, unless the episode ended or the successor was skipped; and it ties
  the newest slot to `last`, past any skipped transitions. `high` excludes the
  newest slot while the buffer fills.
- *Actor and learner.* The invariant `PipeInv` is about two streams at once:
  what the handler has still to get (`Rest`: wire and unsent chunks) and what
  the next one would get if the call were tried again (`Again`: the kept chunks
  before them). Both are `Stream`s (`StreamOK`): chunks are `Linked` to those of
  one message or to the first of a later one, and the `bytes_buffer` is what
  `Rest` lacks at its beginning, so that neither a break nor a retry joins
  halves of two messages. The learner's queue is `Ordered`: within one attempt
  messages come in the order of the environment, and a later attempt may begin
  again. `InOrder` lists the messages from the learner's end (`Received` in the
  attempt under way, `Coming`, `Held` for the next one, `Waiting` in the actor's
  queue) and says that each ends before those behind it start. `BatchOK` and
  `InTime` place the learner's `last` and the rest of its `batch` before what
  comes in the same attempt, the actor's `unsent` after everything. `BatchOK`
  also bounds the repetitions: `repeats` is never more than `tried`, the attempt
  the current batch came in, since the buffer goes back only when the attempt
  grows, and `Behind` says that what is queued came no earlier. With
  `MaxRetries` at most `MaxRepeats` (`LearningAssumption`) every step of
  `RLNext` either adds a transition that `Follows` or leaves the buffer alone,
  and what `SampleCorrect` says of `ReplaySpec` carries over. `NewerInv` is
  `ParametersGetNewer` queue by queue.
- *The encoder.* What a thread has encoded, followed by its queue, is its line
  (`Line`). `Faithful`: unless its stop event is set, a thread that runs is of this
  episode, its line is what its queue accepted, perhaps with the sentinel behind
  it, and one that ended well has encoded all of it. `Stage` says, for each
  position of the recording thread, which threads may still be fed (`Open`), and
  that none is left at work when the queues are emptied but those told to stop.
  `EncoderProofs` has the lemmas about one step, and `DataProofs` turns them into a
  theorem about a session.
- *The camera.* As long as no thread was left behind, a thread that is alive is
  the one the camera knows, and there is none between the join and the next
  start (`OneReader`). Hence what a thread holds is the newest frame of this
  connection (`ReadersAreCurrent`), the buffer only gets newer (`BufferIsCurrent`),
  and a color image read stays at most as new as the buffer until depth is read
  (`ColorIsCurrent`).

- *The dataset writer.* `WriterInv` of `WriterProofs` orders what a directory listing
  orders for the program. While rows are buffered or a file is open, the row
  in `latest_episode` is the newest of all (`Newest`: no other row has a later
  number, metadata, data or video file), and it is still buffered, or last in the
  open file (`Writing`). Otherwise the last file ends with the newest row
  (`TopOK`), so what `resume` reads back is that row, and its successors' files
  are new: a file the session opens truncates none that a row names. Above
  that, `AllStored`: each row, listed or still buffered, has all its frames in
  its data file and in its stretch of each video, and a data file or a video
  that is written again keeps what it has as a prefix. `Saving` is the same for
  the episode of which only rows or some videos exist, `DataFollows` and
  `VideosFollow` place it behind all others. `Distinct` and `Count` number the rows by
  their `order`, 0, 1, ..., as long as nothing crashed, and `info.json` counts no more
  of them, which is what `FailuresLeaveItWhole` says, whichever write raised and
  in the first episode too; `FooterOK` gives the footers. The invariant also holds
  after a crash: rows that were lost were not listed, and a file without a
  footer forbids to resume. It needs `chunks_size`, `metadata_buffer_size` and
  `MaxSessions` of at least 1 (`DataAssumption`). Paths are ordered by their numbers,
  which is the order of the names up to three digits (`utils.py`, `file-{:03d}`).

- *Reading the dataset back.* `ReadInv`, beside `WriterInv`, says what
  `load_nested_dataset` returns while no save failed and nothing crashed. Every
  row that was made is counted in `info.json` but the one between its buffering
  and `write_info` (`Counted`). There are as many data rows as `info.json`
  counts and those of the episode being saved (`LengthOK`), every row of the
  metadata tells where its frames are (`Placed`), the newest one ends where the
  next begins (`EndsOK`), and there is no data file that no row names
  (`FilesOK`). The last makes the file that is written the last of all, so that
  rows go behind everything that is read. For that the order of the files is
  stated by rank (`Nth`: the file that i - 1 files precede). Two facts about it
  need induction: that every rank below the number of files is taken, which is a
  count (an injection into an interval of the same size), and that `FlattenSeq`
  of an appended sequence is the concatenation (`FlattenAppend`), whose
  recursive function exists, is unique and has a type by the least
  counterexample (`LeastElement`, from the well-foundedness of the order of the
  numbers). `LoadNew` and `LoadMore` say from them what a new file and more rows
  in the last file add.

Every safety invariant and action property that a run checks is thereby stated by a
theorem. Only model-checked is liveness: `MustGoIsServed`, `StopJoinsReceiver`,
`HandlersReturn`, `FailureEndsRollout`, `StopEndsThread`, `SessionEnds`, `ActorJoins`,
`ThreadsEnd` need fairness and ENABLED, which are out of the prover's reach.

## 5. Not modelled

- Most of the repository by lines: policies, processors, environments, motors,
  robots, teleoperators and training scripts are numerical code, device I/O or
  sequential glue, with no states and steps to check. They are nine tenths of
  the lines, so the map covers a small share of the implementation and cannot
  cover a third of it without claiming lines it does not translate.
- What policies compute; interpolation between actions (multiplier 1 is modelled).
- Robot, camera, motor and teleoperator I/O, beyond its failing.
- The race inside the policy object when `reset()` meets an inference; only the
  queue's side of it is modelled.
- `batch_encoding_size` > 1: the first batch reads `meta.episodes`, which a
  recording session has not loaded, and raises. The depth branch of
  `add_frame` (`dataset_writer.py:212`), which turns the feature into a video
  during the first frame; with a streaming encoder the second frame raises
  `KeyError`.
- `actions_per_chunk` = 1 (`async_inference/configs.py:179`), with which the
  client discards every chunk after its first action.
- Reading, streaming, merging and converting finished datasets.
- RL with processes instead of threads, the offline buffer, the prefetching
  iterator, resuming a training.
- Sentry's `_background_push` does not look at `dataset.push_to_hub`, while the
  final push does: with the option off, data is uploaded nevertheless. The
  model follows the code; no run sets the option off.

## 6. What is left

1. Proofs: a video that was finished also has the frames of the saved episode
   (encoder and writer share no state in the models yet); the camera with a
   thread that is left behind.
2. The image writer's threads and processes; a camera thread that is left
   behind.
3. RL with processes: a second shutdown event per process, queues with feeder
   threads, and `cancel_join_thread`.
