---------------------------- MODULE RTCInference ----------------------------
(***************************************************************************)
(* A rollout with real-time chunking: the control loop of a strategy       *)
(* (rollout/strategies/base.py and core.py, with DAgger's pause and resume)*)
(* performs one action per time step, while the RTC thread                 *)
(* (rollout/inference/rtc.py) keeps the ActionQueue between them filled.   *)
(*                                                                         *)
(* Time is counted in time steps of the control loop (1 / fps): Sleep, the *)
(* end of an iteration, is the tick.  The RTC thread is bounded in it: the *)
(* code between two inferences, or two looks at the queue, spans at most   *)
(* one tick (it sleeps 10 ms at a time), and an inference that is not a    *)
(* warmup takes at most MaxLatency ticks.                                  *)
(***************************************************************************)
EXTENDS ActionQueue

CONSTANTS
  ChunkSize,        (* actions in a chunk                                   *)
  queue_threshold,  (* _rtc_queue_threshold                                 *)
  warmup_required,  (* inferences that make torch.compile warm              *)
  MaxErrors,        (* _RTC_MAX_CONSECUTIVE_ERRORS                          *)
  MaxLatency,       (* ticks an inference may take once warm                *)
  MaxPauses,        (* how often the operator pauses the policy             *)
  Compile           (* which values use_torch_compile may have              *)

ASSUME RTCAssumption ==
  /\ ChunkSize \in Nat \ {0} /\ queue_threshold \in Nat
  /\ warmup_required \in Nat \ {0} /\ MaxErrors \in Nat \ {0}
  /\ MaxLatency \in Nat /\ MaxPauses \in Nat
  /\ Compile \subseteq BOOLEAN

VARIABLES
  control,          (* where the control loop is                            *)
  paused,           (* DAgger: the phase is not AUTONOMOUS                  *)
  pauses,           (* pauses so far, at most MaxPauses                     *)
  warmup_flushed,
  use_torch_compile,
  global_shutdown,  (* the rollout's shutdown_event                         *)
  active,           (* _policy_active                                       *)
  _shutdown_event,  (* the engine's, of its thread                          *)
  ready,            (* _compile_warmup_done                                 *)
  failed,           (* _rtc_error                                           *)
  holder,           (* _obs_holder["obs"]: "none", or there is one: "new"   *)
  rtc,              (* where the RTC thread is                              *)
  observed,         (* the observation the thread works on; "old": its      *)
                    (* inference began before the last reset of the engine  *)
  inference_count,  (* counted up to warmup_required + 1                    *)
  consecutive_errors,
  new_delay,
  inferAge,         (* ticks since the inference under way began            *)
  age,              (* ticks since the inference of the queue's chunk began *)
  lag,              (* ticks since the thread was last seen to make progress *)
  primed            (* a chunk came since the last reset or inference error *)

loopVars   == <<paused, pauses, warmup_flushed, use_torch_compile>>
eventVars  == <<global_shutdown, active, _shutdown_event, ready, failed>>
threadVars == <<observed, inference_count, consecutive_errors, new_delay>>
timeVars   == <<inferAge, age, lag, primed>>
rtcVars == <<queueVars, control, loopVars, eventVars, holder, rtc, threadVars, timeVars>>

\* Beyond a chunk's end all ages are alike.
Later(t) == IF t > ChunkSize THEN t ELSE t + 1

IsWarmup(n) == use_torch_compile /\ n <= warmup_required

RTCInit ==
  /\ QueueInit
  /\ control = "start" /\ paused = FALSE /\ pauses = 0 /\ warmup_flushed = FALSE
  /\ use_torch_compile \in Compile
  /\ global_shutdown = FALSE /\ active = FALSE /\ _shutdown_event = FALSE
  /\ ready = ~use_torch_compile /\ failed = FALSE
  /\ holder = "none" /\ rtc = "off" /\ observed = "none"
  /\ inference_count = 0 /\ consecutive_errors = 0 /\ new_delay = 0
  /\ inferAge = 0 /\ age = 0 /\ lag = 0 /\ primed = FALSE

-------------------------------------------------------------------------------
(* The engine's methods the control loop calls.                              *)

engineReset == Clear

\* The inference that is under way, if any, has begun before this reset; one
\* that begins later does not count as such, whatever it observes.
OutdateInference == observed' = IF rtc \in {"infer", "merge"} THEN "old" ELSE observed

resume == active' = TRUE

pause == active' = FALSE

get_action == Get

-------------------------------------------------------------------------------
(* The control loop.                                                         *)

\* _init_engine: engine.reset() and engine.start(), then the loop's resume().
Start ==
  /\ control = "start" /\ Clear /\ resume
  /\ _shutdown_event' = FALSE /\ holder' = "none" /\ rtc' = "head"
  /\ control' = "loop"
  /\ UNCHANGED <<loopVars, global_shutdown, ready, failed, threadVars, timeVars>>

\* Shutdown was requested, or the duration has expired.
EndLoop ==
  /\ control = "loop" /\ control' = "stop"
  /\ UNCHANGED <<queueVars, loopVars, eventVars, holder, rtc, threadVars, timeVars>>

Iterate ==
  /\ control = "loop" /\ ~global_shutdown /\ ~paused
  /\ control' = "notify"
  /\ UNCHANGED <<queueVars, loopVars, eventVars, holder, rtc, threadVars, timeVars>>

\* The operator holds the robot, or moves it by teleoperation.
IteratePaused ==
  /\ control = "loop" /\ ~global_shutdown /\ paused
  /\ control' = "sleep"
  /\ UNCHANGED <<queueVars, loopVars, eventVars, holder, rtc, threadVars, timeVars>>

\* AUTONOMOUS -> PAUSED
PausePolicy ==
  /\ control = "loop" /\ ~global_shutdown /\ ~paused /\ pauses < MaxPauses
  /\ pause /\ paused' = TRUE /\ pauses' = pauses + 1
  /\ control' = "sleep"
  /\ UNCHANGED <<queueVars, warmup_flushed, use_torch_compile, global_shutdown, _shutdown_event,
                 ready, failed, holder, rtc, threadVars, timeVars>>

\* PAUSED -> AUTONOMOUS, up to engine.reset().
ResetPolicy ==
  /\ control = "loop" /\ ~global_shutdown /\ paused
  /\ engineReset /\ paused' = FALSE /\ control' = "resume" /\ primed' = FALSE
  /\ OutdateInference
  /\ UNCHANGED <<pauses, warmup_flushed, use_torch_compile, eventVars, holder, rtc,
                 inference_count, consecutive_errors, new_delay, inferAge, age, lag>>

ResumePolicy ==
  /\ control = "resume" /\ resume /\ control' = "notify"
  /\ UNCHANGED <<queueVars, loopVars, global_shutdown, _shutdown_event, ready, failed,
                 holder, rtc, threadVars, timeVars>>

\* notify_observation: what this iteration observed, published.
Notify ==
  /\ control = "notify" /\ holder' = "new"
  /\ control' = IF use_torch_compile THEN "warmup" ELSE "get"
  /\ UNCHANGED <<queueVars, loopVars, eventVars, rtc, threadVars, timeVars>>

AwaitWarmup ==
  /\ control = "warmup" /\ ~ready
  /\ control' = "sleep"
  /\ UNCHANGED <<queueVars, loopVars, eventVars, holder, rtc, threadVars, timeVars>>

AlreadyWarm ==
  /\ control = "warmup" /\ ready /\ warmup_flushed
  /\ control' = "get"
  /\ UNCHANGED <<queueVars, loopVars, eventVars, holder, rtc, threadVars, timeVars>>

\* The first iteration after warmup; the thread keeps running meanwhile.
FlushWarmup ==
  /\ control = "warmup" /\ ready /\ ~warmup_flushed
  /\ engineReset /\ warmup_flushed' = TRUE /\ control' = "flushed" /\ primed' = FALSE
  /\ OutdateInference
  /\ UNCHANGED <<paused, pauses, use_torch_compile, eventVars, holder, rtc,
                 inference_count, consecutive_errors, new_delay, inferAge, age, lag>>

ResumeFlushed ==
  /\ control = "flushed" /\ resume /\ control' = "get"
  /\ UNCHANGED <<queueVars, loopVars, global_shutdown, _shutdown_event, ready, failed,
                 holder, rtc, threadVars, timeVars>>

\* send_next_action with an action to send.
Perform ==
  /\ control = "get" /\ get_action
  /\ control' = "sleep"
  /\ UNCHANGED <<loopVars, eventVars, holder, rtc, threadVars, timeVars>>

\* send_next_action without one.
Starve ==
  /\ control = "get" /\ qsize = 0
  /\ control' = "sleep"
  /\ UNCHANGED <<queueVars, loopVars, eventVars, holder, rtc, threadVars, timeVars>>

\* What the RTC thread's timing allows.
ThreadOnTime ==
  CASE rtc = "infer" -> IsWarmup(inference_count + 1) \/ inferAge < MaxLatency
    [] rtc \in {"obs", "size", "merge", "warm"} -> lag = 0
    [] rtc = "head" -> lag = 0 \/ ~active \/ _shutdown_event
    [] OTHER -> TRUE

Sleep ==
  /\ control = "sleep" /\ ThreadOnTime
  /\ control' = "loop"
  /\ inferAge' = IF rtc \in {"infer", "merge"} THEN Later(inferAge) ELSE 0
  /\ age' = IF enabled /\ qsize > 0 THEN Later(age) ELSE 0
  /\ lag' = IF \/ rtc \in {"obs", "size", "merge", "warm"}
               \/ rtc = "head" /\ active /\ ~_shutdown_event
              THEN 1 ELSE 0
  /\ UNCHANGED <<queueVars, loopVars, eventVars, holder, rtc, threadVars, primed>>

\* stop(): signal the thread ...
Stop ==
  /\ control = "stop"
  /\ _shutdown_event' = TRUE /\ pause /\ control' = "join"
  /\ UNCHANGED <<queueVars, loopVars, global_shutdown, ready, failed, holder, rtc,
                 threadVars, timeVars>>

\* ... and wait for it, or for the join's timeout.
Join ==
  /\ control = "join" /\ rtc = "ended"
  /\ control' = "done"
  /\ UNCHANGED <<queueVars, loopVars, eventVars, holder, rtc, threadVars, timeVars>>

JoinTimesOut ==
  /\ control = "join" /\ rtc # "ended"
  /\ control' = "done"
  /\ UNCHANGED <<queueVars, loopVars, eventVars, holder, rtc, threadVars, timeVars>>

-------------------------------------------------------------------------------
(* The RTC thread: _rtc_loop.                                                *)

\* Faulty variant: the loop looks for the end only while the policy is active.
ExitWhenActive ==
  /\ rtc = "head" /\ _shutdown_event /\ active
  /\ rtc' = "ended"
  /\ UNCHANGED <<queueVars, control, loopVars, eventVars, holder, threadVars, timeVars>>

HeadExit ==
  /\ rtc = "head" /\ _shutdown_event
  /\ rtc' = "ended"
  /\ UNCHANGED <<queueVars, control, loopVars, eventVars, holder, threadVars, timeVars>>

HeadEnter ==
  /\ rtc = "head" /\ ~_shutdown_event /\ active
  /\ rtc' = "obs"
  /\ UNCHANGED <<queueVars, control, loopVars, eventVars, holder, threadVars, timeVars>>

ReadObservation ==
  /\ rtc = "obs"
  /\ observed' = holder
  /\ rtc' = IF holder = "none" THEN "head" ELSE "size"
  /\ UNCHANGED <<queueVars, control, loopVars, eventVars, holder, inference_count,
                 consecutive_errors, new_delay, timeVars>>

\* Faulty variant: chunks are asked for only when the queue has run dry.
CheckEmpty ==
  /\ rtc = "size" /\ lag' = 0
  /\ IF qsize = 0 THEN rtc' = "infer" /\ inferAge' = 0
                  ELSE rtc' = "head" /\ UNCHANGED inferAge
  /\ UNCHANGED <<queueVars, control, loopVars, eventVars, holder, threadVars, age, primed>>

\* Below the threshold the clock is read and the inference begins.
CheckSize ==
  /\ rtc = "size" /\ lag' = 0
  /\ IF qsize <= queue_threshold THEN rtc' = "infer" /\ inferAge' = 0
                                 ELSE rtc' = "head" /\ UNCHANGED inferAge
  /\ UNCHANGED <<queueVars, control, loopVars, eventVars, holder, threadVars, age, primed>>

\* The chunk is there, and with it the latency: a latency that saw n ticks
\* lasted between n - 1 and n + 1 time steps, and is rounded up.
Infer ==
  /\ rtc = "infer" /\ lag' = 0
  /\ new_delay' \in {inferAge, inferAge + 1} \ {0}
  /\ inference_count' = IF inference_count > warmup_required THEN inference_count
                                                             ELSE inference_count + 1
  /\ consecutive_errors' = 0 /\ rtc' = "merge"
  /\ UNCHANGED <<queueVars, control, loopVars, eventVars, holder, observed, inferAge, age, primed>>

\* What a chunk looks like: each action with the step it is meant for.
ChunkFrom(observation) ==
  [original  |-> [i \in 1 .. ChunkSize |-> i - 1],
   processed |-> [i \in 1 .. ChunkSize |-> [step |-> i - 1, obs |-> observation]]]

\* The queue is made for what the thread merges into it.
ASSUME RolloutAssumption ==
  /\ \A observation \in {"old", "new"} : ChunkFrom(observation) \in Chunks
  /\ 0 .. ChunkSize + 2 \subseteq Delays

Merge ==
  /\ rtc = "merge"
  /\ merge(ChunkFrom(observed), new_delay)
  /\ age' = IF enabled THEN inferAge ELSE 0
  /\ rtc' = IF IsWarmup(inference_count) /\ inference_count >= warmup_required /\ ~ready
              THEN "warm" ELSE "head"
  /\ observed' = "none" /\ new_delay' = 0 /\ inferAge' = 0 /\ primed' = TRUE
  /\ UNCHANGED <<control, loopVars, eventVars, holder, inference_count, consecutive_errors, lag>>

WarmupDone ==
  /\ rtc = "warm" /\ ready' = TRUE /\ rtc' = "head"
  /\ UNCHANGED <<queueVars, control, loopVars, global_shutdown, active, _shutdown_event, failed,
                 holder, threadVars, timeVars>>

\* Faulty variant: one error too many is retried.
ErrorOffByOne ==
  /\ rtc = "infer"
  /\ consecutive_errors' = consecutive_errors + 1
  /\ rtc' = IF consecutive_errors > MaxErrors THEN "error" ELSE "backoff"
  /\ observed' = "none" /\ inferAge' = 0 /\ primed' = FALSE
  /\ UNCHANGED <<queueVars, control, loopVars, eventVars, holder, inference_count, new_delay,
                 age, lag>>

\* Anything in the try block raises: retry after a while, or give up.
InferenceError ==
  /\ rtc = "infer"
  /\ consecutive_errors' = consecutive_errors + 1
  /\ rtc' = IF consecutive_errors + 1 >= MaxErrors THEN "error" ELSE "backoff"
  /\ observed' = "none" /\ inferAge' = 0 /\ primed' = FALSE
  /\ UNCHANGED <<queueVars, control, loopVars, eventVars, holder, inference_count, new_delay,
                 age, lag>>

Retry ==
  /\ rtc = "backoff" /\ rtc' = "head"
  /\ UNCHANGED <<queueVars, control, loopVars, eventVars, holder, threadVars, timeVars>>

RaiseError ==
  /\ rtc = "error" /\ failed' = TRUE /\ rtc' = "unblock"
  /\ UNCHANGED <<queueVars, control, loopVars, global_shutdown, active, _shutdown_event, ready,
                 holder, threadVars, timeVars>>

UnblockWarmup ==
  /\ rtc = "unblock" /\ ready' = TRUE /\ rtc' = "signal"
  /\ UNCHANGED <<queueVars, control, loopVars, global_shutdown, active, _shutdown_event, failed,
                 holder, threadVars, timeVars>>

\* Faulty variant: the rollout is not told.
EndSilently ==
  /\ rtc = "signal" /\ rtc' = "ended"
  /\ UNCHANGED <<queueVars, control, loopVars, eventVars, holder, threadVars, timeVars>>

SignalShutdown ==
  /\ rtc = "signal" /\ global_shutdown' = TRUE /\ rtc' = "ended"
  /\ UNCHANGED <<queueVars, control, loopVars, active, _shutdown_event, ready, failed, holder,
                 threadVars, timeVars>>

-------------------------------------------------------------------------------
(* A signal handler, or another part of the rollout, requests the shutdown.  *)
ShutdownRequested ==
  /\ ~global_shutdown /\ control \notin {"join", "done"}
  /\ global_shutdown' = TRUE
  /\ UNCHANGED <<queueVars, control, loopVars, active, _shutdown_event, ready, failed, holder, rtc,
                 threadVars, timeVars>>

RTCFinished == control = "done" /\ rtc = "ended" /\ UNCHANGED rtcVars

ControlLoop ==
  \/ Start \/ EndLoop \/ Iterate \/ IteratePaused \/ PausePolicy \/ ResetPolicy
  \/ ResumePolicy \/ Notify \/ AwaitWarmup \/ AlreadyWarm \/ FlushWarmup
  \/ ResumeFlushed \/ Perform \/ Starve \/ Sleep \/ Stop \/ Join \/ JoinTimesOut

Thread ==
  \/ HeadExit \/ HeadEnter \/ ReadObservation \/ CheckSize \/ Infer \/ Merge
  \/ WarmupDone \/ InferenceError \/ Retry \/ RaiseError \/ UnblockWarmup \/ SignalShutdown

RTCNext == ControlLoop \/ Thread \/ ShutdownRequested \/ RTCFinished

RTCSpec == RTCInit /\ [][RTCNext]_rtcVars

\* The operator may never resume, and nobody has to stop a rollout that runs;
\* but both threads are scheduled, and a requested shutdown is seen.
RTCFairSpec == RTCSpec /\ WF_rtcVars(ControlLoop) /\ WF_rtcVars(Thread)

-------------------------------------------------------------------------------
Observations == {"none", "old", "new"}

(* Types of the rollout's state.                                             *)
RTCTypeOK ==
  /\ QueueTypeOK
  /\ control \in {"start", "loop", "resume", "notify", "warmup", "flushed", "get", "sleep",
               "stop", "join", "done"}
  /\ {paused, warmup_flushed, use_torch_compile, global_shutdown, active, _shutdown_event,
      ready, failed, primed} \subseteq BOOLEAN
  /\ pauses \in 0 .. MaxPauses
  /\ {holder, observed} \subseteq Observations
  /\ rtc \in {"off", "head", "obs", "size", "infer", "merge", "warm", "backoff", "error",
              "unblock", "signal", "ended"}
  /\ inference_count \in 0 .. warmup_required + 1
  /\ consecutive_errors \in 0 .. MaxErrors
  /\ new_delay \in 0 .. ChunkSize + 2
  /\ {inferAge, age} \subseteq 0 .. ChunkSize + 1 /\ lag \in 0 .. 1

(* With RTC enabled the robot follows the policy's plan in real time: the    *)
(* action it performs is the one the plan has for this moment, up to the     *)
(* rounding of the delay and the tick that may pass before the chunk is      *)
(* merged, whatever the two threads' interleaving (rtc.py:316-326,           *)
(* action_queue.py:178-194).                                                 *)
PlanFollowsTime ==
  [][Perform /\ enabled => NextAction.step \in age - 2 .. age + 1]_rtcVars

(* Once fed, the robot has an action at every tick as long as no            *)
(* inference fails and nobody pauses or flushes the engine: the next chunk   *)
(* is asked for early enough (rtc.py:270).                                   *)
NeverStarves == [][Starve => ~primed]_rtcVars

(* An engine that has given up ends the rollout (rtc.py:352-360).            *)
FailureEndsRollout == failed ~> control = "done"

(* stop() ends the thread, even if the join gave up waiting (rtc.py:196-207).*)
StopEndsThread == control = "done" ~> rtc = "ended"

(* Warmup comes to an end, or the rollout does: the loop does not wait for   *)
(* it forever (core.py:106-110, rtc.py:326-332).                             *)
WarmupEnds == (control = "warmup") ~> (ready \/ control = "done" \/ paused)

(* What the robot performs comes from an inference that began after the last *)
(* reset (core.py:99-100, rtc.py:219-226).                                   *)
NoStaleActions == [][Perform => NextAction.obs = "new"]_rtcVars

================================================================================
