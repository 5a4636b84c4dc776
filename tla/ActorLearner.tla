----------------------------- MODULE ActorLearner -----------------------------
(***************************************************************************)
(* Distributed reinforcement learning (rl/actor.py, learner.py,            *)
(* learner_service.py) with threads on both sides.  The actor steps the    *)
(* environment, and at the end of an episode loads the newest parameters   *)
(* and queues the episode's transitions; a sender thread streams them to   *)
(* the learner in chunks.  The learner drains its queues into the replay   *)
(* buffer, trains, pushes parameters now and then and writes checkpoints.  *)
(*                                                                         *)
(* Parameters are the number of the optimization step they come from.      *)
(* They go through a FIFO stream, which is drawn together with the queue   *)
(* at its end; of the interaction messages only the newest counts, and     *)
(* send_interactions, its queues and its stream are one cell.              *)
(*                                                                         *)
(* The channel retries a broken call (grpc_channel_options): it sends the  *)
(* chunks it has kept once more, to a new handler.  A stream of parameters *)
(* is not retried once its first ones have come.                           *)
(***************************************************************************)
EXTENDS ReplayBuffer, Transport

CONSTANTS
  online_steps,                 (* steps of the actor                       *)
  online_step_before_learning,
  save_checkpoint,
  MaxVersion,                   (* bound: later parameters are one          *)
  MaxQueued,                    (* bound: parameters in a parameters_queue  *)
  MaxRetries,                   (* maxAttempts - 1                          *)
  RetryBuffer                   (* the chunks a call keeps for its retries  *)

ASSUME LearningAssumption ==
  /\ online_steps \in Nat /\ online_step_before_learning \in Nat
  /\ save_checkpoint \in BOOLEAN /\ MaxVersion \in Nat /\ MaxQueued \in Nat \ {0}
  /\ MaxRetries \in 0 .. MaxRepeats /\ RetryBuffer \in Nat

VARIABLES
  actor,           (* where act_with_policy and actor_cli are               *)
  a_shutdown,      (* the actor's shutdown_event                            *)
  obs,             (* the observation the actor is at                       *)
  step,            (* interaction_step                                      *)
  unsent,          (* list_transition_to_send_to_learner                    *)
  policy,          (* the parameters the actor acts with                    *)
  a_transitions, a_parameters,   (* the actor's queues                     *)
  sender, sending, (* send_transitions and the chunks it has still to yield *)
  attempt, kept,   (* retries of its call (MaxRetries: no further one), and  *)
                   (* the chunks of this attempt, for the next one           *)
  receiver,        (* receive_policy                                        *)
  wire,            (* the chunk under way (one: flow control)                *)
  bytes_buffer,    (* of the learner's SendTransitions handler              *)
  learner,         (* where the training loop is                            *)
  l_shutdown,      (* the learner's shutdown_event                          *)
  l_transitions, l_interactions, l_parameters,   (* the learner's queues    *)
  batch,           (* what is left of the message process_transitions is at *)
  tried,           (* (history) the attempt that message came in            *)
  interaction_message,   (* of this iteration; <<>>: none                   *)
  processed,       (* the step of the last interaction message, ever        *)
  version,         (* the learner's parameters                              *)
  checkpoint       (* the last one                                          *)

actorVars == <<actor, a_shutdown, obs, step, unsent, policy>>
actorQueues == <<a_transitions, a_parameters>>
streamVars == <<sender, sending, attempt, kept, receiver, wire, bytes_buffer>>
learnerQueues == <<l_transitions, l_interactions, l_parameters>>
learnerVars == <<learner, l_shutdown, batch, tried, interaction_message, processed, version, checkpoint>>
rlVars == <<actorVars, actorQueues, streamVars, learnerVars, learnerQueues, replayVars>>

\* The learner pushes its parameters before anything else.
RLInit ==
  /\ ReplayInit
  /\ actor = "step" /\ a_shutdown = FALSE /\ obs = 0 /\ step = 0 /\ unsent = <<>> /\ policy = 0
  /\ a_transitions = <<>> /\ a_parameters = <<>>
  /\ sender = "run" /\ sending = <<>> /\ attempt = 0 /\ kept = <<>> /\ receiver = "run"
  /\ wire = <<>> /\ bytes_buffer = <<>>
  /\ learner = "transitions" /\ l_shutdown = FALSE
  /\ l_transitions = <<>> /\ l_interactions = <<>> /\ l_parameters = <<0>>
  /\ batch = <<>> /\ tried = 0 /\ interaction_message = <<>> /\ processed = 0 /\ version = 0
  /\ checkpoint = [interaction_step |-> 0, processed |-> 0]

-------------------------------------------------------------------------------
(* The actor: act_with_policy.                                               *)

ActorSignal ==
  /\ actor # "done" /\ a_shutdown' = TRUE
  /\ UNCHANGED <<actor, obs, step, unsent, policy, actorQueues, streamVars, learnerVars,
                 learnerQueues, replayVars>>

\* A step of the environment.
Act ==
  /\ actor = "step" /\ ~a_shutdown /\ step < online_steps
  /\ \E ends \in BOOLEAN :
       /\ unsent' = Append(unsent, [state |-> obs, next_state |-> obs + 1, ends |-> ends])
       /\ IF ends
          THEN actor' = "update" /\ UNCHANGED <<obs, step>>
          ELSE actor' = "step" /\ obs' = obs + 1 /\ step' = step + 1
  /\ UNCHANGED <<a_shutdown, policy, actorQueues, streamVars, learnerVars, learnerQueues, replayVars>>

\* get_last_item_from_queue.
Newest_of(queue) == queue[Len(queue)]

\* Faulty variant: the oldest parameters are not drained.
UpdateKeepsOldest ==
  /\ actor = "update" /\ actor' = "push"
  /\ IF a_parameters = <<>> THEN UNCHANGED <<policy, a_parameters>>
     ELSE policy' = Newest_of(a_parameters) /\ a_parameters' = <<a_parameters[1]>>
  /\ UNCHANGED <<a_shutdown, obs, step, unsent, a_transitions, streamVars,
                 learnerVars, learnerQueues, replayVars>>

update_policy_parameters ==
  /\ actor = "update" /\ actor' = "push"
  /\ IF a_parameters = <<>> THEN UNCHANGED <<policy, a_parameters>>
     ELSE policy' = Newest_of(a_parameters) /\ a_parameters' = <<>>
  /\ UNCHANGED <<a_shutdown, obs, step, unsent, a_transitions, streamVars,
                 learnerVars, learnerQueues, replayVars>>

\* Faulty variant: the list is not emptied.
PushAndKeep ==
  /\ actor = "push" /\ actor' = "step"
  /\ a_transitions' = Append(a_transitions, unsent) /\ UNCHANGED unsent
  /\ (save_checkpoint /\ l_interactions' = <<step>>) \/ UNCHANGED l_interactions
  /\ obs' = obs + 2 /\ step' = step + 1
  /\ UNCHANGED <<a_shutdown, policy, a_parameters, streamVars,
                 learnerVars, l_transitions, l_parameters, replayVars>>

\* The episode's transitions, and its statistics, which may be lost on their
\* way and are followed only for the checkpoints; then the environment is
\* reset.
push_transitions_to_transport_queue ==
  /\ actor = "push" /\ actor' = "step"
  /\ a_transitions' = Append(a_transitions, unsent) /\ unsent' = <<>>
  /\ (save_checkpoint /\ l_interactions' = <<step>>) \/ UNCHANGED l_interactions
  /\ obs' = obs + 2 /\ step' = step + 1
  /\ UNCHANGED <<a_shutdown, policy, a_parameters, streamVars,
                 learnerVars, l_transitions, l_parameters, replayVars>>

\* act_with_policy is left, and actor_cli closes the queues: the steps are
\* done, shutdown is seen, ...
StopActing ==
  /\ actor' = "join" /\ obs' = 0 /\ step' = 0 /\ unsent' = <<>> /\ a_parameters' = <<>>
  /\ UNCHANGED <<policy, a_transitions, streamVars, learnerVars, learnerQueues, replayVars>>

LeaveActing ==
  /\ actor = "step" /\ (a_shutdown \/ step = online_steps)
  /\ StopActing /\ UNCHANGED a_shutdown

\* ... or the environment or the policy raised an exception.
ActorFails ==
  /\ actor \in {"step", "update"}
  /\ StopActing /\ a_shutdown' = TRUE

Closed == actor \in {"join", "done"}

JoinThreads ==
  /\ actor = "join" /\ sender = "ended" /\ receiver = "ended"
  /\ actor' = "done"
  /\ UNCHANGED <<a_shutdown, obs, step, unsent, policy, actorQueues, streamVars, learnerVars,
                 learnerQueues, replayVars>>

-------------------------------------------------------------------------------
(* The streams.                                                              *)

\* The transitions' RPC is over for both sides, and what was under way is lost.
SenderEnds ==
  /\ sender' = "ended" /\ sending' = <<>> /\ kept' = <<>> /\ wire' = <<>> /\ bytes_buffer' = <<>>
  /\ UNCHANGED attempt

\* A message of one transition fits into a chunk, a longer one takes two.
Chunks(message) == IF Len(message) > 1 THEN 2 ELSE 1

\* transitions_stream takes the next message.  A get may still succeed while
\* the queue is being closed.
TakeTransitions ==
  /\ sender = "run" /\ sending = <<>> /\ ~a_shutdown /\ a_transitions # <<>>
  /\ a_transitions' = Tail(a_transitions)
  /\ sending' = send_bytes_in_chunks(Head(a_transitions), Chunks(Head(a_transitions)))
  /\ UNCHANGED <<actorVars, a_parameters, sender, attempt, kept, receiver, wire,
                 bytes_buffer, learnerVars, learnerQueues, replayVars>>

\* A chunk that finds no room in the buffer commits the call: no retry from
\* then on.
SendChunk ==
  /\ sender \in {"run", "closing"} /\ sending # <<>> /\ wire = <<>>
  /\ wire' = <<Head(sending)>> /\ sending' = Tail(sending)
  /\ IF attempt < MaxRetries /\ Len(kept) < RetryBuffer
     THEN kept' = Append(kept, Head(sending)) /\ UNCHANGED attempt
     ELSE kept' = <<>> /\ attempt' = MaxRetries
  /\ UNCHANGED <<actorVars, actorQueues, sender, receiver, bytes_buffer, learnerVars,
                 learnerQueues, replayVars>>

\* Shutdown ends the stream between two messages ...
StreamEnds ==
  /\ sender = "run" /\ sending = <<>> /\ a_shutdown /\ sender' = "closing"
  /\ UNCHANGED <<actorVars, actorQueues, sending, attempt, kept, receiver, wire, bytes_buffer,
                 learnerVars, learnerQueues, replayVars>>

\* ... and the call returns when the handler has seen its end; the get of a
\* closed queue raises inside the stream and cancels the call.
CallReturns ==
  /\ \/ sender = "closing" /\ sending = <<>> /\ wire = <<>>
     \/ sender = "run" /\ sending = <<>> /\ Closed
  /\ SenderEnds
  /\ UNCHANGED <<actorVars, actorQueues, receiver, learnerVars, learnerQueues, replayVars>>

\* The handler of SendTransitions: receive_bytes_in_chunks.
ReceiveChunk ==
  /\ wire # <<>>
  /\ IF l_shutdown THEN SenderEnds /\ UNCHANGED l_transitions
     ELSE LET received == receive_bytes_in_chunks(bytes_buffer, Head(wire))
          IN  /\ wire' = Tail(wire) /\ bytes_buffer' = received.bytes_buffer
              /\ l_transitions' = IF received.complete = <<>> THEN l_transitions
                   ELSE Append(l_transitions, [bytes |-> received.complete[1], attempt |-> attempt])
              /\ UNCHANGED <<sender, sending, attempt, kept>>
  /\ UNCHANGED <<actorVars, actorQueues, receiver, learnerVars, l_interactions,
                 l_parameters, replayVars>>

\* Faulty variant: nobody looks at the shutdown event.
StreamOn ==
  /\ receiver = "run" /\ ~l_shutdown /\ l_parameters # <<>>
  /\ l_parameters' = <<>>
  /\ a_parameters' = <<Newest_of(l_parameters)>>
  /\ UNCHANGED <<actorVars, a_transitions, sender, sending, attempt, kept, receiver,
                 wire, bytes_buffer, learnerVars, l_transitions, l_interactions, replayVars>>

\* StreamParameters sends the newest parameters; receive_policy looks at its
\* shutdown event, and finds a closed queue, only when some arrive.
StreamParameters ==
  /\ receiver = "run" /\ ~l_shutdown /\ l_parameters # <<>>
  /\ l_parameters' = <<>>
  /\ IF a_shutdown \/ Closed THEN receiver' = "ended" /\ UNCHANGED a_parameters
     ELSE /\ Len(a_parameters) < MaxQueued /\ UNCHANGED receiver
          /\ a_parameters' = Append(a_parameters, Newest_of(l_parameters))
  /\ UNCHANGED <<actorVars, a_transitions, sender, sending, attempt, kept, wire,
                 bytes_buffer, learnerVars, l_transitions, l_interactions, replayVars>>

\* The call breaks (UNAVAILABLE, DEADLINE_EXCEEDED) and is tried again: a new
\* handler gets the stream from its beginning.
TransitionsRetried ==
  /\ sender # "ended" /\ attempt < MaxRetries /\ attempt' = attempt + 1
  /\ sending' = kept \o sending /\ kept' = <<>> /\ wire' = <<>> /\ bytes_buffer' = <<>>
  /\ UNCHANGED <<actorVars, actorQueues, sender, receiver, learnerVars, learnerQueues, replayVars>>

\* RpcError, of another status or after the last attempt: the thread of the
\* stream ends, and nobody starts it again.
TransitionsBreak ==
  /\ sender # "ended" /\ SenderEnds
  /\ UNCHANGED <<actorVars, actorQueues, receiver, learnerVars, learnerQueues, replayVars>>

ParametersBreak ==
  /\ receiver = "run" /\ receiver' = "ended"
  /\ UNCHANGED <<actorVars, actorQueues, sender, sending, attempt, kept, wire, bytes_buffer,
                 learnerVars, learnerQueues, replayVars>>

\* server.stop ends every call within its grace period.
ServerStops ==
  /\ l_shutdown /\ (sender # "ended" \/ receiver # "ended")
  /\ SenderEnds /\ receiver' = "ended"
  /\ UNCHANGED <<actorVars, actorQueues, learnerVars, learnerQueues, replayVars>>

-------------------------------------------------------------------------------
(* The learner: add_actor_information_and_train.                             *)

LearnerSignal ==
  /\ learner # "done" /\ ~l_shutdown /\ l_shutdown' = TRUE
  /\ UNCHANGED <<actorVars, actorQueues, streamVars, learner, batch, tried, interaction_message, processed,
                 version, checkpoint, learnerQueues, replayVars>>

\* The training loop is left, and the queues are closed.
StopLearning ==
  /\ learner' = "done" /\ l_shutdown' = TRUE
  /\ l_transitions' = <<>> /\ l_interactions' = <<>> /\ l_parameters' = <<>>
  /\ UNCHANGED <<actorVars, actorQueues, streamVars, batch, tried, interaction_message, processed,
                 version, checkpoint, replayVars>>

LeaveLearning == learner = "head" /\ StopLearning

\* The head of the loop looks at the shutdown event.
Next_iteration == IF l_shutdown THEN "head" ELSE "transitions"

\* process_transitions: the next message is loaded ...
NextMessage ==
  /\ learner = "transitions" /\ batch = <<>> /\ ~l_shutdown /\ l_transitions # <<>>
  /\ Whole(Head(l_transitions).bytes) /\ tried' = Head(l_transitions).attempt
  /\ batch' = Head(l_transitions).bytes[1][1] /\ l_transitions' = Tail(l_transitions)
  /\ UNCHANGED <<actorVars, actorQueues, streamVars, learner, l_shutdown, interaction_message,
                 processed, version, checkpoint, l_interactions, l_parameters, replayVars>>

\* ... and its transitions go into the buffer, but for those with NaN.
ProcessTransition ==
  /\ learner = "transitions" /\ batch # <<>>
  /\ add(Head(batch)) \/ skip(Head(batch))
  /\ batch' = Tail(batch)
  /\ UNCHANGED <<actorVars, actorQueues, streamVars, learner, l_shutdown, tried, interaction_message,
                 processed, version, checkpoint, learnerQueues>>

\* The last message of this iteration, or None.
process_interaction_messages ==
  /\ learner = "transitions" /\ batch = <<>> /\ (l_shutdown \/ l_transitions = <<>>)
  /\ IF l_shutdown \/ l_interactions = <<>>
     THEN interaction_message' = <<>> /\ UNCHANGED <<processed, l_interactions>>
     ELSE /\ interaction_message' = l_interactions
          /\ processed' = l_interactions[1] /\ l_interactions' = <<>>
  /\ learner' = IF size < online_step_before_learning THEN Next_iteration ELSE "train"
  /\ UNCHANGED <<actorVars, actorQueues, streamVars, l_shutdown, batch, tried, version, checkpoint,
                 l_transitions, l_parameters, replayVars>>

\* randint(0, 0) raises: the exception ends the training.
SampleFails == learner = "train" /\ high = 0 /\ StopLearning

\* An optimization step; whether its number is one of save_freq is a choice.
Optimize ==
  /\ learner = "train" /\ high > 0 /\ learner' = Next_iteration
  /\ version' = IF version < MaxVersion THEN version + 1 ELSE version
  /\ \/ UNCHANGED checkpoint
     \/ save_checkpoint /\ checkpoint' = [interaction_step |-> IF interaction_message = <<>> THEN 0
                                            ELSE interaction_message[1],
                       processed |-> processed]
  /\ UNCHANGED <<l_shutdown, batch, tried, interaction_message, processed>>

Train ==
  /\ Optimize
  /\ UNCHANGED <<actorVars, actorQueues, streamVars, learnerQueues, replayVars>>

\* The last push is policy_parameters_push_frequency ago.
TrainAndPush ==
  /\ Optimize /\ Len(l_parameters) < MaxQueued
  /\ l_parameters' = Append(l_parameters, version')
  /\ UNCHANGED <<actorVars, actorQueues, streamVars, l_transitions, l_interactions, replayVars>>

-------------------------------------------------------------------------------
Actor ==
  \/ Act \/ update_policy_parameters \/ push_transitions_to_transport_queue
  \/ LeaveActing \/ ActorFails \/ JoinThreads

Sender == TakeTransitions \/ SendChunk \/ StreamEnds \/ CallReturns

Learner ==
  \/ LeaveLearning \/ NextMessage \/ ProcessTransition \/ process_interaction_messages
  \/ SampleFails \/ Train

RLNext ==
  \/ ActorSignal \/ Actor
  \/ Sender \/ ReceiveChunk \/ StreamParameters
  \/ TransitionsRetried \/ TransitionsBreak \/ ParametersBreak \/ ServerStops
  \/ LearnerSignal \/ Learner \/ TrainAndPush

\* What moves the stream of transitions on.
Transitions == Sender \/ ReceiveChunk \/ ServerStops

\* Every thread is scheduled; the clock lets every now and then an
\* optimization step be followed by a push.
RLSpec ==
  /\ RLInit /\ [][RLNext]_rlVars
  /\ WF_rlVars(Actor) /\ WF_rlVars(Transitions) /\ WF_rlVars(StreamParameters)
  /\ WF_rlVars(Learner) /\ SF_rlVars(TrainAndPush)

-------------------------------------------------------------------------------
(* Types; and every message the learner's queue gets is one the actor put,   *)
(* all of its bytes, whatever the sizes of the messages around it            *)
(* (transport/utils.py:45-110).                                              *)
TypeOK ==
  /\ actor \in {"step", "update", "push", "join", "done"}
  /\ learner \in {"head", "transitions", "train", "done"}
  /\ sender \in {"run", "closing", "ended"} /\ {receiver} \subseteq {"run", "ended"}
  /\ position \in Slot /\ size \in 0 .. capacity /\ step \in 0 .. online_steps
  /\ \A i \in DOMAIN l_transitions : Whole(l_transitions[i].bytes)
  /\ attempt \in 0 .. MaxRetries /\ Len(kept) <= RetryBuffer

(* The learner adds whole episodes in the order of the environment's steps,  *)
(* and goes back to one it has had at most as often as the channel tries the *)
(* stream again, which sends complete messages a second time: what it does   *)
(* with its buffer is what ReplayBuffer allows                               *)
(* (actor.py:319-364, 452-455, learner.py:1128-1168, utils.py:166).          *)
ReplayIsFed == ReplaySpec

(* What the actor acts with, what is on its way to it and what the learner   *)
(* has now are ever newer parameters: the actor never goes back              *)
(* (learner_service.py:54-87, actor.py:655-681).                             *)
ParametersGetNewer ==
  LET parameters == <<policy>> \o a_parameters \o l_parameters \o <<version>>
  IN  \A i, j \in DOMAIN parameters : i < j => parameters[i] <= parameters[j]

(* Once the learner trains, or shuts down, actor_cli joins its threads: the  *)
(* parameters wake the receiver, which looks at no event while it waits      *)
(* (actor.py:190-207, transport/utils.py:73-82).                             *)
ActorJoins ==
  actor = "join" /\ (size >= online_step_before_learning \/ l_shutdown) ~> actor = "done"

\* "Saves the current interaction step for resuming training": a checkpoint
\* has the step of the last interaction the learner has processed.
CheckpointKeepsStep == checkpoint.interaction_step = checkpoint.processed
================================================================================
