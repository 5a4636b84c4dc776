------------------------------ MODULE RobotClient ------------------------------
(***************************************************************************)
(* The robot side of asynchronous inference (robot_client.py): the control *)
(* loop in the main thread pops and performs queued actions and streams    *)
(* observations; the receiver thread turns every chunk the server returns  *)
(* into a new action queue.  The server is open here: an RPC returns when  *)
(* it likes, and GetActions yields nothing or any member of Chunks.        *)
(*                                                                         *)
(* A step runs from one access to shared state to the next.  Where a step  *)
(* spans several statements, they touch only the thread's own data or data *)
(* only this thread writes.                                                *)
(***************************************************************************)
EXTENDS AsyncTypes

VARIABLES
  queue,        (* self.action_queue, as timesteps                           *)
  latest,       (* self.latest_action                                        *)
  mustGo,       (* self.must_go                                              *)
  chunkSize,    (* self.action_chunk_size                                    *)
  ctl,          (* where the main thread is                                  *)
  popped,       (* the action popped and not yet performed, or -1            *)
  obs,          (* the observation being sent                                *)
  rcv,          (* where the receiver thread is                              *)
  incoming,     (* actions of the chunk not yet compared with latest         *)
  future,       (* future_action_queue                                       *)
  mutated       (* the deque under iteration was popped from                 *)

controlVars  == <<latest, ctl, popped, obs>>
receiverVars == <<chunkSize, rcv, incoming, future>>
clientVars   == <<queue, mustGo, mutated, controlVars, receiverVars>>

NoObservation == [timestep |-> -1, mustGo |-> FALSE]

Controls  == {"ready", "instruct", "barrier", "avail", "pop", "perform",
              "check", "flag", "send", "clear", "stopped"}
Receivers == {"off", "barrier", "idle", "calling", "received", "iterate",
              "filter", "swapped", "done", "dead"}

Running == ctl # "stopped"
ReceiverEnded == rcv \in {"off", "done", "dead"}

ClientInit ==
  /\ queue = <<>> /\ latest = -1 /\ mustGo = TRUE /\ chunkSize = -1
  /\ ctl = "ready" /\ popped = -1 /\ obs = NoObservation
  /\ rcv = "off" /\ incoming = <<>> /\ future = <<>> /\ mutated = FALSE

\* A new client process takes the place of one that has stopped.
ClientRestart ==
  /\ ~Running
  /\ queue' = <<>> /\ latest' = -1 /\ mustGo' = TRUE /\ chunkSize' = -1
  /\ ctl' = "ready" /\ popped' = -1 /\ obs' = NoObservation
  /\ rcv' = "off" /\ incoming' = <<>> /\ future' = <<>> /\ mutated' = FALSE

-------------------------------------------------------------------------------
(* Handshake and start: start(), async_client(), start_barrier.              *)

\* stub.Ready returns, or raises and start() gives up.
Ready(ok) ==
  /\ ctl = "ready"
  /\ ctl' = IF ok THEN "instruct" ELSE "stopped"
  /\ UNCHANGED <<queue, mustGo, mutated, latest, popped, obs, receiverVars>>

\* stub.SendPolicyInstructions returns and the receiver thread is started.
Instruct(ok) ==
  /\ ctl = "instruct"
  /\ ctl' = IF ok THEN "barrier" ELSE "stopped"
  /\ rcv' = IF ok THEN "barrier" ELSE rcv
  /\ UNCHANGED <<queue, mustGo, mutated, latest, popped, obs, chunkSize, incoming, future>>

Barrier ==
  /\ ctl = "barrier" /\ rcv = "barrier"
  /\ ctl' = "avail" /\ rcv' = "idle"
  /\ UNCHANGED <<queue, mustGo, mutated, latest, popped, obs, chunkSize, incoming, future>>

\* KeyboardInterrupt anywhere in the main thread, or the robot refuses an
\* action: the control loop is left and client.stop() runs.
Interrupt ==
  /\ Running
  /\ ctl' = "stopped" /\ popped' = -1 /\ obs' = NoObservation
  /\ UNCHANGED <<queue, mustGo, mutated, latest, receiverVars>>

-------------------------------------------------------------------------------
(* The control loop, in the main thread.                                     *)

\* actions_available(): releases the queue lock before the action is popped.
Avail ==
  /\ ctl = "avail" /\ latest < Horizon
  /\ ctl' = IF queue # <<>> THEN "pop" ELSE "check"
  /\ UNCHANGED <<queue, mustGo, mutated, latest, popped, obs, receiverVars>>

\* get_nowait() under the lock, on the deque the receiver may be iterating.
Pop ==
  /\ ctl = "pop" /\ queue # <<>>
  /\ popped' = Head(queue)
  /\ queue' = Tail(queue)
  /\ mutated' = (mutated \/ rcv = "iterate")
  /\ ctl' = "perform"
  /\ UNCHANGED <<mustGo, latest, obs, receiverVars>>

\* get_nowait() raises Empty, which leaves control_loop and stops the client.
PopEmpty ==
  /\ ctl = "pop" /\ queue = <<>>
  /\ ctl' = "stopped"
  /\ UNCHANGED <<queue, mustGo, mutated, latest, popped, obs, receiverVars>>

\* robot.send_action, then latest_action is set.
Perform ==
  /\ ctl = "perform"
  /\ latest' = popped
  /\ popped' = -1
  /\ ctl' = "check"
  /\ UNCHANGED <<queue, mustGo, mutated, obs, receiverVars>>

\* chunkSize is -1 until a first chunk has come, and then the quotient is <= 0.
ReadyToSendObservation ==
  chunkSize < 0 \/ Len(queue) * ThresholdDen <= ThresholdNum * chunkSize

Check ==
  /\ ctl = "check"
  /\ ctl' = IF ReadyToSendObservation THEN "flag" ELSE "avail"
  /\ UNCHANGED <<queue, mustGo, mutated, latest, popped, obs, receiverVars>>

\* The observation is captured; its must_go is read with the queue, under the lock.
Flag ==
  /\ ctl = "flag"
  /\ obs' = [timestep |-> IF latest < 0 THEN 0 ELSE latest,
             mustGo   |-> mustGo /\ queue = <<>>]
  /\ ctl' = "send"
  /\ UNCHANGED <<queue, mustGo, mutated, latest, popped, receiverVars>>

\* The robot raises instead: control_loop_observation logs it and gives up.
CaptureFails ==
  /\ ctl = "flag"
  /\ ctl' = "avail"
  /\ UNCHANGED <<queue, mustGo, mutated, latest, popped, obs, receiverVars>>

\* send_observation() returns; its result, sent or not, is ignored.
SendDone ==
  /\ ctl = "send"
  /\ ctl' = "clear"
  /\ UNCHANGED <<queue, mustGo, mutated, latest, popped, obs, receiverVars>>

ClearMustGo ==
  /\ ctl = "clear"
  /\ mustGo' = (mustGo /\ ~obs.mustGo)
  /\ obs' = NoObservation
  /\ ctl' = "avail"
  /\ UNCHANGED <<queue, mutated, latest, popped, receiverVars>>

-------------------------------------------------------------------------------
(* receive_actions() and _aggregate_action_queues(), in the receiver thread. *)

\* Faulty variant: the loop does not look at shutdown_event.
CallAfterShutdown ==
  /\ rcv = "idle"
  /\ rcv' = "calling"
  /\ UNCHANGED <<queue, mustGo, mutated, controlVars, chunkSize, incoming, future>>

Call ==
  /\ rcv = "idle"
  /\ rcv' = IF Running THEN "calling" ELSE "done"
  /\ UNCHANGED <<queue, mustGo, mutated, controlVars, chunkSize, incoming, future>>

\* GetActions returned Empty or raised RpcError: both lead to the next call.
ReceiveNothing ==
  /\ rcv = "calling"
  /\ rcv' = "idle"
  /\ UNCHANGED <<queue, mustGo, mutated, controlVars, chunkSize, incoming, future>>

Receive(chunk) ==
  /\ rcv = "calling"
  /\ rcv' = "received"
  /\ incoming' = chunk
  /\ chunkSize' = IF chunkSize < Len(chunk) THEN Len(chunk) ELSE chunkSize
  /\ UNCHANGED <<queue, mustGo, mutated, controlVars, future>>

\* The deque is aliased under the lock and iterated after its release.
IterateBegin ==
  /\ rcv = "received"
  /\ rcv' = "iterate"
  /\ mutated' = FALSE
  /\ UNCHANGED <<queue, mustGo, controlVars, chunkSize, incoming, future>>

\* A pop during the iteration raises RuntimeError, which ends the thread.
IterateEnd ==
  /\ rcv = "iterate"
  /\ rcv' = IF mutated THEN "dead" ELSE "filter"
  /\ incoming' = IF mutated THEN <<>> ELSE incoming
  /\ mutated' = FALSE
  /\ UNCHANGED <<queue, mustGo, controlVars, chunkSize, future>>

\* One action is kept (aggregated or not) unless it is not newer than latest.
Filter ==
  /\ rcv = "filter" /\ incoming # <<>>
  /\ incoming' = Tail(incoming)
  /\ future' = IF Head(incoming) <= latest THEN future ELSE Append(future, Head(incoming))
  /\ UNCHANGED <<queue, mustGo, mutated, controlVars, chunkSize, rcv>>

\* Faulty variant: the new actions are put behind those still queued.
SwapAppending ==
  /\ rcv = "filter" /\ incoming = <<>>
  /\ queue' = queue \o future
  /\ future' = <<>>
  /\ rcv' = "swapped"
  /\ UNCHANGED <<mustGo, mutated, controlVars, chunkSize, incoming>>

Swap ==
  /\ rcv = "filter" /\ incoming = <<>>
  /\ queue' = future
  /\ future' = <<>>
  /\ rcv' = "swapped"
  /\ UNCHANGED <<mustGo, mutated, controlVars, chunkSize, incoming>>

SetMustGo ==
  /\ rcv = "swapped"
  /\ mustGo' = TRUE
  /\ rcv' = "idle"
  /\ UNCHANGED <<queue, mutated, controlVars, chunkSize, incoming, future>>

-------------------------------------------------------------------------------
\* The steps of each thread that no RPC is part of.
ControlStep  == Barrier \/ Avail \/ Pop \/ PopEmpty \/ Perform \/ Check \/ Flag \/ ClearMustGo
ReceiverStep == Call \/ IterateBegin \/ IterateEnd \/ Filter \/ Swap \/ SetMustGo

ClientNext ==
  \/ ControlStep \/ ReceiverStep
  \/ \E ok \in BOOLEAN : Ready(ok) \/ Instruct(ok)
  \/ CaptureFails \/ SendDone \/ ReceiveNothing
  \/ \E chunk \in Chunks : Receive(chunk)
  \/ Interrupt \/ ClientRestart

ClientSpec == ClientInit /\ [][ClientNext]_clientVars

-------------------------------------------------------------------------------
\* Types of the client's state.
ClientTypeOK ==
  /\ queue \in Seq(Nat) /\ incoming \in Seq(Nat) /\ future \in Seq(Nat)
  /\ latest \in Nat \cup {-1} /\ popped \in Nat \cup {-1}
  /\ chunkSize \in Nat \cup {-1}
  /\ mustGo \in BOOLEAN /\ mutated \in BOOLEAN
  /\ obs \in [timestep : Nat \cup {-1}, mustGo : BOOLEAN]
  /\ ctl \in Controls /\ rcv \in Receivers
  /\ ctl = "perform" => popped \in Nat

\* The queue the control loop pops from is one chunk's actions at most, in
\* strictly ascending order, however the receiver's swaps fall: an
\* aggregation replaces the queue and never piles chunks on one another
\* (robot_client.py:235-267).
QueueIsOneChunk == Ascending(queue) /\ Len(queue) <= ActionsPerChunk

\* "New action is older than the latest action in the queue, skip it": what
\* is handed to the robot is newer than everything performed before it
\* (robot_client.py:241-247, 266-267).
PerformsInOrder == ctl = "perform" => popped > latest

================================================================================
