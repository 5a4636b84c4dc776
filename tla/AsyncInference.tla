------------------------------ MODULE AsyncInference ------------------------------
(***************************************************************************)
(* RobotClient and PolicyServer joined by gRPC.  A call of the client is   *)
(* served by one worker (sendCall, getCall), once one is free.  The call   *)
(* may fail on the client's side, or be retried by the channel             *)
(* (grpc_channel_options sets a retry policy), while the worker that       *)
(* serves it runs on: its effects stay and its reply goes nowhere.         *)
(***************************************************************************)
EXTENDS RobotClient, PolicyServer

CONSTANTS
  NoWorker,      (* no worker serves the call                                 *)
  Similar,       (* the answers observations_similar may give                 *)
  MaxFaults,     (* bound: RPC errors, retries, capture and inference failures*)
  MaxSessions    (* bound: client processes, one after the other              *)

ASSUME SystemAssumption ==
  /\ NoWorker \notin Workers
  /\ Similar \subseteq BOOLEAN
  /\ MaxFaults \in Nat /\ MaxSessions \in Nat

VARIABLES
  sendCall,     (* the worker serving the client's SendObservations call     *)
  getCall,      (* the worker serving the client's GetActions call           *)
  faults        (* faults so far                                             *)

vars == <<clientVars, serverVars, sendCall, getCall, faults>>

Init ==
  /\ ClientInit /\ ServerInit
  /\ sendCall = NoWorker /\ getCall = NoWorker /\ faults = 0

Fault == faults < MaxFaults /\ faults' = faults + 1

-------------------------------------------------------------------------------
(* The handshake of start().                                                 *)

ReadyRpc ==
  /\ Session <= MaxSessions
  /\ Ready(TRUE) /\ ResetServer
  /\ UNCHANGED <<sendCall, getCall, faults>>

InstructRpc ==
  /\ Instruct(TRUE) /\ SendPolicyInstructions
  /\ UNCHANGED <<sendCall, getCall, faults>>

\* The error may strike before the server has acted or after.
HandshakeFails ==
  /\ Fault
  /\ \/ Ready(FALSE) /\ (UNCHANGED serverVars \/ (Session <= MaxSessions /\ ResetServer))
     \/ Instruct(FALSE) /\ (UNCHANGED serverVars \/ SendPolicyInstructions)
  /\ UNCHANGED <<sendCall, getCall>>

NoObservationTaken ==
  /\ Fault /\ CaptureFails
  /\ UNCHANGED <<serverVars, sendCall, getCall>>

-------------------------------------------------------------------------------
(* SendObservations.                                                         *)

SendDispatch(w) ==
  /\ ctl = "send" /\ sendCall = NoWorker
  /\ AcceptObservation(w, [timestep |-> obs.timestep, mustGo |-> obs.mustGo, session |-> Session])
  /\ sendCall' = w
  /\ UNCHANGED <<clientVars, getCall, faults>>

SendReply ==
  /\ sendCall # NoWorker /\ job[sendCall].pc \in SendReplies
  /\ SendDone /\ Release(sendCall)
  /\ sendCall' = NoWorker
  /\ UNCHANGED <<getCall, faults>>

SendFails ==
  /\ Fault /\ SendDone
  /\ sendCall' = NoWorker
  /\ UNCHANGED <<serverVars, getCall>>

SendRetried ==
  /\ Fault /\ sendCall # NoWorker
  /\ sendCall' = NoWorker
  /\ UNCHANGED <<clientVars, serverVars, getCall>>

-------------------------------------------------------------------------------
(* GetActions.                                                               *)

GetDispatch(w) ==
  /\ rcv = "calling" /\ Running /\ getCall = NoWorker
  /\ AcceptGetActions(w)
  /\ getCall' = w
  /\ UNCHANGED <<clientVars, sendCall, faults>>

\* Faulty variant: an Empty reply is taken for a chunk.
GetReplyUnchecked ==
  /\ getCall # NoWorker /\ job[getCall].pc \in GetReplies
  /\ Receive(IF At(getCall, "chunk") THEN TimeActionChunk(job[getCall].obs.timestep) ELSE <<>>)
  /\ Release(getCall)
  /\ getCall' = NoWorker
  /\ UNCHANGED <<sendCall, faults>>

GetReply ==
  /\ getCall # NoWorker /\ job[getCall].pc \in GetReplies
  /\ IF job[getCall].pc = "chunk"
       THEN Receive(TimeActionChunk(job[getCall].obs.timestep))
       ELSE ReceiveNothing
  /\ Release(getCall)
  /\ getCall' = NoWorker
  /\ UNCHANGED <<sendCall, faults>>

GetFails ==
  /\ Fault /\ Running /\ ReceiveNothing
  /\ getCall' = NoWorker
  /\ UNCHANGED <<serverVars, sendCall>>

GetRetried ==
  /\ Fault /\ getCall # NoWorker
  /\ getCall' = NoWorker
  /\ UNCHANGED <<clientVars, serverVars, sendCall>>

\* stop() has closed the channel under the pending call.
GetCancelled ==
  /\ ~Running /\ ReceiveNothing
  /\ UNCHANGED <<serverVars, sendCall, getCall, faults>>

-------------------------------------------------------------------------------
\* stop(): the channel is closed and both calls are abandoned.
Stop ==
  /\ Interrupt
  /\ sendCall' = NoWorker /\ getCall' = NoWorker
  /\ UNCHANGED <<serverVars, faults>>

\* The next client process, once the last one has stopped.
Restart ==
  /\ Session <= MaxSessions
  /\ ClientRestart
  /\ sendCall' = NoWorker /\ getCall' = NoWorker
  /\ UNCHANGED <<serverVars, faults>>

OrphanReleased(w) ==
  /\ w \notin {sendCall, getCall}
  /\ Release(w)
  /\ UNCHANGED <<clientVars, sendCall, getCall, faults>>

InferenceFails(w) ==
  /\ Fault /\ PredictionFails(w)
  /\ UNCHANGED <<clientVars, sendCall, getCall>>

\* PopEmpty leaves control_loop and runs stop() too.
ClientControl ==
  /\ ControlStep
  /\ getCall' = IF Running' THEN getCall ELSE NoWorker
  /\ UNCHANGED <<serverVars, sendCall, faults>>

ClientReceiver ==
  /\ ReceiverStep
  /\ UNCHANGED <<serverVars, sendCall, getCall, faults>>

Handler(w) ==
  /\ SendStep(w) \/ GetStep(w) \/ \E similar \in Similar : FilterObservation(w, similar)
  /\ UNCHANGED <<clientVars, sendCall, getCall, faults>>

\* Nothing is left to do: the client is gone (or hangs in join() behind the
\* start barrier) and every handler has returned, or waits in put on a queue
\* nobody will empty.
Finished ==
  /\ ~Running /\ (ReceiverEnded \/ rcv = "barrier")
  /\ Session = MaxSessions + 1
  /\ \A w \in Workers : At(w, "free") \/ At(w, "blocked")
  /\ UNCHANGED vars

-------------------------------------------------------------------------------
Next ==
  \/ ReadyRpc \/ InstructRpc \/ HandshakeFails \/ NoObservationTaken
  \/ ClientControl \/ ClientReceiver
  \/ SendReply \/ SendFails \/ SendRetried
  \/ GetReply \/ GetFails \/ GetRetried \/ GetCancelled
  \/ Stop \/ Restart \/ Finished
  \/ \E w \in Workers : SendDispatch(w) \/ GetDispatch(w) \/ Handler(w)
                        \/ OrphanReleased(w) \/ InferenceFails(w)

Spec == Init /\ [][Next]_vars

\* Every thread keeps running; a waiting get() is woken by put (hence SF for
\* the handler that takes the observation); nothing makes a fault, an
\* interrupt or a restart happen.
Fairness ==
  /\ WF_vars(ReadyRpc) /\ WF_vars(InstructRpc)
  /\ WF_vars(ClientControl) /\ WF_vars(ClientReceiver)
  /\ WF_vars(SendReply) /\ WF_vars(GetReply) /\ WF_vars(GetCancelled)
  /\ WF_vars(\E w \in Workers : SendDispatch(w))
  /\ WF_vars(\E w \in Workers : GetDispatch(w))
  /\ \A w \in Workers :
       /\ WF_vars(Handler(w)) /\ WF_vars(OrphanReleased(w))
       /\ SF_vars(TakeObservation(w) /\ UNCHANGED <<clientVars, sendCall, getCall, faults>>)

FairSpec == Spec /\ Fairness

-------------------------------------------------------------------------------
\* Types of the system's state.
TypeOK ==
  /\ ClientTypeOK /\ ServerTypeOK
  /\ sendCall \in Workers \cup {NoWorker} /\ getCall \in Workers \cup {NoWorker}
  /\ faults \in 0..MaxFaults

\* Every action the client holds comes from a chunk whose observation the
\* server has recorded as predicted, in this session: the recording precedes
\* the inference, and Ready precedes the calls (policy_server.py:228-232, 105-106).
ActionsWerePredicted ==
  \A i \in 1..Len(queue) :
    \E t \in predicted : queue[i] \in t .. t + ActionsPerChunk - 1

\* "If there are no actions left in the queue, the observation must go
\* through processing!": a must-go observation that has reached the server is
\* run through the policy, it or one taken at the same or a later timestep,
\* unless it loses the race in _enqueue_observation and its call fails, the
\* robot goes back behind its timestep and sends that one, the client stops,
\* or its receiver thread has died (policy_server.py:290-307).
MustGoIsServed ==
  \A w \in Workers, t \in Timesteps :
    (At(w, "filter") /\ job[w].obs.mustGo /\ job[w].obs.timestep = t)
      ~> \/ ~Running \/ rcv = "dead" \/ At(w, "failed")
         \/ 0 < t /\ latest < t
         \/ \E v \in Workers : At(v, "infer") /\ job[v].obs.timestep >= t

\* "An observation with `must_go=True` is always enqueued": its handler never
\* fails (policy_server.py:303-307).
MustGoIsEnqueued == \A w \in Workers : At(w, "failed") => ~job[w].obs.mustGo

\* While the receiver thread lives, the robot never starves: with actions to
\* go it performs them until the client is stopped (robot_client.py:427-437).
RobotProgresses == <>(latest >= Horizon \/ ~Running \/ rcv = "dead")

\* client.stop() ends the receiver thread (join() returns), unless the
\* receiver still waits at the start barrier (robot_client.py:275, 508-509).
StopJoinsReceiver == (~Running /\ rcv # "barrier") ~> (ReceiverEnded \/ Running)

\* A handler that started returns, and its thread goes back to the pool
\* (policy_server.py:173-266).
HandlersReturn == \A w \in Workers : ~At(w, "free") ~> At(w, "free")

================================================================================
