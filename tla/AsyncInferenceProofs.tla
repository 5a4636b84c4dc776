------------------------- MODULE AsyncInferenceProofs -------------------------
(***************************************************************************)
(* Proofs about asynchronous inference.  The robot client on its own, for  *)
(* any server, chunk length, threshold and horizon: its types, and that    *)
(* the action queue is a single ascending chunk whatever the receiver and  *)
(* the control loop interleave.  Then client and server joined by gRPC,    *)
(* for any number of workers, client processes, failing and retried calls: *)
(* types, where the actions come from, that the client sees nothing but    *)
(* what RobotClient expects of a server, and when a put never blocks.      *)
(***************************************************************************)
EXTENDS AsyncInference, SequenceTheorems, TLAPS

-------------------------------------------------------------------------------
(* The robot client.                                                         *)

\* What the aggregation of a chunk keeps true between its steps: the actions
\* kept so far and those still to be compared are the ascending rest of one
\* chunk, and nothing is kept outside the filtering loop.
AggregationInv ==
  /\ Ascending(incoming) /\ Ascending(future)
  /\ \A i \in 1..Len(future), j \in 1..Len(incoming) : future[i] < incoming[j]
  /\ Len(future) + Len(incoming) <= ActionsPerChunk
  /\ rcv # "filter" => future = <<>>

\* The receiver thread is started after the handshake.
StartInv == ctl \in {"ready", "instruct"} => rcv = "off"

ClientInv == ClientTypeOK /\ StartInv /\ AggregationInv /\ QueueIsOneChunk

-------------------------------------------------------------------------------
(* Sequences.                                                                *)

\* Popping the head of an ascending queue leaves an ascending queue, one shorter.
LEMMA TailAscending ==
  ASSUME NEW s \in Seq(Nat), s # <<>>, Ascending(s)
  PROVE  /\ Tail(s) \in Seq(Nat) /\ Head(s) \in Nat
         /\ Ascending(Tail(s))
         /\ Len(Tail(s)) = Len(s) - 1
         /\ \A i \in 1..Len(Tail(s)) : Tail(s)[i] = s[i + 1] /\ Head(s) < Tail(s)[i]
<1>1. Len(s) \in Nat /\ Len(s) >= 1 /\ Head(s) = s[1] /\ s[1] \in Nat
  OBVIOUS
<1>2. Tail(s) \in Seq(Nat) /\ Len(Tail(s)) = Len(s) - 1
  OBVIOUS
<1>3. \A i \in 1..Len(Tail(s)) : Tail(s)[i] = s[i + 1]
  OBVIOUS
<1>4. \A i \in 1..Len(Tail(s)) : Head(s) < Tail(s)[i]
  BY <1>1, <1>2, <1>3 DEF Ascending
<1>5. Ascending(Tail(s))
  BY <1>1, <1>2, <1>3 DEF Ascending
<1> QED
  BY <1>1, <1>2, <1>3, <1>4, <1>5

\* Keeping an action newer than all kept so far keeps the queue ascending.
LEMMA AppendAscending ==
  ASSUME NEW s \in Seq(Nat), NEW e \in Nat, Ascending(s),
         \A i \in 1..Len(s) : s[i] < e
  PROVE  /\ Append(s, e) \in Seq(Nat)
         /\ Ascending(Append(s, e))
         /\ Len(Append(s, e)) = Len(s) + 1
         /\ \A i \in 1..Len(s) : Append(s, e)[i] = s[i]
         /\ Append(s, e)[Len(s) + 1] = e
<1>1. Append(s, e) \in Seq(Nat) /\ Len(Append(s, e)) = Len(s) + 1 /\ Len(s) \in Nat
  OBVIOUS
<1>2. /\ \A i \in 1..Len(s) : Append(s, e)[i] = s[i]
      /\ Append(s, e)[Len(s) + 1] = e
  OBVIOUS
<1>3. Ascending(Append(s, e))
  BY <1>1, <1>2 DEF Ascending
<1> QED
  BY <1>1, <1>2, <1>3

\* A predicted chunk is ascending and as long as actions_per_chunk.
LEMMA ChunkAscending ==
  ASSUME NEW t0 \in Nat
  PROVE  /\ TimeActionChunk(t0) \in Seq(Nat) /\ Ascending(TimeActionChunk(t0))
         /\ Len(TimeActionChunk(t0)) = ActionsPerChunk
<1> DEFINE chunk == TimeActionChunk(t0)
<1>1. ActionsPerChunk \in Nat /\ chunk = [i \in 1..ActionsPerChunk |-> t0 + i - 1]
  BY AsyncAssumption DEF TimeActionChunk
<1> HIDE DEF chunk
<1>2. chunk \in Seq(Nat) /\ Len(chunk) = ActionsPerChunk
  BY <1>1
<1>3. Ascending(chunk)
  BY <1>1, <1>2 DEF Ascending
<1> QED
  BY <1>2, <1>3 DEF chunk

-------------------------------------------------------------------------------
(* The invariant.                                                            *)

\* A client starts with nothing queued, whether first or after a restart.
LEMMA InitClientInv == ClientInit => ClientInv
<1> SUFFICES ASSUME ClientInit PROVE ClientInv
  OBVIOUS
<1>1. queue = <<>> /\ incoming = <<>> /\ future = <<>>
  BY DEF ClientInit
<1>2. ClientTypeOK
  <2>1. queue \in Seq(Nat) /\ incoming \in Seq(Nat) /\ future \in Seq(Nat)
    BY <1>1
  <2>2. obs \in [timestep : Nat \cup {-1}, mustGo : BOOLEAN]
    BY DEF ClientInit, NoObservation
  <2> QED
    BY <2>1, <2>2 DEF ClientInit, ClientTypeOK, Controls, Receivers
<1>3. AggregationInv /\ QueueIsOneChunk
  BY <1>1, AsyncAssumption DEF AggregationInv, QueueIsOneChunk, Ascending
<1>4. StartInv
  BY DEF ClientInit, StartInv
<1> QED
  BY <1>2, <1>3, <1>4 DEF ClientInv

LEMMA RestartInv == ClientRestart => ClientInv'
<1> SUFFICES ASSUME ClientRestart PROVE ClientInv'
  OBVIOUS
<1>1. queue' = <<>> /\ incoming' = <<>> /\ future' = <<>>
  BY DEF ClientRestart
<1>2. ClientTypeOK'
  <2>1. queue' \in Seq(Nat) /\ incoming' \in Seq(Nat) /\ future' \in Seq(Nat)
    BY <1>1
  <2>2. obs' \in [timestep : Nat \cup {-1}, mustGo : BOOLEAN]
    BY DEF ClientRestart, NoObservation
  <2> QED
    BY <2>1, <2>2 DEF ClientRestart, ClientTypeOK, Controls, Receivers
<1>3. AggregationInv' /\ QueueIsOneChunk'
  BY <1>1, AsyncAssumption DEF AggregationInv, QueueIsOneChunk, Ascending
<1>4. StartInv'
  BY DEF ClientRestart, StartInv
<1> QED
  BY <1>2, <1>3, <1>4 DEF ClientInv

\* The steps that touch neither the queue nor the aggregation.
LEMMA FlowInv ==
  ASSUME ClientInv,
         \/ \E ok \in BOOLEAN : Ready(ok) \/ Instruct(ok)
         \/ Barrier \/ Avail \/ PopEmpty \/ Perform \/ Check \/ Flag \/ SendDone
         \/ CaptureFails \/ ClearMustGo \/ Interrupt \/ Call \/ ReceiveNothing \/ IterateBegin \/ SetMustGo
  PROVE  ClientInv'
<1> USE DEF receiverVars, controlVars, Controls, Receivers, NoObservation
<1>1. ClientTypeOK'
  <2> USE DEF ClientInv, ClientTypeOK
  <2>1. CASE \E ok \in BOOLEAN : Ready(ok) \/ Instruct(ok)
    BY <2>1 DEF Ready, Instruct
  <2>2. CASE Barrier \/ Avail \/ PopEmpty
    BY <2>2 DEF Barrier, Avail, PopEmpty
  <2>3. CASE Perform
    BY <2>3 DEF Perform
  <2>4. CASE Check \/ CaptureFails \/ SendDone
    BY <2>4 DEF Check, CaptureFails, SendDone
  <2>5. CASE Interrupt
    BY <2>5 DEF Interrupt
  <2>6. CASE Flag
    <3>1. (mustGo /\ queue = <<>>) \in BOOLEAN
      OBVIOUS
    <3>2. obs' \in [timestep : Nat \cup {-1}, mustGo : BOOLEAN]
      BY <2>6, <3>1 DEF Flag
    <3> QED
      BY <2>6, <3>2 DEF Flag
  <2>7. CASE ClearMustGo
    <3>1. mustGo' \in BOOLEAN
      BY <2>7, Zenon DEF ClearMustGo
    <3> QED
      BY <2>7, <3>1 DEF ClearMustGo
  <2>8. CASE Call \/ ReceiveNothing
    BY <2>8 DEF Call, ReceiveNothing
  <2>9. CASE IterateBegin \/ SetMustGo
    BY <2>9 DEF IterateBegin, SetMustGo
  <2> QED
    BY <2>1, <2>2, <2>3, <2>4, <2>5, <2>6, <2>7, <2>8, <2>9
<1>2. /\ queue' = queue /\ future' = future /\ incoming' = incoming
      /\ rcv' = "filter" <=> rcv = "filter"
  <2>1. CASE \E ok \in BOOLEAN : Ready(ok) \/ Instruct(ok)
    BY <2>1 DEF Ready, Instruct, ClientInv, StartInv
  <2>2. CASE Barrier \/ Avail \/ PopEmpty \/ Perform \/ Check \/ CaptureFails \/ SendDone \/ Interrupt
    BY <2>2 DEF Barrier, Avail, PopEmpty, Perform, Check, CaptureFails, SendDone, Interrupt
  <2>3. CASE Flag \/ ClearMustGo
    BY <2>3 DEF Flag, ClearMustGo
  <2>4. CASE Call \/ ReceiveNothing \/ IterateBegin \/ SetMustGo
    BY <2>4 DEF Call, ReceiveNothing, IterateBegin, SetMustGo
  <2> QED
    BY <2>1, <2>2, <2>3, <2>4
<1>3. AggregationInv' /\ QueueIsOneChunk'
  BY <1>2 DEF ClientInv, AggregationInv, QueueIsOneChunk, Ascending
<1>4. StartInv'
  BY DEF ClientInv, StartInv, Ready, Instruct, Barrier, Avail, PopEmpty, Perform, Check,
     Flag, CaptureFails, SendDone, ClearMustGo, Interrupt, Call, ReceiveNothing, IterateBegin, SetMustGo
<1> QED
  BY <1>1, <1>3, <1>4 DEF ClientInv

\* get_nowait() takes the oldest action.
LEMMA PopInv == ASSUME ClientInv, Pop PROVE ClientInv'
<1> USE DEF receiverVars, Controls, Receivers
<1>1. queue \in Seq(Nat) /\ queue # <<>> /\ Ascending(queue) /\ queue' = Tail(queue)
  BY DEF ClientInv, ClientTypeOK, QueueIsOneChunk, Pop
<1>2. /\ Tail(queue) \in Seq(Nat) /\ Head(queue) \in Nat
      /\ Ascending(Tail(queue)) /\ Len(Tail(queue)) = Len(queue) - 1
  BY <1>1, TailAscending
<1>3. QueueIsOneChunk'
  BY <1>1, <1>2, AsyncAssumption DEF ClientInv, QueueIsOneChunk, Ascending
<1>4. ClientTypeOK'
  BY <1>1, <1>2 DEF ClientInv, ClientTypeOK, Pop
<1>5. AggregationInv'
  BY DEF ClientInv, AggregationInv, Pop, Ascending
<1>6. StartInv'
  BY DEF ClientInv, StartInv, Pop
<1> QED
  BY <1>3, <1>4, <1>5, <1>6 DEF ClientInv

\* A chunk arrives while nothing is being aggregated.
LEMMA ReceiveInv ==
  ASSUME ClientInv, NEW t0 \in Nat, Receive(TimeActionChunk(t0))
  PROVE  ClientInv'
<1> USE DEF controlVars, Controls, Receivers
<1> DEFINE chunk == TimeActionChunk(t0)
<1> HIDE DEF chunk
<1>0. Receive(chunk)
  BY DEF chunk
<1>1. chunk \in Seq(Nat) /\ Ascending(chunk) /\ Len(chunk) = ActionsPerChunk
  BY ChunkAscending DEF chunk
<1>2. /\ incoming' = chunk /\ future' = future /\ future = <<>> /\ queue' = queue
      /\ rcv' = "received"
  BY <1>0 DEF ClientInv, AggregationInv, Receive
<1>3. ClientTypeOK'
  BY <1>0, <1>1, <1>2, AsyncAssumption DEF ClientInv, ClientTypeOK, Receive
<1>4. AggregationInv'
  BY <1>1, <1>2, AsyncAssumption DEF AggregationInv, Ascending
<1>5. QueueIsOneChunk'
  BY <1>2 DEF ClientInv, QueueIsOneChunk, Ascending
<1>6. StartInv'
  BY <1>0 DEF ClientInv, StartInv, Receive
<1> QED
  BY <1>3, <1>4, <1>5, <1>6 DEF ClientInv

\* The thread goes on to filter the chunk, or dies and drops it.
LEMMA IterateEndInv == ASSUME ClientInv, IterateEnd PROVE ClientInv'
<1> USE DEF controlVars, Controls, Receivers
<1>1. incoming' \in {incoming, <<>>} /\ future' = future /\ future = <<>> /\ queue' = queue
  BY DEF ClientInv, AggregationInv, IterateEnd
<1>2. ClientTypeOK'
  BY <1>1 DEF ClientInv, ClientTypeOK, IterateEnd
<1>3. AggregationInv'
  BY <1>1, AsyncAssumption DEF ClientInv, AggregationInv, Ascending
<1>4. QueueIsOneChunk'
  BY <1>1 DEF ClientInv, QueueIsOneChunk, Ascending
<1>5. StartInv'
  BY DEF ClientInv, StartInv, IterateEnd
<1> QED
  BY <1>2, <1>3, <1>4, <1>5 DEF ClientInv

\* One action moves from the chunk to the future queue, or is skipped.
LEMMA FilterInv == ASSUME ClientInv, Filter PROVE ClientInv'
<1> USE DEF controlVars, Controls, Receivers
<1> DEFINE e == Head(incoming)
<1>1. /\ incoming \in Seq(Nat) /\ incoming # <<>> /\ Ascending(incoming)
      /\ future \in Seq(Nat) /\ Ascending(future)
      /\ incoming' = Tail(incoming) /\ queue' = queue /\ rcv' = rcv /\ rcv = "filter"
  BY DEF ClientInv, ClientTypeOK, AggregationInv, Filter
<1>2. /\ Tail(incoming) \in Seq(Nat) /\ e \in Nat
      /\ Ascending(Tail(incoming)) /\ Len(Tail(incoming)) = Len(incoming) - 1
      /\ \A i \in 1..Len(Tail(incoming)) :
           Tail(incoming)[i] = incoming[i + 1] /\ e < Tail(incoming)[i]
  BY <1>1, TailAscending
<1>3. \A i \in 1..Len(future) : future[i] < e
  <2>1. e = incoming[1] /\ 1 \in 1..Len(incoming)
    BY <1>1
  <2> QED
    BY <2>1 DEF ClientInv, AggregationInv
<1>4. QueueIsOneChunk'
  BY <1>1 DEF ClientInv, QueueIsOneChunk, Ascending
<1>5. StartInv'
  BY DEF ClientInv, StartInv, Filter
<1>6. CASE future' = future
  <2>1. ClientTypeOK'
    BY <1>1, <1>2, <1>6 DEF ClientInv, ClientTypeOK, Filter
  <2>2. \A i \in 1..Len(future), j \in 1..Len(Tail(incoming)) : future[i] < Tail(incoming)[j]
    BY <1>1, <1>2, <1>3
  <2>3. AggregationInv'
    BY <1>1, <1>2, <1>6, <2>2, AsyncAssumption DEF ClientInv, AggregationInv, Ascending
  <2> QED
    BY <1>4, <1>5, <2>1, <2>3 DEF ClientInv
<1>7. CASE future' = Append(future, e)
  <2>1. /\ Append(future, e) \in Seq(Nat) /\ Ascending(Append(future, e))
        /\ Len(Append(future, e)) = Len(future) + 1
        /\ \A i \in 1..Len(future) : Append(future, e)[i] = future[i]
        /\ Append(future, e)[Len(future) + 1] = e
    BY <1>1, <1>2, <1>3, AppendAscending
  <2>2. ClientTypeOK'
    BY <1>1, <1>2, <1>7, <2>1 DEF ClientInv, ClientTypeOK, Filter
  <2>3. \A i \in 1..Len(Append(future, e)), j \in 1..Len(Tail(incoming)) :
          Append(future, e)[i] < Tail(incoming)[j]
    <3> SUFFICES ASSUME NEW i \in 1..(Len(future) + 1), NEW j \in 1..Len(Tail(incoming))
                 PROVE  Append(future, e)[i] < Tail(incoming)[j]
      BY <2>1
    <3>1. Len(future) \in Nat /\ Tail(incoming)[j] \in Nat /\ e < Tail(incoming)[j]
      BY <1>1, <1>2
    <3>2. CASE i = Len(future) + 1
      BY <2>1, <3>1, <3>2
    <3>3. CASE i \in 1..Len(future)
      <4>1. Append(future, e)[i] = future[i] /\ future[i] < e /\ future[i] \in Nat
        BY <1>1, <1>3, <2>1, <3>3
      <4> QED
        BY <1>2, <3>1, <4>1
    <3> QED
      BY <3>1, <3>2, <3>3
  <2>4. Ascending(future') /\ Ascending(incoming')
    BY <1>1, <1>2, <1>7, <2>1
  <2>5. AggregationInv'
    BY <1>1, <1>2, <1>7, <2>1, <2>3, <2>4, AsyncAssumption DEF ClientInv, AggregationInv, Ascending
  <2> QED
    BY <1>4, <1>5, <2>2, <2>5 DEF ClientInv
<1> QED
  BY <1>6, <1>7 DEF Filter

\* The future queue takes the place of the queue.
LEMMA SwapInv == ASSUME ClientInv, Swap PROVE ClientInv'
<1> USE DEF controlVars, Controls, Receivers
<1>1. /\ queue' = future /\ future' = <<>> /\ incoming' = incoming /\ incoming = <<>>
      /\ future \in Seq(Nat)
  BY DEF ClientInv, ClientTypeOK, Swap
<1>2. ClientTypeOK'
  BY <1>1 DEF ClientInv, ClientTypeOK, Swap
<1>3. QueueIsOneChunk'
  BY <1>1, AsyncAssumption DEF ClientInv, AggregationInv, QueueIsOneChunk, Ascending
<1>4. AggregationInv'
  BY <1>1, AsyncAssumption DEF ClientInv, AggregationInv, Ascending
<1>5. StartInv'
  BY DEF ClientInv, StartInv, Swap
<1> QED
  BY <1>2, <1>3, <1>4, <1>5 DEF ClientInv

\* Every step of the client, or none, preserves the invariant.
LEMMA NextClientInv == ClientInv /\ [ClientNext]_clientVars => ClientInv'
<1> SUFFICES ASSUME ClientInv, [ClientNext]_clientVars
             PROVE  ClientInv'
  OBVIOUS
<1>1. CASE ControlStep
  BY <1>1, FlowInv, PopInv DEF ControlStep
<1>2. CASE ReceiverStep
  BY <1>2, FlowInv, IterateEndInv, FilterInv, SwapInv DEF ReceiverStep
<1>3. CASE \E ok \in BOOLEAN : Ready(ok) \/ Instruct(ok)
  BY <1>3, FlowInv
<1>4. CASE CaptureFails \/ SendDone \/ ReceiveNothing \/ Interrupt
  BY <1>4, FlowInv
<1>5. CASE \E chunk \in Chunks : Receive(chunk)
  <2>1. PICK t0 \in Timesteps : Receive(TimeActionChunk(t0))
    BY <1>5 DEF Chunks
  <2> QED
    BY <2>1, ReceiveInv, AsyncAssumption
<1>6. CASE ClientRestart
  BY <1>6, RestartInv
<1>7. CASE UNCHANGED clientVars
  BY <1>7 DEF clientVars, controlVars, receiverVars, ClientInv, ClientTypeOK, StartInv, AggregationInv,
     QueueIsOneChunk, Ascending
<1> QED
  BY <1>1, <1>2, <1>3, <1>4, <1>5, <1>6, <1>7 DEF ClientNext

\* The client's variables keep their types, for any server.
THEOREM ClientTypeCorrect == ClientSpec => []ClientTypeOK
<1>1. ClientInv => ClientTypeOK
  BY DEF ClientInv
<1> QED
  BY <1>1, InitClientInv, NextClientInv, PTL DEF ClientSpec

\* The action queue is always one ascending chunk, for any server and any
\* interleaving of the control loop with the receiver.
THEOREM ClientQueueCorrect == ClientSpec => []QueueIsOneChunk
<1>1. ClientInv => QueueIsOneChunk
  BY DEF ClientInv
<1> QED
  BY <1>1, InitClientInv, NextClientInv, PTL DEF ClientSpec

-------------------------------------------------------------------------------
(* The client's steps as the system takes them: GetActions may return a      *)
(* chunk of any timestep.                                                    *)
ClientStep ==
  \/ ControlStep \/ ReceiverStep
  \/ \E ok \in BOOLEAN : Ready(ok) \/ Instruct(ok)
  \/ CaptureFails \/ SendDone \/ ReceiveNothing \/ Interrupt \/ ClientRestart
  \/ UNCHANGED clientVars

AnyChunk(t0) == t0 \in Nat /\ Receive(TimeActionChunk(t0))

LEMMA ClientStepInv ==
  ASSUME ClientInv, ClientStep \/ \E t0 \in Nat : AnyChunk(t0)
  PROVE  ClientInv'
<1>1. CASE ClientStep
  BY <1>1, NextClientInv DEF ClientStep, ClientNext
<1>2. CASE \E t0 \in Nat : AnyChunk(t0)
  BY <1>2, ReceiveInv DEF AnyChunk
<1> QED
  BY <1>1, <1>2

\* A client that has not started holds no action, and what it sends was
\* captured at a timestep.
FreshInv ==
  /\ ctl \in {"ready", "instruct"} => queue = <<>> /\ incoming = <<>> /\ future = <<>>
  /\ ctl = "send" => obs.timestep \in Nat

LEMMA NextFreshInv ==
  ASSUME ClientInv, FreshInv, ClientStep \/ \E t0 \in Nat : AnyChunk(t0)
  PROVE  FreshInv'
<1>1. ctl \in {"ready", "instruct"} => rcv = "off"
  BY DEF ClientInv, StartInv
<1>2. latest \in Nat \cup {-1}
  BY DEF ClientInv, ClientTypeOK
<1>3. CASE ControlStep
  <2>1. ctl' \notin {"ready", "instruct"}
    BY <1>1, <1>3 DEF ControlStep, Barrier, Avail, Pop, PopEmpty, Perform, Check, Flag, ClearMustGo
  <2>2. ctl' = "send" => obs'.timestep \in Nat
    BY <1>2, <1>3 DEF ControlStep, Barrier, Avail, Pop, PopEmpty, Perform, Check, Flag, ClearMustGo
  <2> QED
    BY <2>1, <2>2 DEF FreshInv
<1>4. CASE ReceiverStep \/ ReceiveNothing \/ \E t0 \in Nat : AnyChunk(t0)
  <2>1. ctl' = ctl /\ obs' = obs /\ rcv # "off"
    BY <1>4 DEF ReceiverStep, Call, IterateBegin, IterateEnd, Filter, Swap, SetMustGo,
         ReceiveNothing, AnyChunk, Receive, controlVars
  <2> QED
    BY <1>1, <2>1 DEF FreshInv
<1>5. CASE \E ok \in BOOLEAN : Ready(ok) \/ Instruct(ok)
  BY <1>5 DEF FreshInv, Ready, Instruct, receiverVars
<1>6. CASE CaptureFails \/ SendDone \/ Interrupt
  BY <1>6 DEF FreshInv, CaptureFails, SendDone, Interrupt
<1>7. CASE ClientRestart
  BY <1>7 DEF FreshInv, ClientRestart
<1>8. CASE UNCHANGED clientVars
  BY <1>8 DEF FreshInv, clientVars, controlVars, receiverVars
<1> QED
  BY <1>3, <1>4, <1>5, <1>6, <1>7, <1>8 DEF ClientStep

-------------------------------------------------------------------------------
(* The server.  A handler past its acceptance belongs to a session that has  *)
(* begun, and the observation it carries was captured at a timestep.         *)
Sending == {"filter", "full", "evict", "put", "blocked"}
Holding == {"record", "prepare", "infer", "chunk"}

Captured == {o \in Observations : o.timestep \in Nat}
Slots == {<<>>} \cup {<<o>> : o \in Captured}

Job == [pc : JobSteps, session : Nat, obs : Observations]

Sound(j, sessions) ==
  /\ j \in Job /\ j.session <= sessions
  /\ j.pc # "free" => j.session >= 1
  /\ j.pc \in Sending \cup Holding => j.obs \in Captured

ServerInv ==
  /\ obsQueue \in Seq(Slots) /\ obsQueue # <<>>
  /\ predicted \subseteq Nat \cup {-1}
  /\ hasLast \in BOOLEAN /\ policy \in BOOLEAN
  /\ job \in [Workers -> Job] /\ \A w \in Workers : Sound(job[w], Session)

LEMMA ServerTypes ==
  ASSUME ServerInv
  PROVE  ServerTypeOK
<1>1. Slots \subseteq Seq(Observations) /\ \A s \in Slots : Len(s) <= 1
  <2> SUFFICES ASSUME NEW s \in Slots PROVE s \in Seq(Observations) /\ Len(s) <= 1
    OBVIOUS
  <2>1. CASE s = <<>>
    BY <2>1
  <2>2. CASE \E o \in Captured : s = <<o>>
    BY <2>2 DEF Captured
  <2> QED
    BY <2>1, <2>2 DEF Slots
<1>2. obsQueue \in Seq(Slots)
  BY DEF ServerInv
<1>3. obsQueue \in Seq(Seq(Observations)) /\ \A n \in 1 .. Len(obsQueue) : obsQueue[n] \in Slots
  BY <1>1, <1>2, SeqMonotonic, ElementOfSeq
<1> QED
  BY <1>1, <1>3 DEF ServerInv, ServerTypeOK, Session, Job

LEMMA InitServerInv == ServerInit => ServerInv
<1> SUFFICES ASSUME ServerInit PROVE ServerInv
  OBVIOUS
<1>1. obsQueue = <<<<>>>> /\ <<>> \in Slots
  BY DEF ServerInit, Slots
<1>2. obsQueue \in Seq(Slots) /\ Session = 1 /\ obsQueue # <<>>
  BY <1>1 DEF Session
<1>3. NoJob \in Job /\ Sound(NoJob, 1)
  BY DEF NoJob, Job, JobSteps, Observations, Sound, Sending, Holding, SendReplies, GetReplies
<1> QED
  BY <1>2, <1>3 DEF ServerInit, ServerInv

\* What a queue object is, and holds.
LEMMA QueueObjects ==
  ASSUME ServerInv
  PROVE  /\ Session \in Nat \ {0}
         /\ \A n \in 1 .. Session : obsQueue[n] \in Slots
         /\ \A n \in 1 .. Session, s \in Slots :
              /\ [obsQueue EXCEPT ![n] = s] \in Seq(Slots)
              /\ Len([obsQueue EXCEPT ![n] = s]) = Session
              /\ [obsQueue EXCEPT ![n] = s] # <<>>
         /\ \A s \in Slots : s # <<>> => s[1] \in Captured
<1>1. obsQueue \in Seq(Slots) /\ obsQueue # <<>>
  BY DEF ServerInv
<1>2. Session \in Nat \ {0} /\ \A n \in 1 .. Session : obsQueue[n] \in Slots
  BY <1>1 DEF Session
<1>3. ASSUME NEW n \in 1 .. Session, NEW s \in Slots
      PROVE  /\ [obsQueue EXCEPT ![n] = s] \in Seq(Slots)
             /\ Len([obsQueue EXCEPT ![n] = s]) = Session
             /\ [obsQueue EXCEPT ![n] = s] # <<>>
  <2>1. /\ [obsQueue EXCEPT ![n] = s] \in Seq(Slots)
        /\ Len([obsQueue EXCEPT ![n] = s]) = Session
    BY <1>1, <1>3, ExceptSeq DEF Session
  <2> QED
    BY <1>2, <2>1
<1>4. ASSUME NEW s \in Slots, s # <<>> PROVE s[1] \in Captured
  BY <1>4 DEF Slots
<1> QED
  BY <1>2, <1>3, <1>4

\* A handler moves on; the other workers' jobs stay.
LEMMA SetJob ==
  ASSUME ServerInv, NEW w \in Workers, NEW j, Sound(j, Session),
         job' = [job EXCEPT ![w] = j], Session' = Session
  PROVE  job' \in [Workers -> Job] /\ \A v \in Workers : Sound(job'[v], Session')
<1>1. j \in Job /\ job \in [Workers -> Job]
  BY DEF Sound, ServerInv
<1>2. \A v \in Workers : job'[v] = IF v = w THEN j ELSE job[v]
  BY <1>1
<1> QED
  BY <1>1, <1>2 DEF ServerInv

LEMMA GoToJob ==
  ASSUME ServerInv, NEW w \in Workers, NEW pc \in JobSteps, GoTo(w, pc), Session' = Session,
         job[w].pc # "free",
         pc \in Sending \cup Holding => job[w].pc \in Sending \cup Holding
  PROVE  job' \in [Workers -> Job] /\ \A v \in Workers : Sound(job'[v], Session')
<1> DEFINE j == [job[w] EXCEPT !.pc = pc]
<1>1. job[w] \in Job /\ Sound(job[w], Session)
  BY DEF ServerInv
<1>2. j \in Job /\ j.pc = pc /\ j.session = job[w].session /\ j.obs = job[w].obs
  BY <1>1 DEF Job
<1>3. job' = [job EXCEPT ![w] = j]
  BY DEF GoTo
<1> HIDE DEF j
<1>4. Sound(j, Session)
  BY <1>1, <1>2 DEF Sound
<1> QED
  BY <1>3, <1>4, SetJob

\* The steps of a SendObservations handler, of a GetActions handler.
SendSteps == Sending \cup SendReplies
GetSteps  == {"get", "record", "prepare", "infer"} \cup GetReplies

\* The observation a handler infers from has been recorded.
Recorded(j, p) == j.pc \in {"prepare", "infer", "chunk"} => j.obs.timestep \in p

\* What a handler's step means to the others.
Moves(w) ==
  /\ Session' = Session /\ predicted \subseteq predicted'
  /\ \A v \in Workers \ {w} : job'[v] = job[v]
  /\ job[w].pc \in SendSteps => job'[w].pc \in SendSteps
  /\ job[w].pc \in GetSteps => job'[w].pc \in GetSteps
  /\ Recorded(job[w], predicted) => Recorded(job'[w], predicted')

LEMMA GoToFacts ==
  ASSUME ServerInv, NEW w \in Workers, NEW pc, GoTo(w, pc)
  PROVE  /\ job'[w].pc = pc /\ job'[w].obs = job[w].obs /\ job'[w].session = job[w].session
         /\ \A v \in Workers \ {w} : job'[v] = job[v]
<1>1. job \in [Workers -> Job] /\ job[w] \in Job
  BY DEF ServerInv
<1>2. job'[w] = [job[w] EXCEPT !.pc = pc]
  BY <1>1 DEF GoTo
<1> QED
  BY <1>1, <1>2 DEF GoTo, Job

\* The steps of a handler that leave the observation queue alone.
LEMMA QuietMoves ==
  ASSUME ServerInv, NEW w \in Workers, NEW similar,
         \/ CheckFull(w) \/ GetTimeout(w) \/ RecordTimestep(w) \/ PrepareObservation(w)
         \/ InferChunk(w) \/ FilterObservation(w, similar) \/ PredictionFails(w)
  PROVE  ServerInv' /\ Moves(w)
<1> USE DEF At
<1>1. obsQueue' = obsQueue /\ Session' = Session
  BY DEF CheckFull, GetTimeout, RecordTimestep, PrepareObservation, InferChunk,
     FilterObservation, PredictionFails, Session
<1>2. job[w] \in Job /\ Sound(job[w], Session)
  BY DEF ServerInv
<1>3. PICK pc \in {"full", "sent", "evict", "put", "empty", "prepare", "infer", "chunk"} :
        /\ GoTo(w, pc)
        /\ pc \in {"full", "sent", "evict", "put"} => job[w].pc \in {"filter", "full"}
        /\ pc \in {"prepare", "infer", "chunk"} => job[w].pc \in {"record", "prepare", "infer"}
        /\ pc = "empty" => job[w].pc \in {"get", "prepare", "infer"}
  BY DEF CheckFull, GetTimeout, RecordTimestep, PrepareObservation, InferChunk,
     FilterObservation, PredictionFails
<1>4. /\ job'[w].pc = pc /\ job'[w].obs = job[w].obs
      /\ \A v \in Workers \ {w} : job'[v] = job[v]
  BY <1>3, GoToFacts
<1>5. job' \in [Workers -> Job] /\ \A v \in Workers : Sound(job'[v], Session')
  BY <1>1, <1>3, GoToJob DEF JobSteps, Sending, Holding, SendReplies, GetReplies
<1>6. predicted \subseteq predicted' /\ predicted' \subseteq Nat \cup {-1}
  <2>1. CASE RecordTimestep(w)
    <3>1. job[w].obs \in Captured
      BY <1>2, <2>1 DEF RecordTimestep, Sound, Holding
    <3> QED
      BY <2>1, <3>1 DEF RecordTimestep, Captured, ServerInv
  <2>2. CASE ~RecordTimestep(w)
    <3>1. predicted' = predicted
      BY <2>2 DEF CheckFull, GetTimeout, PrepareObservation, InferChunk,
         FilterObservation, PredictionFails
    <3> QED
      BY <3>1 DEF ServerInv
  <2> QED
    BY <2>1, <2>2
<1>7. hasLast' \in BOOLEAN /\ policy' \in BOOLEAN
  BY DEF CheckFull, GetTimeout, RecordTimestep, PrepareObservation, InferChunk,
     FilterObservation, PredictionFails, ServerInv
<1>8. ServerInv'
  BY <1>1, <1>5, <1>6, <1>7 DEF ServerInv
<1>9. Recorded(job[w], predicted) => Recorded(job'[w], predicted')
  <2>1. CASE RecordTimestep(w)
    BY <1>4, <2>1 DEF RecordTimestep, Recorded
  <2>2. CASE ~RecordTimestep(w)
    <3>1. pc \in {"prepare", "infer", "chunk"} => job[w].pc \in {"prepare", "infer"}
      BY <1>4, <2>2, GoToFacts DEF CheckFull, GetTimeout, PrepareObservation, InferChunk,
         FilterObservation, PredictionFails
    <3> QED
      BY <1>4, <1>6, <3>1 DEF Recorded
  <2> QED
    BY <2>1, <2>2
<1> QED
  BY <1>1, <1>3, <1>4, <1>6, <1>8, <1>9
     DEF Moves, SendSteps, GetSteps, Sending, SendReplies, GetReplies

\* The steps of a handler that work on a queue object.
LEMMA QueueMoves ==
  ASSUME ServerInv, NEW w \in Workers,
         EvictObservation(w) \/ PutBlocks(w) \/ PutObservation(w) \/ TakeObservation(w)
  PROVE  ServerInv' /\ Moves(w)
<1> USE DEF At
<1>1. job \in [Workers -> Job] /\ job[w] \in Job /\ Sound(job[w], Session)
  BY DEF ServerInv
<1>2. /\ predicted' = predicted /\ hasLast' = hasLast /\ policy' = policy
  BY DEF EvictObservation, PutBlocks, PutObservation, TakeObservation
<1>3. Session \in Nat \ {0} /\ <<>> \in Slots /\ job[w].session \in 1 .. Session
  <2>1. job[w].session \in Nat /\ job[w].session <= Session /\ job[w].session >= 1
    BY <1>1 DEF Sound, Job, EvictObservation, PutBlocks, PutObservation, TakeObservation
  <2> QED
    BY <2>1, QueueObjects DEF Slots
<1>4. PICK n \in 1 .. Session, s \in Slots :
        obsQueue' = obsQueue \/ obsQueue' = [obsQueue EXCEPT ![n] = s]
  <2>1. CASE EvictObservation(w)
    <3>1. Session \in 1 .. Session /\ obsQueue' = [obsQueue EXCEPT ![Session] = <<>>]
      BY <1>3, <2>1 DEF EvictObservation
    <3> QED
      BY <1>3, <3>1
  <2>2. CASE PutBlocks(w)
    BY <1>3, <2>2 DEF PutBlocks
  <2>3. CASE PutObservation(w)
    <3>1. job[w].obs \in Captured
      BY <1>1, <2>3 DEF PutObservation, Sound, Sending
    <3>2. <<job[w].obs>> \in Slots
      BY <3>1 DEF Slots
    <3> QED
      BY <1>3, <2>3, <3>2 DEF PutObservation
  <2>4. CASE TakeObservation(w)
    BY <1>3, <2>4 DEF TakeObservation
  <2> QED
    BY <2>1, <2>2, <2>3, <2>4
<1>5. obsQueue' \in Seq(Slots) /\ Session' = Session /\ obsQueue' # <<>>
  <2>1. CASE obsQueue' = obsQueue
    BY <2>1 DEF ServerInv, Session
  <2>2. CASE obsQueue' = [obsQueue EXCEPT ![n] = s]
    BY <2>2, QueueObjects DEF Session
  <2> QED
    BY <1>4, <2>1, <2>2
<1>6. /\ job' \in [Workers -> Job] /\ \A v \in Workers : Sound(job'[v], Session')
      /\ \A v \in Workers \ {w} : job'[v] = job[v]
      /\ job[w].pc \in SendSteps => job'[w].pc \in SendSteps
      /\ job[w].pc \in GetSteps => job'[w].pc \in GetSteps
      /\ job'[w].pc \notin {"prepare", "infer", "chunk"}
  <2>1. CASE EvictObservation(w) \/ PutObservation(w)
    <3>1. PICK pc \in {"failed", "put", "sent"} :
            /\ GoTo(w, pc) /\ job[w].pc \in {"evict", "put", "blocked"}
      BY <2>1 DEF EvictObservation, PutObservation
    <3>2. job'[w].pc = pc /\ \A v \in Workers \ {w} : job'[v] = job[v]
      BY <3>1, GoToFacts
    <3>3. job' \in [Workers -> Job] /\ \A v \in Workers : Sound(job'[v], Session')
      BY <1>5, <3>1, GoToJob DEF JobSteps, Sending, Holding, SendReplies, GetReplies
    <3> QED
      BY <3>1, <3>2, <3>3 DEF SendSteps, GetSteps, Sending, SendReplies, GetReplies
  <2>2. CASE PutBlocks(w)
    <3> DEFINE j == [job[w] EXCEPT !.pc = "blocked", !.session = Session]
    <3>1. job' = [job EXCEPT ![w] = j] /\ job[w].pc = "put"
      BY <1>1, <2>2 DEF PutBlocks
    <3>2. j \in Job /\ j.pc = "blocked" /\ j.session = Session /\ j.obs = job[w].obs
      BY <1>1, <1>3 DEF Job, JobSteps
    <3> HIDE DEF j
    <3>3. Sound(j, Session)
      BY <1>1, <1>3, <3>1, <3>2 DEF Sound, Sending
    <3>4. job' \in [Workers -> Job] /\ \A v \in Workers : Sound(job'[v], Session')
      BY <1>5, <3>1, <3>3, SetJob
    <3>5. job'[w] = j /\ \A v \in Workers \ {w} : job'[v] = job[v]
      BY <1>1, <3>1
    <3> QED
      BY <3>1, <3>2, <3>4, <3>5 DEF SendSteps, GetSteps, Sending, SendReplies, GetReplies
  <2>3. CASE TakeObservation(w)
    <3> DEFINE o == QueueOf(w)[1]
               j == [job[w] EXCEPT !.pc = "record", !.obs = o]
    <3>1. o \in Captured
      BY <1>3, <2>3, QueueObjects DEF TakeObservation, QueueOf
    <3>2. job' = [job EXCEPT ![w] = j] /\ job[w].pc = "get"
      BY <1>1, <2>3 DEF TakeObservation
    <3> HIDE DEF o
    <3>3. j \in Job /\ j.pc = "record" /\ j.session = job[w].session /\ j.obs = o
      BY <1>1, <3>1 DEF Job, JobSteps, Captured
    <3> HIDE DEF j
    <3>4. Sound(j, Session)
      BY <1>1, <3>1, <3>2, <3>3 DEF Sound, Holding, Sending
    <3>5. job' \in [Workers -> Job] /\ \A v \in Workers : Sound(job'[v], Session')
      BY <1>5, <3>2, <3>4, SetJob
    <3>6. job'[w] = j /\ \A v \in Workers \ {w} : job'[v] = job[v]
      BY <1>1, <3>2
    <3> QED
      BY <3>2, <3>3, <3>5, <3>6 DEF SendSteps, GetSteps, Sending, SendReplies, GetReplies
  <2> QED
    BY <2>1, <2>2, <2>3
<1>7. ServerInv'
  BY <1>2, <1>5, <1>6 DEF ServerInv
<1> QED
  BY <1>2, <1>5, <1>6, <1>7 DEF Moves, Recorded

\* A handler's own steps.
LEMMA HandlerMoves ==
  ASSUME ServerInv, NEW w \in Workers, Handler(w) \/ InferenceFails(w)
  PROVE  ServerInv' /\ Moves(w)
BY QuietMoves, QueueMoves DEF Handler, InferenceFails, SendStep, GetStep

\* A call is handed to a worker of the pool.
LEMMA AcceptMoves ==
  ASSUME ServerInv, NEW w \in Workers,
         AcceptGetActions(w) \/ \E o \in Captured : AcceptObservation(w, o)
  PROVE  /\ ServerInv' /\ job[w].pc = "free"
         /\ \A v \in Workers \ {w} : job'[v] = job[v]
         /\ AcceptGetActions(w) => job'[w].pc = "get"
         /\ (\E o \in Captured : AcceptObservation(w, o)) => job'[w].pc = "filter"
         /\ predicted' = predicted /\ Session' = Session
<1>1. Session \in Nat \ {0}
  BY QueueObjects
<1>2. PICK j \in Job : /\ job' = [job EXCEPT ![w] = j]
                       /\ j.session = Session /\ j.pc \in {"get", "filter"}
                       /\ j.pc = "filter" => j.obs \in Captured
                       /\ AcceptGetActions(w) => j.pc = "get"
                       /\ (\E o \in Captured : AcceptObservation(w, o)) => j.pc = "filter"
  <2>1. CASE AcceptGetActions(w)
    <3> DEFINE j == [NoJob EXCEPT !.pc = "get", !.session = Session]
    <3>1. j \in Job /\ j.pc = "get" /\ j.session = Session
      BY <1>1 DEF Job, NoJob, JobSteps, Observations
    <3>2. job' = [job EXCEPT ![w] = j]
      BY <2>1 DEF AcceptGetActions
    <3> HIDE DEF j
    <3>3. ASSUME NEW o \in Captured, AcceptObservation(w, o) PROVE FALSE
      <4>1. job'[w].pc = "filter" /\ job'[w].pc = "get"
        BY <3>1, <3>2, <3>3 DEF AcceptObservation, ServerInv
      <4> QED
        BY <4>1
    <3> QED
      BY <3>1, <3>2, <3>3
  <2>2. CASE \E o \in Captured : AcceptObservation(w, o)
    <3>1. PICK o \in Captured : AcceptObservation(w, o)
      BY <2>2
    <3> DEFINE j == [pc |-> "filter", session |-> Session, obs |-> o]
    <3>2. j \in Job /\ j.pc = "filter" /\ j.session = Session /\ j.obs \in Captured
      BY <1>1 DEF Job, JobSteps, Captured
    <3>3. job' = [job EXCEPT ![w] = j]
      BY <3>1 DEF AcceptObservation
    <3> HIDE DEF j
    <3>4. ~AcceptGetActions(w)
      <4> SUFFICES ASSUME AcceptGetActions(w) PROVE FALSE
        OBVIOUS
      <4>1. job'[w].pc = "filter" /\ job'[w].pc = "get"
        BY <3>2, <3>3 DEF AcceptGetActions, ServerInv, NoJob
      <4> QED
        BY <4>1
    <3> QED
      BY <3>2, <3>3, <3>4
  <2> QED
    BY <2>1, <2>2
<1>3. /\ obsQueue' = obsQueue /\ Session' = Session /\ predicted' = predicted
      /\ hasLast' = hasLast /\ policy' = policy /\ job[w].pc = "free"
  BY DEF AcceptGetActions, AcceptObservation, Session, At
<1>4. Sound(j, Session)
  BY <1>1, <1>2 DEF Sound, Sending, Holding
<1>5. job' \in [Workers -> Job] /\ \A v \in Workers : Sound(job'[v], Session')
  BY <1>2, <1>3, <1>4, SetJob
<1>6. ServerInv'
  BY <1>3, <1>5 DEF ServerInv
<1>7. job'[w] = j /\ \A v \in Workers \ {w} : job'[v] = job[v]
  BY <1>2 DEF ServerInv
<1> QED
  BY <1>2, <1>3, <1>6, <1>7

\* A handler returns.
LEMMA ReleaseMoves ==
  ASSUME ServerInv, NEW w \in Workers, Release(w)
  PROVE  /\ ServerInv' /\ job'[w].pc = "free"
         /\ \A v \in Workers \ {w} : job'[v] = job[v]
         /\ predicted' = predicted /\ Session' = Session
<1>1. /\ obsQueue' = obsQueue /\ Session' = Session /\ predicted' = predicted
      /\ hasLast' = hasLast /\ policy' = policy /\ job' = [job EXCEPT ![w] = NoJob]
  BY DEF Release, Session
<1>2. Sound(NoJob, Session) /\ NoJob.pc = "free"
  BY QueueObjects DEF NoJob, Job, JobSteps, Observations, Sound, Sending, Holding, SendReplies,
     GetReplies
<1>3. job' \in [Workers -> Job] /\ \A v \in Workers : Sound(job'[v], Session')
  BY <1>1, <1>2, SetJob
<1>4. job'[w] = NoJob /\ \A v \in Workers \ {w} : job'[v] = job[v]
  BY <1>1 DEF ServerInv
<1> QED
  BY <1>1, <1>2, <1>3, <1>4 DEF ServerInv

\* The handshake's two calls.
LEMMA HandshakeMoves ==
  ASSUME ServerInv, ResetServer \/ SendPolicyInstructions \/ UNCHANGED serverVars
  PROVE  /\ ServerInv' /\ job' = job
         /\ ResetServer => Session' = Session + 1
         /\ ~ResetServer => predicted' = predicted /\ Session' = Session
<1>1. CASE ResetServer
  <2>1. /\ obsQueue' = Append(obsQueue, <<>>) /\ predicted' = {} /\ job' = job
        /\ hasLast' = hasLast /\ policy' = policy
    BY <1>1 DEF ResetServer
  <2>2. obsQueue \in Seq(Slots) /\ <<>> \in Slots
    BY DEF ServerInv, Slots
  <2>3. obsQueue' \in Seq(Slots) /\ obsQueue' # <<>> /\ Session' = Session + 1
    BY <2>1, <2>2, AppendProperties DEF Session
  <2>4. \A w \in Workers : Sound(job'[w], Session')
    BY <2>1, <2>3, QueueObjects DEF ServerInv, Sound, Job
  <2> QED
    BY <1>1, <2>1, <2>3, <2>4 DEF ServerInv
<1>2. CASE SendPolicyInstructions /\ ~ResetServer
  BY <1>2 DEF SendPolicyInstructions, ServerInv, Session
<1>3. CASE UNCHANGED serverVars /\ ~ResetServer
  BY <1>3 DEF serverVars, ServerInv, Session
<1> QED
  BY <1>1, <1>2, <1>3

-------------------------------------------------------------------------------
(* Client and server together.                                               *)

\* A call that is pending is served by a handler of its own kind, and no
\* client that has not started waits for actions.
CallInv ==
  /\ sendCall \in Workers \cup {NoWorker} /\ getCall \in Workers \cup {NoWorker}
  /\ faults \in 0 .. MaxFaults
  /\ sendCall # NoWorker => job[sendCall].pc \in SendSteps
  /\ getCall # NoWorker => job[getCall].pc \in GetSteps
  /\ ctl \in {"ready", "instruct"} => getCall = NoWorker

JointInv == ClientInv /\ FreshInv /\ ServerInv /\ CallInv

\* The observation of a chunk's reply.
LEMMA ReplyTimestep ==
  ASSUME JointInv, getCall # NoWorker, job[getCall].pc = "chunk"
  PROVE  job[getCall].obs.timestep \in Nat
<1>1. getCall \in Workers /\ Sound(job[getCall], Session)
  BY DEF JointInv, CallInv, ServerInv
<1> QED
  BY <1>1 DEF Sound, Holding, Captured

\* Whatever the system does is a step of the client, or the arrival of a chunk.
LEMMA ClientSide ==
  ASSUME JointInv, [Next]_vars
  PROVE  ClientStep \/ \E t0 \in Nat : AnyChunk(t0)
<1>1. CASE ReadyRpc \/ InstructRpc \/ HandshakeFails
  BY <1>1 DEF ReadyRpc, InstructRpc, HandshakeFails, ClientStep
<1>2. CASE NoObservationTaken \/ SendReply \/ SendFails \/ Stop \/ Restart
  BY <1>2 DEF NoObservationTaken, SendReply, SendFails, Stop, Restart, ClientStep
<1>3. CASE ClientControl \/ ClientReceiver
  BY <1>3 DEF ClientControl, ClientReceiver, ClientStep
<1>4. CASE GetReply
  <2>1. CASE job[getCall].pc = "chunk"
    <3>1. job[getCall].obs.timestep \in Nat
      BY <1>4, <2>1, ReplyTimestep DEF GetReply
    <3> QED
      BY <1>4, <2>1, <3>1 DEF GetReply, AnyChunk
  <2>2. CASE job[getCall].pc # "chunk"
    BY <1>4, <2>2 DEF GetReply, ClientStep
  <2> QED
    BY <2>1, <2>2
<1>5. CASE GetFails \/ GetCancelled
  BY <1>5 DEF GetFails, GetCancelled, ClientStep
<1>6. CASE SendRetried \/ GetRetried \/ Finished \/ UNCHANGED vars
  BY <1>6 DEF SendRetried, GetRetried, Finished, vars, ClientStep
<1>7. CASE \E w \in Workers : SendDispatch(w) \/ GetDispatch(w) \/ Handler(w)
                              \/ OrphanReleased(w) \/ InferenceFails(w)
  BY <1>7 DEF SendDispatch, GetDispatch, Handler, OrphanReleased, InferenceFails, ClientStep
<1> QED
  BY <1>1, <1>2, <1>3, <1>4, <1>5, <1>6, <1>7 DEF Next

\* What SendDispatch hands over is an observation captured at a timestep.
LEMMA SentObservation ==
  ASSUME JointInv, NEW w \in Workers, SendDispatch(w)
  PROVE  \E o \in Captured : AcceptObservation(w, o)
<1> DEFINE o == [timestep |-> obs.timestep, mustGo |-> obs.mustGo, session |-> Session]
<1>1. obs.timestep \in Nat /\ obs.mustGo \in BOOLEAN /\ Session \in Nat
  BY QueueObjects DEF JointInv, FreshInv, ClientInv, ClientTypeOK, SendDispatch
<1>2. o \in Captured
  BY <1>1 DEF Captured, Observations
<1> QED
  BY <1>2 DEF SendDispatch

\* The steps a worker takes.
WorkerStep(w) ==
  SendDispatch(w) \/ GetDispatch(w) \/ Handler(w) \/ OrphanReleased(w) \/ InferenceFails(w)

\* The steps in which no handler moves.
IdleStep ==
  \/ ReadyRpc \/ InstructRpc \/ HandshakeFails \/ NoObservationTaken
  \/ ClientControl \/ ClientReceiver \/ SendFails \/ SendRetried
  \/ GetFails \/ GetRetried \/ GetCancelled
  \/ Stop \/ Restart \/ Finished \/ UNCHANGED vars

LEMMA IdleJobs ==
  ASSUME JointInv, IdleStep
  PROVE  /\ ServerInv' /\ job' = job
         /\ predicted' = predicted \/ ctl = "ready"
<1>1. ResetServer \/ SendPolicyInstructions \/ UNCHANGED serverVars
  BY DEF IdleStep, ReadyRpc, InstructRpc, HandshakeFails, NoObservationTaken,
     ClientControl, ClientReceiver, SendFails, SendRetried, GetFails, GetRetried,
     GetCancelled, Stop, Restart, Finished, vars
<1>2. ctl = "ready" \/ SendPolicyInstructions \/ UNCHANGED serverVars
  BY DEF IdleStep, ReadyRpc, InstructRpc, HandshakeFails, NoObservationTaken,
     ClientControl, ClientReceiver, SendFails, SendRetried, GetFails, GetRetried,
     GetCancelled, Stop, Restart, Finished, vars, Ready
<1>3. SendPolicyInstructions \/ UNCHANGED serverVars => predicted' = predicted
  BY DEF SendPolicyInstructions, serverVars
<1> QED
  BY <1>1, <1>2, <1>3, HandshakeMoves DEF JointInv

\* Every step keeps the server's state sound.
LEMMA NextServerInv ==
  ASSUME JointInv, [Next]_vars
  PROVE  ServerInv'
<1>1. CASE IdleStep
  BY <1>1, IdleJobs
<1>2. CASE SendReply
  <2>1. sendCall \in Workers /\ Release(sendCall)
    BY <1>2 DEF SendReply, JointInv, CallInv
  <2> QED
    BY <2>1, ReleaseMoves DEF JointInv
<1>3. CASE GetReply
  <2>1. getCall \in Workers /\ Release(getCall)
    BY <1>3 DEF GetReply, JointInv, CallInv
  <2> QED
    BY <2>1, ReleaseMoves DEF JointInv
<1>4. ASSUME NEW w \in Workers, WorkerStep(w) PROVE ServerInv'
  <2>1. CASE SendDispatch(w) \/ GetDispatch(w)
    BY <2>1, SentObservation, AcceptMoves DEF GetDispatch, JointInv
  <2>2. CASE Handler(w) \/ InferenceFails(w)
    BY <2>2, HandlerMoves DEF JointInv
  <2>3. CASE OrphanReleased(w)
    BY <2>3, ReleaseMoves DEF OrphanReleased, JointInv
  <2> QED
    BY <1>4, <2>1, <2>2, <2>3 DEF WorkerStep
<1> QED
  BY <1>1, <1>2, <1>3, <1>4 DEF Next, IdleStep, WorkerStep

\* A client is in its handshake only if it was before, or has just started;
\* no step but Restart begins one, and none but GetDispatch calls for actions.
LEMMA HandshakeBegins ==
  ASSUME JointInv, [Next]_vars, ctl' \in {"ready", "instruct"}
  PROVE  getCall' = NoWorker
<1>1. ctl \in {"ready", "instruct"} => getCall = NoWorker /\ rcv = "off"
  BY DEF JointInv, CallInv, ClientInv, StartInv
<1>2. CASE ReadyRpc \/ InstructRpc \/ HandshakeFails
  BY <1>1, <1>2 DEF ReadyRpc, InstructRpc, HandshakeFails, Ready, Instruct
<1>3. CASE NoObservationTaken \/ SendReply \/ SendFails \/ Stop \/ Restart
  BY <1>3 DEF NoObservationTaken, SendReply, SendFails, Stop, Restart, CaptureFails, SendDone, Interrupt
<1>4. CASE ClientControl
  BY <1>4 DEF ClientControl, ControlStep, Barrier, Avail, Pop, PopEmpty, Perform, Check, Flag, ClearMustGo
<1>5. CASE ClientReceiver
  BY <1>1, <1>5 DEF ClientReceiver, ReceiverStep, Call, IterateBegin, IterateEnd, Filter, Swap, SetMustGo,
     controlVars
<1>6. CASE GetReply \/ GetFails \/ GetCancelled \/ GetRetried
  BY <1>1, <1>6 DEF GetReply, GetFails, GetCancelled, GetRetried, Receive, ReceiveNothing, controlVars,
     clientVars
<1>7. CASE SendRetried \/ Finished \/ UNCHANGED vars
  BY <1>1, <1>7 DEF SendRetried, Finished, vars, clientVars, controlVars
<1>8. ASSUME NEW w \in Workers, WorkerStep(w) PROVE getCall' = NoWorker
  BY <1>1, <1>8 DEF WorkerStep, SendDispatch, GetDispatch, Handler, OrphanReleased, InferenceFails,
     clientVars, controlVars
<1> QED
  BY <1>2, <1>3, <1>4, <1>5, <1>6, <1>7, <1>8 DEF Next, WorkerStep

\* The steps in which no handler moves drop a call or leave it.
LEMMA IdleCalls ==
  ASSUME JointInv, IdleStep
  PROVE  /\ sendCall' \in {sendCall, NoWorker} /\ getCall' \in {getCall, NoWorker}
         /\ faults' \in 0 .. MaxFaults
<1>1. faults \in 0 .. MaxFaults /\ MaxFaults \in Nat
  BY SystemAssumption DEF JointInv, CallInv
<1>2. sendCall' \in {sendCall, NoWorker} /\ getCall' \in {getCall, NoWorker}
  BY DEF IdleStep, ReadyRpc, InstructRpc, HandshakeFails, NoObservationTaken,
     ClientControl, ClientReceiver, SendFails, SendRetried, GetFails, GetRetried,
     GetCancelled, Stop, Restart, Finished, vars
<1>3. faults' = faults \/ Fault
  BY DEF IdleStep, ReadyRpc, InstructRpc, HandshakeFails, NoObservationTaken,
     ClientControl, ClientReceiver, SendFails, SendRetried, GetFails, GetRetried,
     GetCancelled, Stop, Restart, Finished, vars
<1> QED
  BY <1>1, <1>2, <1>3 DEF Fault

LEMMA NextCallInv ==
  ASSUME JointInv, [Next]_vars
  PROVE  CallInv'
<1> USE DEF JointInv, CallInv
<1>0. /\ NoWorker \notin Workers /\ MaxFaults \in Nat
      /\ sendCall # NoWorker => sendCall \in Workers
      /\ getCall # NoWorker => getCall \in Workers
  BY SystemAssumption
<1>1. ctl' \in {"ready", "instruct"} => getCall' = NoWorker
  BY HandshakeBegins
<1>2. sendCall # NoWorker /\ getCall # NoWorker => sendCall # getCall
  BY DEF SendSteps, GetSteps, Sending, SendReplies, GetReplies
<1>3. CASE IdleStep
  BY <1>1, <1>3, IdleJobs, IdleCalls
<1>4. CASE SendReply
  <2>1. sendCall \in Workers /\ Release(sendCall)
    BY <1>0, <1>4 DEF SendReply
  <2>2. \A v \in Workers \ {sendCall} : job'[v] = job[v]
    BY <2>1, ReleaseMoves
  <2> QED
    BY <1>0, <1>1, <1>2, <1>4, <2>2 DEF SendReply
<1>5. CASE GetReply
  <2>1. getCall \in Workers /\ Release(getCall)
    BY <1>0, <1>5 DEF GetReply
  <2>2. \A v \in Workers \ {getCall} : job'[v] = job[v]
    BY <2>1, ReleaseMoves
  <2> QED
    BY <1>0, <1>1, <1>2, <1>5, <2>2 DEF GetReply
<1>6. ASSUME NEW w \in Workers, WorkerStep(w) PROVE CallInv'
  <2>1. CASE SendDispatch(w)
    <3>1. /\ job[w].pc = "free" /\ job'[w].pc = "filter"
          /\ \A v \in Workers \ {w} : job'[v] = job[v]
      BY <2>1, SentObservation, AcceptMoves
    <3>2. sendCall' = w /\ getCall' = getCall /\ faults' = faults
      BY <2>1 DEF SendDispatch
    <3>3. getCall # w
      BY <1>0, <3>1 DEF GetSteps, GetReplies
    <3> QED
      BY <1>0, <1>1, <3>1, <3>2, <3>3 DEF SendSteps, Sending
  <2>2. CASE GetDispatch(w)
    <3>1. /\ job[w].pc = "free" /\ job'[w].pc = "get"
          /\ \A v \in Workers \ {w} : job'[v] = job[v]
      BY <2>2, AcceptMoves DEF GetDispatch
    <3>2. getCall' = w /\ sendCall' = sendCall /\ faults' = faults
      BY <2>2 DEF GetDispatch
    <3>3. sendCall # w
      BY <1>0, <3>1 DEF SendSteps, Sending, SendReplies
    <3> QED
      BY <1>0, <1>1, <3>1, <3>2, <3>3 DEF GetSteps
  <2>3. CASE Handler(w) \/ InferenceFails(w)
    <3>1. Moves(w)
      BY <2>3, HandlerMoves
    <3>2. sendCall' = sendCall /\ getCall' = getCall
      BY <2>3 DEF Handler, InferenceFails
    <3>3. faults' \in 0 .. MaxFaults
      BY <1>0, <2>3 DEF Handler, InferenceFails, Fault
    <3> QED
      BY <1>0, <1>1, <3>1, <3>2, <3>3 DEF Moves
  <2>4. CASE OrphanReleased(w)
    <3>1. \A v \in Workers \ {w} : job'[v] = job[v]
      BY <2>4, ReleaseMoves DEF OrphanReleased
    <3>2. sendCall' = sendCall /\ getCall' = getCall /\ faults' = faults /\ w \notin {sendCall, getCall}
      BY <2>4 DEF OrphanReleased
    <3> QED
      BY <1>0, <1>1, <3>1, <3>2
  <2> QED
    BY <1>6, <2>1, <2>2, <2>3, <2>4 DEF WorkerStep
<1> QED
  BY <1>3, <1>4, <1>5, <1>6 DEF Next, IdleStep, WorkerStep

LEMMA InitJointInv == Init => JointInv
<1> SUFFICES ASSUME Init PROVE JointInv
  OBVIOUS
<1>1. ClientInv /\ ServerInv
  BY InitClientInv, InitServerInv DEF Init
<1>2. FreshInv
  BY DEF Init, ClientInit, FreshInv
<1>3. CallInv
  BY SystemAssumption DEF Init, CallInv
<1> QED
  BY <1>1, <1>2, <1>3 DEF JointInv

LEMMA NextJointInv == JointInv /\ [Next]_vars => JointInv'
<1> SUFFICES ASSUME JointInv, [Next]_vars PROVE JointInv'
  OBVIOUS
<1>1. ClientInv' /\ FreshInv'
  BY ClientSide, ClientStepInv, NextFreshInv DEF JointInv
<1> QED
  BY <1>1, NextServerInv, NextCallInv DEF JointInv

\* The joint system's variables keep their types, whatever fails, is
\* retried or restarts.
THEOREM SystemTypeCorrect == Spec => []TypeOK
<1>1. JointInv => TypeOK
  BY ServerTypes DEF JointInv, ClientInv, CallInv, TypeOK
<1> QED
  BY <1>1, InitJointInv, NextJointInv, PTL DEF Spec

\* The client's queue stays one ascending chunk when the server is the one
\* it really talks to.
THEOREM SystemQueueCorrect == Spec => []QueueIsOneChunk
<1>1. JointInv => QueueIsOneChunk
  BY DEF JointInv, ClientInv
<1> QED
  BY <1>1, InitJointInv, NextJointInv, PTL DEF Spec

-------------------------------------------------------------------------------
(* Where the actions come from.                                              *)

\* The actions of s belong to chunks of the timesteps in p.
From(s, p) == \A i \in 1 .. Len(s) : \E t \in p : s[i] \in t .. t + ActionsPerChunk - 1

Origin(p) == From(queue, p) /\ From(incoming, p) /\ From(future, p)

\* What the client holds, and what it is about to be sent, is recorded.
PredInv ==
  /\ Origin(predicted)
  /\ getCall # NoWorker => Recorded(job[getCall], predicted)

LEMMA ChunkOrigin ==
  ASSUME NEW p, NEW t0 \in Nat, t0 \in p
  PROVE  From(TimeActionChunk(t0), p)
<1> DEFINE chunk == TimeActionChunk(t0)
<1>1. ActionsPerChunk \in Nat /\ chunk = [i \in 1..ActionsPerChunk |-> t0 + i - 1]
  BY AsyncAssumption DEF TimeActionChunk
<1> HIDE DEF chunk
<1>2. Len(chunk) = ActionsPerChunk
  BY <1>1
<1>3. \A i \in 1 .. Len(chunk) : chunk[i] \in t0 .. t0 + ActionsPerChunk - 1
  BY <1>1, <1>2
<1> QED
  BY <1>3 DEF From, chunk

LEMMA TailOrigin ==
  ASSUME NEW p, NEW s \in Seq(Nat), s # <<>>, From(s, p)
  PROVE  From(Tail(s), p) /\ \E t \in p : Head(s) \in t .. t + ActionsPerChunk - 1
<1>1. Len(s) \in Nat /\ Len(s) >= 1 /\ Head(s) = s[1]
  OBVIOUS
<1>2. Tail(s) \in Seq(Nat) /\ Len(Tail(s)) = Len(s) - 1
  OBVIOUS
<1>3. \A i \in 1 .. Len(Tail(s)) : Tail(s)[i] = s[i + 1] /\ i + 1 \in 1 .. Len(s)
  BY <1>1, <1>2
<1>4. From(Tail(s), p)
  BY <1>3 DEF From
<1>5. 1 \in 1 .. Len(s)
  BY <1>1
<1> QED
  BY <1>1, <1>4, <1>5 DEF From

LEMMA AppendOrigin ==
  ASSUME NEW p, NEW s \in Seq(Nat), NEW e \in Nat, From(s, p),
         \E t \in p : e \in t .. t + ActionsPerChunk - 1
  PROVE  From(Append(s, e), p)
<1> DEFINE a == Append(s, e)
<1>1. Len(a) = Len(s) + 1 /\ Len(s) \in Nat
  OBVIOUS
<1>2. (\A i \in 1 .. Len(s) : a[i] = s[i]) /\ a[Len(s) + 1] = e
  OBVIOUS
<1> HIDE DEF a
<1>3. ASSUME NEW i \in 1 .. Len(a)
      PROVE  \E t \in p : a[i] \in t .. t + ActionsPerChunk - 1
  <2>1. CASE i = Len(s) + 1
    BY <1>2, <2>1
  <2>2. CASE i # Len(s) + 1
    <3>1. i \in 1 .. Len(s)
      BY <1>1, <2>2
    <3> QED
      BY <1>2, <3>1 DEF From
  <2> QED
    BY <2>1, <2>2
<1> QED
  BY <1>3 DEF From, a

\* The client's steps move actions between its queues, drop them, or take
\* in a chunk.
LEMMA ClientKeepsOrigin ==
  ASSUME ClientInv, NEW p, Origin(p),
         ClientStep \/ \E t0 \in Nat : t0 \in p /\ AnyChunk(t0)
  PROVE  Origin(p)'
<1> USE DEF Origin
<1>0. /\ queue \in Seq(Nat) /\ incoming \in Seq(Nat) /\ future \in Seq(Nat)
      /\ From(<<>>, p)
  BY DEF ClientInv, ClientTypeOK, From
<1>1. CASE \E t0 \in Nat : t0 \in p /\ AnyChunk(t0)
  BY <1>1, ChunkOrigin DEF AnyChunk, Receive
<1>2. CASE Pop
  BY <1>0, <1>2, TailOrigin DEF Pop, receiverVars
<1>3. CASE ControlStep /\ ~Pop
  BY <1>3 DEF ControlStep, Barrier, Avail, PopEmpty, Perform, Check, Flag, ClearMustGo, receiverVars
<1>4. CASE Filter
  <2>1. /\ incoming' = Tail(incoming) /\ queue' = queue /\ incoming # <<>>
        /\ future' \in {future, Append(future, Head(incoming))}
    BY <1>4 DEF Filter
  <2>2. Head(incoming) \in Nat
    BY <1>0, <2>1
  <2>3. /\ From(Tail(incoming), p)
        /\ \E t \in p : Head(incoming) \in t .. t + ActionsPerChunk - 1
    BY <1>0, <2>1, TailOrigin
  <2>4. From(Append(future, Head(incoming)), p)
    BY <1>0, <2>2, <2>3, AppendOrigin
  <2> QED
    BY <2>1, <2>3, <2>4
<1>5. CASE ReceiverStep /\ ~Filter
  BY <1>0, <1>5 DEF ReceiverStep, Call, IterateBegin, IterateEnd, Swap, SetMustGo
<1>6. CASE \E ok \in BOOLEAN : Ready(ok) \/ Instruct(ok)
  BY <1>6 DEF Ready, Instruct, receiverVars
<1>7. CASE CaptureFails \/ SendDone \/ ReceiveNothing \/ Interrupt
  BY <1>7 DEF CaptureFails, SendDone, ReceiveNothing, Interrupt, receiverVars
<1>8. CASE ClientRestart
  BY <1>0, <1>8 DEF ClientRestart
<1>9. CASE UNCHANGED clientVars
  BY <1>9 DEF clientVars, receiverVars
<1> QED
  BY <1>1, <1>2, <1>3, <1>4, <1>5, <1>6, <1>7, <1>8, <1>9 DEF ClientStep

\* A chunk that arrives was predicted from a recorded observation.
LEMMA RecordedChunks ==
  ASSUME JointInv, PredInv, [Next]_vars
  PROVE  ClientStep \/ \E t0 \in Nat : t0 \in predicted /\ AnyChunk(t0)
<1>1. CASE GetReply /\ job[getCall].pc = "chunk"
  <2>1. job[getCall].obs.timestep \in Nat
    BY <1>1, ReplyTimestep DEF GetReply
  <2>2. job[getCall].obs.timestep \in predicted
    BY <1>1 DEF GetReply, PredInv, Recorded
  <2> QED
    BY <1>1, <2>1, <2>2 DEF GetReply, AnyChunk
<1>2. CASE GetReply /\ job[getCall].pc # "chunk"
  BY <1>2 DEF GetReply, ClientStep
<1>3. CASE ~GetReply
  <2>1. CASE ReadyRpc \/ InstructRpc \/ HandshakeFails
    BY <2>1 DEF ReadyRpc, InstructRpc, HandshakeFails, ClientStep
  <2>2. CASE NoObservationTaken \/ SendReply \/ SendFails \/ Stop \/ Restart
    BY <2>2 DEF NoObservationTaken, SendReply, SendFails, Stop, Restart, ClientStep
  <2>3. CASE ClientControl \/ ClientReceiver
    BY <2>3 DEF ClientControl, ClientReceiver, ClientStep
  <2>4. CASE GetFails \/ GetCancelled
    BY <2>4 DEF GetFails, GetCancelled, ClientStep
  <2>5. CASE SendRetried \/ GetRetried \/ Finished \/ UNCHANGED vars
    BY <2>5 DEF SendRetried, GetRetried, Finished, vars, ClientStep
  <2>6. CASE \E w \in Workers : WorkerStep(w)
    BY <2>6 DEF WorkerStep, SendDispatch, GetDispatch, Handler, OrphanReleased, InferenceFails,
       ClientStep
  <2> QED
    BY <1>3, <2>1, <2>2, <2>3, <2>4, <2>5, <2>6 DEF Next, WorkerStep
<1> QED
  BY <1>1, <1>2, <1>3

\* Recording only adds to the timesteps; _reset_server, which forgets them,
\* comes before the client holds anything.
LEMMA NextPredInv ==
  ASSUME JointInv, PredInv, [Next]_vars
  PROVE  PredInv'
<1>0. /\ getCall # NoWorker => getCall \in Workers
      /\ sendCall # NoWorker => sendCall \in Workers
  BY DEF JointInv, CallInv
<1>1. CASE ctl = "ready"
  <2>1. /\ queue = <<>> /\ incoming = <<>> /\ future = <<>> /\ getCall = NoWorker /\ rcv = "off"
    BY <1>1 DEF JointInv, ClientInv, StartInv, FreshInv, CallInv
  <2> DEFINE nobody == {}
  <2>2. Origin(nobody)
    BY <2>1 DEF Origin, From
  <2>3. ClientStep
    <3>1. ~GetReply
      BY <2>1 DEF GetReply
    <3> QED
      BY <3>1, RecordedChunks, <2>1 DEF AnyChunk, Receive
  <2>4. Origin(nobody)'
    BY <2>2, <2>3, ClientKeepsOrigin DEF JointInv
  <2>5. Origin(predicted)'
    BY <2>4 DEF Origin, From
  <2>6. getCall' = NoWorker
    <3>1. CASE ctl' \in {"ready", "instruct"}
      BY <3>1, HandshakeBegins
    <3>2. CASE ctl' \notin {"ready", "instruct"}
      <4>1. CASE ReadyRpc \/ InstructRpc \/ HandshakeFails
        BY <1>1, <2>1, <4>1 DEF ReadyRpc, InstructRpc, HandshakeFails
      <4>2. CASE ~(ReadyRpc \/ InstructRpc \/ HandshakeFails)
        <5>1. CASE Stop \/ Restart
          BY <5>1 DEF Stop, Restart
        <5>2. CASE ~(Stop \/ Restart)
          <6>1. \A w \in Workers : ~GetDispatch(w)
            BY <2>1 DEF GetDispatch
          <6> QED
            BY <2>1, <4>2, <5>2, <6>1 DEF Next, NoObservationTaken, ClientControl, ClientReceiver,
               SendReply, SendFails, SendRetried, GetReply, GetFails, GetRetried, GetCancelled, Finished,
               SendDispatch, Handler, OrphanReleased, InferenceFails, vars
        <5> QED
          BY <5>1, <5>2
      <4> QED
        BY <4>1, <4>2
    <3> QED
      BY <3>1, <3>2
  <2> QED
    BY <2>5, <2>6 DEF PredInv
<1>2. CASE ctl # "ready"
  <2> DEFINE Grows == predicted \subseteq predicted'
  <2>1. /\ Grows
        /\ getCall' # NoWorker => Recorded(job'[getCall'], predicted')
    <3>1. CASE IdleStep
      <4>1. job' = job /\ predicted' = predicted /\ getCall' \in {getCall, NoWorker}
        BY <1>2, <3>1, IdleJobs, IdleCalls
      <4> QED
        BY <4>1 DEF PredInv
    <3>2. CASE SendReply
      <4>1. sendCall \in Workers /\ Release(sendCall) /\ getCall' = getCall /\ sendCall # NoWorker
        BY <1>0, <3>2 DEF SendReply
      <4>2. (\A v \in Workers \ {sendCall} : job'[v] = job[v]) /\ predicted' = predicted
        BY <4>1, ReleaseMoves DEF JointInv
      <4>3. getCall # sendCall \/ getCall = NoWorker
        BY <4>1 DEF JointInv, CallInv, SendSteps, GetSteps, Sending, SendReplies, GetReplies
      <4> QED
        BY <1>0, <4>1, <4>2, <4>3 DEF PredInv
    <3>3. CASE GetReply
      <4>1. getCall \in Workers /\ Release(getCall) /\ getCall' = NoWorker
        BY <1>0, <3>3 DEF GetReply
      <4> QED
        BY <4>1, ReleaseMoves DEF JointInv
    <3>4. ASSUME NEW w \in Workers, WorkerStep(w)
          PROVE  Grows /\ (getCall' # NoWorker => Recorded(job'[getCall'], predicted'))
      <4>1. CASE SendDispatch(w)
        <5>1. /\ job[w].pc = "free" /\ predicted' = predicted
              /\ \A v \in Workers \ {w} : job'[v] = job[v]
          BY <4>1, SentObservation, AcceptMoves DEF JointInv
        <5>2. getCall' = getCall /\ (getCall # NoWorker => getCall # w)
          BY <4>1, <5>1 DEF SendDispatch, JointInv, CallInv, GetSteps, GetReplies
        <5> QED
          BY <1>0, <5>1, <5>2 DEF PredInv
      <4>2. CASE GetDispatch(w)
        <5>1. predicted' = predicted /\ job'[w].pc = "get" /\ getCall' = w
          BY <4>2, AcceptMoves DEF GetDispatch, JointInv
        <5> QED
          BY <5>1 DEF Recorded
      <4>3. CASE Handler(w) \/ InferenceFails(w)
        <5>1. Moves(w) /\ getCall' = getCall
          BY <4>3, HandlerMoves DEF Handler, InferenceFails, JointInv
        <5>2. CASE getCall = w
          BY <5>1, <5>2 DEF Moves, PredInv
        <5>3. CASE getCall # w
          BY <1>0, <5>1, <5>3 DEF Moves, PredInv, Recorded
        <5> QED
          BY <5>2, <5>3
      <4>4. CASE OrphanReleased(w)
        <5>1. /\ predicted' = predicted /\ getCall' = getCall /\ getCall # w
              /\ \A v \in Workers \ {w} : job'[v] = job[v]
          BY <4>4, ReleaseMoves DEF OrphanReleased, JointInv
        <5> QED
          BY <1>0, <5>1 DEF PredInv
      <4> QED
        BY <3>4, <4>1, <4>2, <4>3, <4>4 DEF WorkerStep
    <3> QED
      BY <3>1, <3>2, <3>3, <3>4 DEF Next, IdleStep, WorkerStep
  <2>2. PICK p : p = predicted
    OBVIOUS
  <2>3. Origin(p)'
    BY <2>2, RecordedChunks, ClientKeepsOrigin DEF JointInv, PredInv
  <2>4. Origin(predicted)'
    BY <2>1, <2>2, <2>3 DEF Origin, From
  <2> QED
    BY <2>1, <2>4 DEF PredInv
<1> QED
  BY <1>1, <1>2

\* Every action the client holds was predicted from an observation recorded
\* in this session, whatever fails, is retried or restarts.
THEOREM ActionsOfThisSession == Spec => []ActionsWerePredicted
<1>1. Init => PredInv
  BY DEF Init, ClientInit, PredInv, Origin, From
<1>2. JointInv /\ PredInv /\ [Next]_vars => PredInv'
  BY NextPredInv
<1>3. PredInv => ActionsWerePredicted
  BY DEF PredInv, Origin, From, ActionsWerePredicted
<1> QED
  BY <1>1, <1>2, <1>3, InitJointInv, NextJointInv, PTL DEF Spec

-------------------------------------------------------------------------------
(* RobotClient on its own expects of a server no more than chunks: once it   *)
(* may be sent those of any timestep, the joint system implements it.        *)
THEOREM SystemImplementsClient == Nat \subseteq Timesteps => (Spec => ClientSpec)
<1> SUFFICES ASSUME Nat \subseteq Timesteps PROVE Spec => ClientSpec
  OBVIOUS
<1>1. Init => ClientInit
  BY DEF Init
<1>2. JointInv /\ [Next]_vars => [ClientNext]_clientVars
  <2> SUFFICES ASSUME JointInv, [Next]_vars PROVE [ClientNext]_clientVars
    OBVIOUS
  <2>1. CASE ClientStep
    BY <2>1 DEF ClientStep, ClientNext
  <2>2. CASE \E t0 \in Nat : AnyChunk(t0)
    <3>1. PICK t0 \in Nat : Receive(TimeActionChunk(t0))
      BY <2>2 DEF AnyChunk
    <3>2. TimeActionChunk(t0) \in Chunks
      BY DEF Chunks
    <3> QED
      BY <3>1, <3>2 DEF ClientNext
  <2> QED
    BY <2>1, <2>2, ClientSide
<1> QED
  BY <1>1, <1>2, InitJointInv, NextJointInv, PTL DEF Spec, ClientSpec

================================================================================
