------------------------- MODULE RTCInferenceProofs -------------------------
(***************************************************************************)
(* Proofs about a rollout with real-time chunking.  The queue on its own,  *)
(* for all chunks and delays: its two forms stay aligned, and it           *)
(* implements the plain plan of PendingActions.  Then the control loop and *)
(* the RTC thread around it, for every chunk size, latency and threshold:  *)
(* they use the queue as it is meant to be used, the robot performs the    *)
(* action that is due, and it never starves if the threshold is sized for  *)
(* the latency.                                                            *)
(***************************************************************************)
EXTENDS RTCInference, SequenceTheorems, TLAPS

-------------------------------------------------------------------------------
(* The queue.                                                                *)

(* Slicing: what Drop returns, and of which type.                            *)
LEMMA DropProperties ==
  ASSUME NEW S, NEW s \in Seq(S), NEW n \in Nat
  PROVE  /\ Drop(s, n) \in Seq(S)
         /\ Len(Drop(s, n)) = IF n <= Len(s) THEN Len(s) - n ELSE 0
         /\ n >= Len(s) => Drop(s, n) = <<>>
         /\ \A i \in 1 .. Len(s) - n : Drop(s, n)[i] = s[n + i]
  BY SubSeqProperties DEF Drop

(* Dropping nothing changes nothing.                                         *)
LEMMA DropNone ==
  ASSUME NEW S, NEW s \in Seq(S)
  PROVE  Drop(s, 0) = s
  BY DEF Drop

(* Nothing is left of nothing.                                               *)
LEMMA DropOfEmpty == Drop(<<>>, 0) = <<>>
  BY EmptySeq, SubSeqEmpty DEF Drop

(* Taking the first of what is left is dropping one more.                    *)
LEMMA TailOfDrop ==
  ASSUME NEW S, NEW s \in Seq(S), NEW n \in Nat, n < Len(s)
  PROVE  Drop(s, n) # <<>> /\ Tail(Drop(s, n)) = Drop(s, n + 1)
<1>1. n + 1 \in 1 .. Len(s) /\ Len(s) \in n + 1 .. Len(s) /\ Len(s) \in Nat
  BY LenProperties
<1>2. Tail(SubSeq(s, n + 1, Len(s))) = SubSeq(s, (n + 1) + 1, Len(s))
  BY <1>1, HeadTailOfSubSeq
<1>3. Len(Drop(s, n)) > 0
  BY <1>1, DropProperties
<1>4. Drop(s, n) # <<>>
  BY <1>3
<1> QED
  BY <1>2, <1>4 DEF Drop

(* Dropping consumed actions commutes with appending new ones.               *)
LEMMA DropOfConcat ==
  ASSUME NEW S, NEW s \in Seq(S), NEW t \in Seq(S), NEW n \in 0 .. Len(s)
  PROVE  Drop(s \o t, n) = Drop(s, n) \o t
<1> DEFINE st == s \o t  rest == Drop(s, n)  left == Drop(st, n)  right == rest \o t
<1>0. Len(s) \in Nat /\ Len(t) \in Nat
  BY LenProperties
<1>1. /\ st \in Seq(S) /\ Len(st) = Len(s) + Len(t)
      /\ \A i \in 1 .. Len(s) + Len(t) :
           st[i] = IF i <= Len(s) THEN s[i] ELSE t[i - Len(s)]
  BY ConcatProperties
<1>3. /\ rest \in Seq(S) /\ Len(rest) = Len(s) - n
      /\ \A i \in 1 .. Len(s) - n : rest[i] = s[n + i]
  BY <1>0, DropProperties
<1> HIDE DEF st, rest
<1>2. /\ left \in Seq(S) /\ Len(left) = Len(s) + Len(t) - n
      /\ \A i \in 1 .. Len(s) + Len(t) - n : left[i] = st[n + i]
  <2>1. /\ Drop(st, n) \in Seq(S)
        /\ Len(Drop(st, n)) = IF n <= Len(st) THEN Len(st) - n ELSE 0
        /\ \A i \in 1 .. Len(st) - n : Drop(st, n)[i] = st[n + i]
    <3>1. st \in Seq(S) /\ n \in Nat
      BY <1>0, <1>1
    <3> QED
      BY <3>1, DropProperties
  <2>2. n \in Nat /\ n <= Len(st) /\ Len(st) - n = Len(s) + Len(t) - n
    BY <1>0, <1>1
  <2>3. Len(left) = Len(s) + Len(t) - n
    BY <2>1, <2>2
  <2> QED
    BY <2>1, <2>2, <2>3
<1>4. /\ right \in Seq(S) /\ Len(right) = Len(rest) + Len(t)
      /\ \A i \in 1 .. Len(rest) + Len(t) :
           right[i] = IF i <= Len(rest) THEN rest[i] ELSE t[i - Len(rest)]
  BY <1>3, ConcatProperties
<1> HIDE DEF left, right
<1>5. ASSUME NEW i \in 1 .. Len(left)
      PROVE  left[i] = right[i]
  <2>1. i \in Nat /\ 1 <= i /\ i <= Len(s) + Len(t) - n
    BY <1>0, <1>2
  <2>2. left[i] = st[n + i]
    BY <1>0, <1>2, <2>1
  <2>3. CASE i <= Len(s) - n
    BY <1>0, <1>1, <1>3, <1>4, <2>1, <2>2, <2>3
  <2>4. CASE ~(i <= Len(s) - n)
    <3>1. st[n + i] = t[n + i - Len(s)]
      BY <1>0, <1>1, <2>1, <2>4
    <3>2. right[i] = t[i - (Len(s) - n)]
      BY <1>0, <1>3, <1>4, <2>1, <2>4
    <3>3. n + i - Len(s) = i - (Len(s) - n)
      BY <1>0, <2>1
    <3> QED
      BY <2>2, <3>1, <3>2, <3>3
  <2> QED
    BY <2>3, <2>4
<1>6. left = right
  <2>1. Len(left) = Len(right)
    BY <1>0, <1>2, <1>3, <1>4
  <2> QED
    BY <1>2, <1>4, <1>5, <2>1, SeqEqual
<1> QED
  BY <1>6 DEF left, right, st, rest

-------------------------------------------------------------------------------
(* Type correctness and alignment are inductive together: merge cuts both    *)
(* forms alike because a chunk has both in one length.                       *)
IInv == QueueTypeOK /\ LeftOverMatchesPlan

LEMMA InitIInv == QueueInit => IInv
  BY DEF QueueInit, IInv, QueueTypeOK, LeftOverMatchesPlan

(* One method of the queue keeps the invariant.                              *)
LEMMA NextIInv == IInv /\ [QueueNext]_queueVars => IInv'
<1> SUFFICES ASSUME IInv, [QueueNext]_queueVars PROVE IInv'
  OBVIOUS
<1> USE DEF IInv, QueueTypeOK, LeftOverMatchesPlan
<1>1. CASE UNCHANGED queueVars
  BY <1>1 DEF queueVars
<1>2. CASE Get
  BY <1>2 DEF Get
<1>3. CASE Clear
  BY <1>3 DEF Clear
<1>4. ASSUME NEW chunk \in Chunks, NEW delay \in Delays, merge(chunk, delay) PROVE IInv'
  <2>1. /\ chunk.original \in Seq(Step) /\ chunk.processed \in Seq(Action)
        /\ Len(chunk.original) = Len(chunk.processed) /\ delay \in Nat
    BY QueueAssumption
  <2>2. CASE enabled /\ _replace_actions_queue(chunk, delay)
    <3> DEFINE d == IF delay < Len(chunk.original) THEN delay ELSE Len(chunk.original)
    <3>1. d \in Nat /\ d <= Len(chunk.original)
      BY <2>1
    <3>2. /\ original_queue' = Drop(chunk.original, d)
          /\ queue' = Drop(chunk.processed, d) /\ last_index' = 0
      BY <2>2 DEF _replace_actions_queue
    <3> HIDE DEF d
    <3>3. /\ original_queue' \in Seq(Step) /\ queue' \in Seq(Action)
          /\ Len(original_queue') = Len(queue')
      <4>1. /\ Drop(chunk.original, d) \in Seq(Step)
            /\ Len(Drop(chunk.original, d)) = Len(chunk.original) - d
        BY <2>1, <3>1, DropProperties
      <4>2. /\ Drop(chunk.processed, d) \in Seq(Action)
            /\ Len(Drop(chunk.processed, d)) = Len(chunk.processed) - d
        BY <2>1, <3>1, DropProperties
      <4> QED
        BY <2>1, <3>2, <4>1, <4>2
    <3> QED
      BY <3>2, <3>3, <1>4 DEF merge
  <2>3. CASE ~enabled /\ _append_actions_queue(chunk)
    <3> DEFINE raw == original_queue \o chunk.original  done == queue \o chunk.processed
    <3>1. /\ raw \in Seq(Step) /\ Len(raw) = Len(original_queue) + Len(chunk.original)
          /\ done \in Seq(Action) /\ Len(done) = Len(queue) + Len(chunk.processed)
      BY <2>1, ConcatProperties
    <3>2. original_queue' = Drop(raw, last_index) /\ queue' = Drop(done, last_index)
          /\ last_index' = 0
      BY <2>3 DEF _append_actions_queue
    <3> HIDE DEF raw, done
    <3>3. /\ original_queue' \in Seq(Step) /\ queue' \in Seq(Action)
          /\ Len(original_queue') = Len(queue')
      <4>1. /\ Drop(raw, last_index) \in Seq(Step)
            /\ Len(Drop(raw, last_index)) = IF last_index <= Len(raw) THEN Len(raw) - last_index ELSE 0
        BY <3>1, DropProperties
      <4>2. /\ Drop(done, last_index) \in Seq(Action)
            /\ Len(Drop(done, last_index)) = IF last_index <= Len(done) THEN Len(done) - last_index ELSE 0
        BY <3>1, DropProperties
      <4> QED
        BY <2>1, <3>1, <3>2, <4>1, <4>2
    <3> QED
      BY <3>2, <3>3, <1>4 DEF merge
  <2> QED
    BY <1>4, <2>2, <2>3 DEF merge
<1> QED
  BY <1>1, <1>2, <1>3, <1>4 DEF QueueNext

(* Whatever the inference thread and the control loop call, in whatever      *)
(* order: the state keeps its types.                                         *)
THEOREM QueueTypeCorrect == QueueSpec => []QueueTypeOK
<1>1. IInv => QueueTypeOK
  BY DEF IInv
<1> QED
  BY <1>1, InitIInv, NextIInv, PTL DEF QueueSpec

(* ... and the prefix get_left_over gives the policy is, action by action,   *)
(* what the robot has left to perform.                                       *)
THEOREM LeftOverCorrect == QueueSpec => []LeftOverMatchesPlan
<1>1. IInv => LeftOverMatchesPlan
  BY DEF IInv
<1> QED
  BY <1>1, InitIInv, NextIInv, PTL DEF QueueSpec

-------------------------------------------------------------------------------
(* Every method of the queue is the plan's operation of the same meaning.    *)
LEMMA StepImplementsPlan ==
  IInv /\ [QueueNext]_queueVars => [Plan!PlanNext]_<<Drop(queue, last_index), enabled>>
<1> SUFFICES ASSUME IInv, [QueueNext]_queueVars
             PROVE  [Plan!PlanNext]_<<Drop(queue, last_index), enabled>>
  OBVIOUS
<1>0. queue \in Seq(Action) /\ last_index \in 0 .. Len(queue)
  BY DEF IInv, QueueTypeOK, LeftOverMatchesPlan
<1>1. CASE UNCHANGED queueVars
  BY <1>1 DEF queueVars
<1>2. CASE Get
  <2>1. last_index < Len(queue) /\ last_index' = last_index + 1 /\ queue' = queue
        /\ enabled' = enabled
    BY <1>2 DEF Get
  <2>2. Drop(queue, last_index) # <<>>
        /\ Tail(Drop(queue, last_index)) = Drop(queue, last_index + 1)
    BY <1>0, <2>1, TailOfDrop
  <2> QED
    BY <2>1, <2>2 DEF Plan!PlanNext, Plan!Take
<1>3. CASE Clear
  <2>1. queue' = <<>> /\ last_index' = 0 /\ enabled' = enabled
    BY <1>3 DEF Clear
  <2> QED
    BY <2>1, DropOfEmpty DEF Plan!PlanNext, Plan!Forget
<1>4. ASSUME NEW chunk \in Chunks, NEW delay \in Delays, merge(chunk, delay)
      PROVE  Plan!PlanNext
  <2>1. /\ chunk.processed \in Seq(Action) /\ delay \in Nat /\ Len(chunk.processed) \in Nat
        /\ Len(chunk.original) = Len(chunk.processed)
    BY QueueAssumption
  <2>2. CASE enabled /\ _replace_actions_queue(chunk, delay)
    <3> DEFINE d == IF delay < Len(chunk.original) THEN delay ELSE Len(chunk.original)
    <3>1. queue' = Drop(chunk.processed, d) /\ last_index' = 0 /\ enabled' = enabled
      BY <2>2, <1>4 DEF _replace_actions_queue, merge
    <3>2. d \in Nat
      BY <2>1
    <3>3. Drop(chunk.processed, d) = Drop(chunk.processed, delay)
      <4>1. CASE delay < Len(chunk.original)
        BY <4>1
      <4>2. CASE ~(delay < Len(chunk.original))
        BY <4>2, <2>1, DropProperties
      <4> QED
        BY <4>1, <4>2
    <3> HIDE DEF d
    <3>4. Drop(queue', last_index') = Drop(chunk.processed, delay)
      BY <2>1, <3>1, <3>2, <3>3, DropProperties, DropNone
    <3> QED
      BY <2>2, <3>1, <3>4 DEF Plan!PlanNext, Plan!Replan, Drop, Plan!Drop
  <2>3. CASE ~enabled /\ _append_actions_queue(chunk)
    <3>1. /\ queue' = Drop(queue \o chunk.processed, last_index) /\ last_index' = 0
          /\ enabled' = enabled
      BY <2>3, <1>4 DEF _append_actions_queue, merge
    <3>2. queue' \in Seq(Action)
      <4> DEFINE done == queue \o chunk.processed
      <4>1. done \in Seq(Action)
        BY <1>0, <2>1, ConcatProperties
      <4>2. queue' = Drop(done, last_index)
        BY <3>1
      <4> HIDE DEF done
      <4> QED
        BY <1>0, <4>1, <4>2, DropProperties
    <3>3. Drop(queue', last_index') = Drop(queue, last_index) \o chunk.processed
      BY <1>0, <2>1, <3>1, <3>2, DropNone, DropOfConcat
    <3> QED
      BY <2>3, <3>1, <3>3 DEF Plan!PlanNext, Plan!Extend
  <2> QED
    BY <1>4, <2>2, <2>3 DEF merge
<1> QED
  BY <1>1, <1>2, <1>3, <1>4 DEF QueueNext

(* ActionQueue is a plain first-in first-out plan to its two users: the      *)
(* consumption index, the clamped delay and the truncation on append never   *)
(* make the robot perform an action twice, skip one or reorder them.         *)
THEOREM QueueImplementsPlan == QueueSpec => ImplementsPlan
<1>1. QueueInit => Plan!PlanInit
  BY DropOfEmpty DEF QueueInit, Plan!PlanInit
<1> QED
  BY <1>1, InitIInv, NextIInv, StepImplementsPlan, PTL
  DEF QueueSpec, ImplementsPlan, Plan!PlanSpec

-------------------------------------------------------------------------------
(* The threads around it: types, and what the RTC thread is working on.      *)
ThreadInv ==
  /\ RTCTypeOK
  /\ rtc \in {"size", "infer", "merge"} => observed # "none" /\ holder # "none"
  /\ control = "start" <=> rtc = "off"
  /\ consecutive_errors < MaxErrors \/ rtc \in {"error", "unblock", "signal", "ended"}

\* RTCTypeOK with a conjunct for each variable.
FlagsOK ==
  /\ paused \in BOOLEAN /\ warmup_flushed \in BOOLEAN /\ use_torch_compile \in BOOLEAN
  /\ global_shutdown \in BOOLEAN /\ active \in BOOLEAN /\ _shutdown_event \in BOOLEAN
  /\ ready \in BOOLEAN /\ failed \in BOOLEAN /\ primed \in BOOLEAN

PlacesOK ==
  /\ control \in {"start", "loop", "resume", "notify", "warmup", "flushed", "get", "sleep",
               "stop", "join", "done"}
  /\ rtc \in {"off", "head", "obs", "size", "infer", "merge", "warm", "backoff", "error",
              "unblock", "signal", "ended"}
  /\ holder \in Observations /\ observed \in Observations

CountsOK ==
  /\ pauses \in 0 .. MaxPauses
  /\ inference_count \in 0 .. warmup_required + 1
  /\ consecutive_errors \in 0 .. MaxErrors
  /\ new_delay \in 0 .. ChunkSize + 2
  /\ inferAge \in 0 .. ChunkSize + 1 /\ age \in 0 .. ChunkSize + 1 /\ lag \in 0 .. 1

LEMMA TypeParts ==
  /\ RTCTypeOK <=> QueueTypeOK /\ FlagsOK /\ PlacesOK /\ CountsOK
  /\ RTCTypeOK' <=> (QueueTypeOK /\ FlagsOK /\ PlacesOK /\ CountsOK)'
<1>1. /\ {paused, warmup_flushed, use_torch_compile, global_shutdown, active, _shutdown_event,
          ready, failed, primed} \subseteq BOOLEAN <=> FlagsOK
      /\ ({paused, warmup_flushed, use_torch_compile, global_shutdown, active, _shutdown_event,
           ready, failed, primed} \subseteq BOOLEAN)' <=> FlagsOK'
  BY Zenon DEF FlagsOK
<1> QED
  BY <1>1 DEF RTCTypeOK, PlacesOK, CountsOK

LEMMA InitThreadInv == RTCInit => ThreadInv
<1> SUFFICES ASSUME RTCInit PROVE ThreadInv
  OBVIOUS
<1>1. QueueTypeOK
  BY DEF RTCInit, QueueInit, QueueTypeOK
<1>2. FlagsOK
  BY RTCAssumption, Zenon DEF RTCInit, FlagsOK
<1>3. PlacesOK /\ CountsOK
  BY RTCAssumption DEF RTCInit, PlacesOK, CountsOK, Observations
<1>4. control = "start" /\ rtc = "off" /\ consecutive_errors < MaxErrors
  BY RTCAssumption DEF RTCInit
<1> QED
  BY <1>1, <1>2, <1>3, <1>4, TypeParts DEF ThreadInv

(* Whatever the two threads do to the queue is one of its methods, called    *)
(* with a chunk and a delay that it was made for.                            *)
LEMMA RolloutUsesQueue ==
  ASSUME ThreadInv, [RTCNext]_rtcVars
  PROVE  [QueueNext]_queueVars
<1>1. CASE Start \/ ResetPolicy \/ FlushWarmup
  BY <1>1 DEF Start, ResetPolicy, FlushWarmup, engineReset, QueueNext
<1>2. CASE Perform
  BY <1>2 DEF Perform, get_action, QueueNext
<1>3. CASE Merge
  <2>1. ChunkFrom(observed) \in Chunks
    BY <1>3, RolloutAssumption DEF Merge, ThreadInv, RTCTypeOK, Observations
  <2>2. new_delay \in Delays
    BY RolloutAssumption DEF ThreadInv, RTCTypeOK
  <2> QED
    BY <1>3, <2>1, <2>2 DEF Merge, QueueNext
<1>4. CASE UNCHANGED queueVars
  BY <1>4
<1>5. CASE \/ EndLoop \/ Iterate \/ IteratePaused \/ PausePolicy \/ ResumePolicy \/ Notify
           \/ AwaitWarmup \/ AlreadyWarm \/ ResumeFlushed \/ Starve \/ Sleep \/ Stop
           \/ Join \/ JoinTimesOut
  BY <1>4, <1>5 DEF EndLoop, Iterate, IteratePaused, PausePolicy, ResumePolicy, Notify,
       AwaitWarmup, AlreadyWarm, ResumeFlushed, Starve, Sleep, Stop, Join, JoinTimesOut
<1>6. CASE Thread /\ ~Merge
  BY <1>4, <1>6 DEF Thread, HeadExit, HeadEnter, ReadObservation, CheckSize, Infer, WarmupDone,
       InferenceError, Retry, RaiseError, UnblockWarmup, SignalShutdown
<1>7. CASE ShutdownRequested \/ RTCFinished \/ UNCHANGED rtcVars
  BY <1>4, <1>7 DEF ShutdownRequested, RTCFinished, rtcVars
<1> QED
  BY <1>1, <1>2, <1>3, <1>5, <1>6, <1>7 DEF RTCNext, ControlLoop

LEMMA NextThreadInv == ThreadInv /\ LeftOverMatchesPlan /\ [RTCNext]_rtcVars => ThreadInv'
<1> SUFFICES ASSUME ThreadInv, LeftOverMatchesPlan, [RTCNext]_rtcVars PROVE ThreadInv'
  OBVIOUS
<1>1. QueueTypeOK /\ FlagsOK /\ PlacesOK /\ CountsOK /\ ChunkSize \in Nat \ {0}
  BY TypeParts, RTCAssumption DEF ThreadInv
<1>2. QueueTypeOK'
  BY <1>1, RolloutUsesQueue, NextIInv DEF IInv
<1> DEFINE Kept == rtc \in {"size", "infer", "merge"} => observed # "none" /\ holder # "none"
           Off == control = "start" <=> rtc = "off"
           Few == consecutive_errors < MaxErrors \/ rtc \in {"error", "unblock", "signal", "ended"}
<1>3. Kept /\ Few /\ Off /\ MaxErrors \in Nat \ {0} /\ warmup_required \in Nat \ {0} /\ MaxPauses \in Nat
  BY RTCAssumption DEF ThreadInv
<1>4. SUFFICES FlagsOK' /\ PlacesOK' /\ CountsOK' /\ Kept' /\ Few' /\ Off'
  BY <1>2, TypeParts DEF ThreadInv
<1>5. CASE Start \/ Notify \/ ResumePolicy \/ ResumeFlushed
  <2>1. FlagsOK'
    BY <1>1, <1>5, Zenon DEF FlagsOK, loopVars, eventVars, timeVars, Start, Notify, ResumePolicy, ResumeFlushed, resume
  <2>2. PlacesOK'
    BY <1>1, <1>5 DEF PlacesOK, Observations, threadVars, Start, Notify, ResumePolicy, ResumeFlushed, resume
  <2>3. CountsOK'
    BY <1>1, <1>3, <1>5 DEF CountsOK, loopVars, threadVars, timeVars, Start, Notify, ResumePolicy, ResumeFlushed, resume
  <2>4. Few' /\ Off'
    BY <1>1, <1>3, <1>5 DEF CountsOK, threadVars, Start, Notify, ResumePolicy, ResumeFlushed, resume
  <2>5. Kept'
    BY <1>1, <1>3, <1>5 DEF PlacesOK, threadVars, Start, Notify, ResumePolicy, ResumeFlushed, resume
  <2> QED
    BY <2>1, <2>2, <2>3, <2>5, <2>4
<1>6. CASE EndLoop \/ Iterate \/ IteratePaused \/ AwaitWarmup \/ AlreadyWarm
  <2>1. FlagsOK'
    BY <1>1, <1>6, Zenon DEF FlagsOK, loopVars, eventVars, timeVars, EndLoop, Iterate, IteratePaused, AwaitWarmup, AlreadyWarm
  <2>2. PlacesOK'
    BY <1>1, <1>6 DEF PlacesOK, Observations, threadVars, EndLoop, Iterate, IteratePaused, AwaitWarmup, AlreadyWarm
  <2>3. CountsOK'
    BY <1>1, <1>3, <1>6 DEF CountsOK, loopVars, threadVars, timeVars, EndLoop, Iterate, IteratePaused, AwaitWarmup, AlreadyWarm
  <2>4. Few' /\ Off'
    BY <1>1, <1>3, <1>6 DEF CountsOK, threadVars, EndLoop, Iterate, IteratePaused, AwaitWarmup, AlreadyWarm
  <2>5. Kept'
    BY <1>1, <1>3, <1>6 DEF PlacesOK, threadVars, EndLoop, Iterate, IteratePaused, AwaitWarmup, AlreadyWarm
  <2> QED
    BY <2>1, <2>2, <2>3, <2>5, <2>4
<1>7. CASE Perform \/ Starve \/ Join \/ JoinTimesOut
  <2>1. FlagsOK'
    BY <1>1, <1>7, Zenon DEF FlagsOK, loopVars, eventVars, timeVars, Perform, Starve, Join, JoinTimesOut
  <2>2. PlacesOK'
    BY <1>1, <1>7 DEF PlacesOK, Observations, threadVars, Perform, Starve, Join, JoinTimesOut
  <2>3. CountsOK'
    BY <1>1, <1>3, <1>7 DEF CountsOK, loopVars, threadVars, timeVars, Perform, Starve, Join, JoinTimesOut
  <2>4. Few' /\ Off'
    BY <1>1, <1>3, <1>7 DEF CountsOK, threadVars, Perform, Starve, Join, JoinTimesOut
  <2>5. Kept'
    BY <1>1, <1>3, <1>7 DEF PlacesOK, threadVars, Perform, Starve, Join, JoinTimesOut
  <2> QED
    BY <2>1, <2>2, <2>3, <2>5, <2>4
<1>8. CASE PausePolicy \/ Stop
  <2>1. FlagsOK'
    BY <1>1, <1>8, Zenon DEF FlagsOK, loopVars, eventVars, timeVars, PausePolicy, Stop, pause
  <2>2. PlacesOK'
    BY <1>1, <1>8 DEF PlacesOK, Observations, threadVars, PausePolicy, Stop, pause
  <2>3. CountsOK'
    BY <1>1, <1>3, <1>8 DEF CountsOK, loopVars, threadVars, timeVars, PausePolicy, Stop, pause
  <2>4. Few' /\ Off'
    BY <1>1, <1>3, <1>8 DEF CountsOK, threadVars, PausePolicy, Stop, pause
  <2>5. Kept'
    BY <1>1, <1>3, <1>8 DEF PlacesOK, threadVars, PausePolicy, Stop, pause
  <2> QED
    BY <2>1, <2>2, <2>3, <2>5, <2>4
<1>9. CASE ResetPolicy \/ FlushWarmup
  <2>1. FlagsOK'
    BY <1>1, <1>9, Zenon DEF FlagsOK, loopVars, eventVars, timeVars, ResetPolicy, FlushWarmup
  <2>2. PlacesOK'
    BY <1>1, <1>9 DEF PlacesOK, Observations, threadVars, ResetPolicy, FlushWarmup, OutdateInference
  <2>3. CountsOK'
    BY <1>1, <1>3, <1>9 DEF CountsOK, loopVars, threadVars, timeVars, ResetPolicy, FlushWarmup
  <2>4. Few' /\ Off'
    BY <1>1, <1>3, <1>9 DEF CountsOK, threadVars, ResetPolicy, FlushWarmup
  <2>5. Kept'
    BY <1>1, <1>3, <1>9 DEF PlacesOK, OutdateInference, threadVars, ResetPolicy, FlushWarmup
  <2> QED
    BY <2>1, <2>2, <2>3, <2>5, <2>4
<1>10. CASE Sleep
  <2>1. FlagsOK'
    BY <1>1, <1>10, Zenon DEF FlagsOK, loopVars, eventVars, timeVars, Sleep, Later
  <2>2. PlacesOK'
    BY <1>1, <1>10 DEF PlacesOK, Observations, threadVars, Sleep, Later
  <2>3. CountsOK'
    BY <1>1, <1>3, <1>10 DEF CountsOK, loopVars, threadVars, timeVars, Sleep, Later
  <2>4. Few' /\ Off'
    BY <1>1, <1>3, <1>10 DEF CountsOK, threadVars, Sleep, Later
  <2>5. Kept'
    BY <1>1, <1>3, <1>10 DEF PlacesOK, threadVars, Sleep, Later
  <2> QED
    BY <2>1, <2>2, <2>3, <2>5, <2>4
<1>11. CASE HeadExit \/ HeadEnter \/ ReadObservation \/ Retry
  <2>1. FlagsOK'
    BY <1>1, <1>11, Zenon DEF FlagsOK, loopVars, eventVars, timeVars, HeadExit, HeadEnter, ReadObservation, Retry
  <2>2. PlacesOK'
    BY <1>1, <1>11 DEF PlacesOK, Observations, threadVars, HeadExit, HeadEnter, ReadObservation, Retry
  <2>3. CountsOK'
    BY <1>1, <1>3, <1>11 DEF CountsOK, loopVars, threadVars, timeVars, HeadExit, HeadEnter, ReadObservation, Retry
  <2>4. Few' /\ Off'
    BY <1>1, <1>3, <1>11 DEF CountsOK, threadVars, HeadExit, HeadEnter, ReadObservation, Retry
  <2>5. Kept'
    BY <1>1, <1>3, <1>11 DEF PlacesOK, threadVars, HeadExit, HeadEnter, ReadObservation, Retry
  <2> QED
    BY <2>1, <2>2, <2>3, <2>5, <2>4
<1>12. CASE CheckSize
  <2>1. FlagsOK'
    BY <1>1, <1>12, Zenon DEF FlagsOK, loopVars, eventVars, timeVars, CheckSize
  <2>2. PlacesOK'
    BY <1>1, <1>12 DEF PlacesOK, Observations, threadVars, CheckSize
  <2>3. CountsOK'
    BY <1>1, <1>3, <1>12 DEF CountsOK, loopVars, threadVars, timeVars, CheckSize
  <2>4. Few' /\ Off'
    BY <1>1, <1>3, <1>12 DEF CountsOK, threadVars, CheckSize
  <2>5. Kept'
    BY <1>1, <1>3, <1>12 DEF PlacesOK, threadVars, CheckSize
  <2> QED
    BY <2>1, <2>2, <2>3, <2>5, <2>4
<1>13. CASE Infer
  <2>1. FlagsOK'
    BY <1>1, <1>13, Zenon DEF FlagsOK, loopVars, eventVars, timeVars, Infer
  <2>2. PlacesOK'
    BY <1>1, <1>13 DEF PlacesOK, Observations, threadVars, Infer
  <2>3. CountsOK'
    BY <1>1, <1>3, <1>13 DEF CountsOK, loopVars, threadVars, timeVars, Infer
  <2>4. Few' /\ Off'
    BY <1>1, <1>3, <1>13 DEF CountsOK, threadVars, Infer
  <2>5. Kept'
    BY <1>1, <1>3, <1>13 DEF PlacesOK, threadVars, Infer
  <2> QED
    BY <2>1, <2>2, <2>3, <2>5, <2>4
<1>14. CASE Merge
  <2>1. FlagsOK'
    BY <1>1, <1>14, Zenon DEF FlagsOK, loopVars, eventVars, timeVars, Merge
  <2>2. PlacesOK'
    BY <1>1, <1>14 DEF PlacesOK, Observations, threadVars, Merge
  <2>3. CountsOK'
    BY <1>1, <1>3, <1>14 DEF CountsOK, loopVars, threadVars, timeVars, Merge
  <2>4. Few' /\ Off'
    BY <1>1, <1>3, <1>14 DEF CountsOK, threadVars, Merge
  <2>5. Kept'
    BY <1>1, <1>3, <1>14 DEF PlacesOK, threadVars, Merge
  <2> QED
    BY <2>1, <2>2, <2>3, <2>5, <2>4
<1>15. CASE InferenceError
  <2>1. FlagsOK'
    BY <1>1, <1>15, Zenon DEF FlagsOK, loopVars, eventVars, timeVars, InferenceError
  <2>2. PlacesOK'
    BY <1>1, <1>15 DEF PlacesOK, Observations, threadVars, InferenceError
  <2>3. CountsOK'
    BY <1>1, <1>3, <1>15 DEF CountsOK, loopVars, threadVars, timeVars, InferenceError
  <2>4. Few' /\ Off'
    BY <1>1, <1>3, <1>15 DEF CountsOK, threadVars, InferenceError
  <2>5. Kept'
    BY <1>1, <1>3, <1>15 DEF PlacesOK, threadVars, InferenceError
  <2> QED
    BY <2>1, <2>2, <2>3, <2>5, <2>4
<1>16. CASE WarmupDone \/ RaiseError \/ UnblockWarmup \/ SignalShutdown
  <2>1. FlagsOK'
    BY <1>1, <1>16, Zenon DEF FlagsOK, loopVars, eventVars, timeVars, WarmupDone, RaiseError, UnblockWarmup, SignalShutdown
  <2>2. PlacesOK'
    BY <1>1, <1>16 DEF PlacesOK, Observations, threadVars, WarmupDone, RaiseError, UnblockWarmup, SignalShutdown
  <2>3. CountsOK'
    BY <1>1, <1>3, <1>16 DEF CountsOK, loopVars, threadVars, timeVars, WarmupDone, RaiseError, UnblockWarmup, SignalShutdown
  <2>4. Few' /\ Off'
    BY <1>1, <1>3, <1>16 DEF CountsOK, threadVars, WarmupDone, RaiseError, UnblockWarmup, SignalShutdown
  <2>5. Kept'
    BY <1>1, <1>3, <1>16 DEF PlacesOK, threadVars, WarmupDone, RaiseError, UnblockWarmup, SignalShutdown
  <2> QED
    BY <2>1, <2>2, <2>3, <2>5, <2>4
<1>17. CASE ShutdownRequested \/ RTCFinished \/ UNCHANGED rtcVars
  <2>1. FlagsOK'
    BY <1>1, <1>17, Zenon DEF FlagsOK, loopVars, eventVars, timeVars, ShutdownRequested, RTCFinished, rtcVars
  <2>2. PlacesOK'
    BY <1>1, <1>17 DEF PlacesOK, Observations, threadVars, ShutdownRequested, RTCFinished, rtcVars
  <2>3. CountsOK'
    BY <1>1, <1>3, <1>17 DEF CountsOK, loopVars, threadVars, timeVars, ShutdownRequested, RTCFinished, rtcVars
  <2>4. Few' /\ Off'
    BY <1>1, <1>3, <1>17 DEF CountsOK, threadVars, ShutdownRequested, RTCFinished, rtcVars
  <2>5. Kept'
    BY <1>1, <1>3, <1>17 DEF PlacesOK, threadVars, ShutdownRequested, RTCFinished, rtcVars
  <2> QED
    BY <2>1, <2>2, <2>3, <2>5, <2>4
<1> QED
  BY <1>5, <1>6, <1>7, <1>8, <1>9, <1>10, <1>11, <1>12, <1>13, <1>14, <1>15, <1>16, <1>17 DEF RTCNext, ControlLoop, Thread

-------------------------------------------------------------------------------
(* The control loop asks for actions only while the policy is in control and *)
(* past its warmup, and the thread is told to work all that time.            *)
Running == {"loop", "notify", "warmup", "flushed", "get", "sleep", "stop"}

InSync == ~paused /\ (use_torch_compile => warmup_flushed)

LoopInv ==
  /\ control \in {"resume", "notify", "warmup", "flushed", "get"} => ~paused
  /\ control = "flushed" => warmup_flushed
  /\ control = "get" => InSync
  /\ control = "start" => ~primed
  /\ control = "warmup" => use_torch_compile
  /\ warmup_flushed => ready
  /\ ~paused /\ control \in Running => active /\ ~_shutdown_event
  /\ _shutdown_event => control \in {"join", "done"}

LEMMA InitLoopInv == RTCInit => LoopInv
  BY DEF RTCInit, LoopInv, Running

LEMMA NextLoopInv == ThreadInv /\ LoopInv /\ [RTCNext]_rtcVars => LoopInv'
<1> SUFFICES ASSUME ThreadInv, LoopInv, [RTCNext]_rtcVars PROVE LoopInv'
  OBVIOUS
<1>1. FlagsOK /\ PlacesOK /\ LoopInv /\ (control = "start" <=> rtc = "off")
  BY TypeParts DEF ThreadInv
<1>5. CASE Start
  <2>1. (control = "flushed" => warmup_flushed)' /\ (warmup_flushed => ready)'
    BY <1>1, <1>5 DEF LoopInv, loopVars, eventVars, Start, resume, Clear
  <2>2. (control = "start" => ~primed)' /\ (control = "warmup" => use_torch_compile)'
    BY <1>1, <1>5 DEF LoopInv, loopVars, timeVars, PlacesOK, Start, resume, Clear
  <2>3. (control \in {"resume", "notify", "warmup", "flushed", "get"} => ~paused)'
    BY <1>1, <1>5 DEF LoopInv, loopVars, InSync, Start, resume, Clear
  <2>4. (control = "get" => InSync)'
    BY <1>1, <1>5 DEF LoopInv, loopVars, InSync, Start, resume, Clear
  <2>5. (~paused /\ control \in Running => active /\ ~_shutdown_event)'
    BY <1>1, <1>5 DEF LoopInv, loopVars, eventVars, Running, Start, resume, Clear
  <2>6. (_shutdown_event => control \in {"join", "done"})'
    BY <1>1, <1>5 DEF LoopInv, eventVars, Running, Start, resume, Clear
  <2> QED
    BY <2>1, <2>2, <2>3, <2>4, <2>5, <2>6 DEF LoopInv
<1>6. CASE ResumePolicy \/ ResumeFlushed
  <2>1. (control = "flushed" => warmup_flushed)' /\ (warmup_flushed => ready)'
    BY <1>1, <1>6 DEF LoopInv, loopVars, eventVars, ResumePolicy, ResumeFlushed, resume
  <2>2. (control = "start" => ~primed)' /\ (control = "warmup" => use_torch_compile)'
    BY <1>1, <1>6 DEF LoopInv, loopVars, timeVars, PlacesOK, ResumePolicy, ResumeFlushed,
        resume
  <2>3. (control \in {"resume", "notify", "warmup", "flushed", "get"} => ~paused)'
    BY <1>1, <1>6 DEF LoopInv, loopVars, InSync, ResumePolicy, ResumeFlushed, resume
  <2>4. (control = "get" => InSync)'
    BY <1>1, <1>6 DEF LoopInv, loopVars, InSync, ResumePolicy, ResumeFlushed, resume
  <2>5. (~paused /\ control \in Running => active /\ ~_shutdown_event)'
    BY <1>1, <1>6 DEF LoopInv, loopVars, eventVars, Running, ResumePolicy, ResumeFlushed,
        resume
  <2>6. (_shutdown_event => control \in {"join", "done"})'
    BY <1>1, <1>6 DEF LoopInv, eventVars, Running, ResumePolicy, ResumeFlushed, resume
  <2> QED
    BY <2>1, <2>2, <2>3, <2>4, <2>5, <2>6 DEF LoopInv
<1>7. CASE Notify \/ EndLoop \/ Iterate
  <2>1. (control = "flushed" => warmup_flushed)' /\ (warmup_flushed => ready)'
    BY <1>1, <1>7 DEF LoopInv, loopVars, eventVars, Notify, EndLoop, Iterate
  <2>2. (control = "start" => ~primed)' /\ (control = "warmup" => use_torch_compile)'
    BY <1>1, <1>7 DEF LoopInv, loopVars, timeVars, PlacesOK, Notify, EndLoop, Iterate
  <2>3. (control \in {"resume", "notify", "warmup", "flushed", "get"} => ~paused)'
    BY <1>1, <1>7 DEF LoopInv, loopVars, InSync, Notify, EndLoop, Iterate
  <2>4. (control = "get" => InSync)'
    BY <1>1, <1>7 DEF LoopInv, loopVars, InSync, Notify, EndLoop, Iterate
  <2>5. (~paused /\ control \in Running => active /\ ~_shutdown_event)'
    BY <1>1, <1>7 DEF LoopInv, loopVars, eventVars, Running, Notify, EndLoop, Iterate
  <2>6. (_shutdown_event => control \in {"join", "done"})'
    BY <1>1, <1>7 DEF LoopInv, eventVars, Running, Notify, EndLoop, Iterate
  <2> QED
    BY <2>1, <2>2, <2>3, <2>4, <2>5, <2>6 DEF LoopInv
<1>8. CASE IteratePaused
  <2>1. (control = "flushed" => warmup_flushed)' /\ (warmup_flushed => ready)'
    BY <1>1, <1>8 DEF LoopInv, loopVars, eventVars, IteratePaused
  <2>2. (control = "start" => ~primed)' /\ (control = "warmup" => use_torch_compile)'
    BY <1>1, <1>8 DEF LoopInv, loopVars, timeVars, PlacesOK, IteratePaused
  <2>3. (control \in {"resume", "notify", "warmup", "flushed", "get"} => ~paused)'
    BY <1>1, <1>8 DEF LoopInv, loopVars, InSync, IteratePaused
  <2>4. (control = "get" => InSync)'
    BY <1>1, <1>8 DEF LoopInv, loopVars, InSync, IteratePaused
  <2>5. (~paused /\ control \in Running => active /\ ~_shutdown_event)'
    BY <1>1, <1>8 DEF LoopInv, loopVars, eventVars, Running, IteratePaused
  <2>6. (_shutdown_event => control \in {"join", "done"})'
    BY <1>1, <1>8 DEF LoopInv, eventVars, Running, IteratePaused
  <2> QED
    BY <2>1, <2>2, <2>3, <2>4, <2>5, <2>6 DEF LoopInv
<1>9. CASE AwaitWarmup
  <2>1. (control = "flushed" => warmup_flushed)' /\ (warmup_flushed => ready)'
    BY <1>1, <1>9 DEF LoopInv, loopVars, eventVars, AwaitWarmup
  <2>2. (control = "start" => ~primed)' /\ (control = "warmup" => use_torch_compile)'
    BY <1>1, <1>9 DEF LoopInv, loopVars, timeVars, PlacesOK, AwaitWarmup
  <2>3. (control \in {"resume", "notify", "warmup", "flushed", "get"} => ~paused)'
    BY <1>1, <1>9 DEF LoopInv, loopVars, InSync, AwaitWarmup
  <2>4. (control = "get" => InSync)'
    BY <1>1, <1>9 DEF LoopInv, loopVars, InSync, AwaitWarmup
  <2>5. (~paused /\ control \in Running => active /\ ~_shutdown_event)'
    BY <1>1, <1>9 DEF LoopInv, loopVars, eventVars, Running, AwaitWarmup
  <2>6. (_shutdown_event => control \in {"join", "done"})'
    BY <1>1, <1>9 DEF LoopInv, eventVars, Running, AwaitWarmup
  <2> QED
    BY <2>1, <2>2, <2>3, <2>4, <2>5, <2>6 DEF LoopInv
<1>10. CASE AlreadyWarm
  <2>1. (control = "flushed" => warmup_flushed)' /\ (warmup_flushed => ready)'
    BY <1>1, <1>10 DEF LoopInv, loopVars, eventVars, AlreadyWarm
  <2>2. (control = "start" => ~primed)' /\ (control = "warmup" => use_torch_compile)'
    BY <1>1, <1>10 DEF LoopInv, loopVars, timeVars, PlacesOK, AlreadyWarm
  <2>3. (control \in {"resume", "notify", "warmup", "flushed", "get"} => ~paused)'
    BY <1>1, <1>10 DEF LoopInv, loopVars, InSync, AlreadyWarm
  <2>4. (control = "get" => InSync)'
    BY <1>1, <1>10 DEF LoopInv, loopVars, InSync, AlreadyWarm
  <2>5. (~paused /\ control \in Running => active /\ ~_shutdown_event)'
    BY <1>1, <1>10 DEF LoopInv, loopVars, eventVars, Running, AlreadyWarm
  <2>6. (_shutdown_event => control \in {"join", "done"})'
    BY <1>1, <1>10 DEF LoopInv, eventVars, Running, AlreadyWarm
  <2> QED
    BY <2>1, <2>2, <2>3, <2>4, <2>5, <2>6 DEF LoopInv
<1>11. CASE Perform
  <2>1. (control = "flushed" => warmup_flushed)' /\ (warmup_flushed => ready)'
    BY <1>1, <1>11 DEF LoopInv, loopVars, eventVars, Perform, get_action, Get
  <2>2. (control = "start" => ~primed)' /\ (control = "warmup" => use_torch_compile)'
    BY <1>1, <1>11 DEF LoopInv, loopVars, timeVars, PlacesOK, Perform, get_action, Get
  <2>3. (control \in {"resume", "notify", "warmup", "flushed", "get"} => ~paused)'
    BY <1>1, <1>11 DEF LoopInv, loopVars, InSync, Perform, get_action, Get
  <2>4. (control = "get" => InSync)'
    BY <1>1, <1>11 DEF LoopInv, loopVars, InSync, Perform, get_action, Get
  <2>5. (~paused /\ control \in Running => active /\ ~_shutdown_event)'
    BY <1>1, <1>11 DEF LoopInv, loopVars, eventVars, Running, Perform, get_action, Get
  <2>6. (_shutdown_event => control \in {"join", "done"})'
    BY <1>1, <1>11 DEF LoopInv, eventVars, Running, Perform, get_action, Get
  <2> QED
    BY <2>1, <2>2, <2>3, <2>4, <2>5, <2>6 DEF LoopInv
<1>12. CASE Starve
  <2>1. (control = "flushed" => warmup_flushed)' /\ (warmup_flushed => ready)'
    BY <1>1, <1>12 DEF LoopInv, loopVars, eventVars, Starve
  <2>2. (control = "start" => ~primed)' /\ (control = "warmup" => use_torch_compile)'
    BY <1>1, <1>12 DEF LoopInv, loopVars, timeVars, PlacesOK, Starve
  <2>3. (control \in {"resume", "notify", "warmup", "flushed", "get"} => ~paused)'
    BY <1>1, <1>12 DEF LoopInv, loopVars, InSync, Starve
  <2>4. (control = "get" => InSync)'
    BY <1>1, <1>12 DEF LoopInv, loopVars, InSync, Starve
  <2>5. (~paused /\ control \in Running => active /\ ~_shutdown_event)'
    BY <1>1, <1>12 DEF LoopInv, loopVars, eventVars, Running, Starve
  <2>6. (_shutdown_event => control \in {"join", "done"})'
    BY <1>1, <1>12 DEF LoopInv, eventVars, Running, Starve
  <2> QED
    BY <2>1, <2>2, <2>3, <2>4, <2>5, <2>6 DEF LoopInv
<1>13. CASE Join \/ JoinTimesOut
  <2>1. (control = "flushed" => warmup_flushed)' /\ (warmup_flushed => ready)'
    BY <1>1, <1>13 DEF LoopInv, loopVars, eventVars, Join, JoinTimesOut
  <2>2. (control = "start" => ~primed)' /\ (control = "warmup" => use_torch_compile)'
    BY <1>1, <1>13 DEF LoopInv, loopVars, timeVars, PlacesOK, Join, JoinTimesOut
  <2>3. (control \in {"resume", "notify", "warmup", "flushed", "get"} => ~paused)'
    BY <1>1, <1>13 DEF LoopInv, loopVars, InSync, Join, JoinTimesOut
  <2>4. (control = "get" => InSync)'
    BY <1>1, <1>13 DEF LoopInv, loopVars, InSync, Join, JoinTimesOut
  <2>5. (~paused /\ control \in Running => active /\ ~_shutdown_event)'
    BY <1>1, <1>13 DEF LoopInv, loopVars, eventVars, Running, Join, JoinTimesOut
  <2>6. (_shutdown_event => control \in {"join", "done"})'
    BY <1>1, <1>13 DEF LoopInv, eventVars, Running, Join, JoinTimesOut
  <2> QED
    BY <2>1, <2>2, <2>3, <2>4, <2>5, <2>6 DEF LoopInv
<1>14. CASE PausePolicy \/ Stop
  <2>1. (control = "flushed" => warmup_flushed)' /\ (warmup_flushed => ready)'
    BY <1>1, <1>14 DEF LoopInv, loopVars, eventVars, PausePolicy, Stop, pause
  <2>2. (control = "start" => ~primed)' /\ (control = "warmup" => use_torch_compile)'
    BY <1>1, <1>14 DEF LoopInv, loopVars, timeVars, PlacesOK, PausePolicy, Stop, pause
  <2>3. (control \in {"resume", "notify", "warmup", "flushed", "get"} => ~paused)'
    BY <1>1, <1>14 DEF LoopInv, loopVars, InSync, PausePolicy, Stop, pause
  <2>4. (control = "get" => InSync)'
    BY <1>1, <1>14 DEF LoopInv, loopVars, InSync, PausePolicy, Stop, pause
  <2>5. (~paused /\ control \in Running => active /\ ~_shutdown_event)'
    BY <1>1, <1>14 DEF LoopInv, loopVars, eventVars, Running, PausePolicy, Stop, pause
  <2>6. (_shutdown_event => control \in {"join", "done"})'
    BY <1>1, <1>14 DEF LoopInv, eventVars, Running, PausePolicy, Stop, pause
  <2> QED
    BY <2>1, <2>2, <2>3, <2>4, <2>5, <2>6 DEF LoopInv
<1>15. CASE ResetPolicy \/ FlushWarmup
  <2>1. (control = "flushed" => warmup_flushed)' /\ (warmup_flushed => ready)'
    BY <1>1, <1>15 DEF LoopInv, loopVars, eventVars, ResetPolicy, FlushWarmup, engineReset,
        Clear
  <2>2. (control = "start" => ~primed)' /\ (control = "warmup" => use_torch_compile)'
    BY <1>1, <1>15 DEF LoopInv, loopVars, timeVars, PlacesOK, ResetPolicy, FlushWarmup,
        engineReset, Clear
  <2>3. (control \in {"resume", "notify", "warmup", "flushed", "get"} => ~paused)'
    BY <1>1, <1>15 DEF LoopInv, loopVars, InSync, ResetPolicy, FlushWarmup, engineReset,
        Clear
  <2>4. (control = "get" => InSync)'
    BY <1>1, <1>15 DEF LoopInv, loopVars, InSync, ResetPolicy, FlushWarmup, engineReset,
        Clear
  <2>5. (~paused /\ control \in Running => active /\ ~_shutdown_event)'
    BY <1>1, <1>15 DEF LoopInv, loopVars, eventVars, Running, ResetPolicy, FlushWarmup,
        engineReset, Clear
  <2>6. (_shutdown_event => control \in {"join", "done"})'
    BY <1>1, <1>15 DEF LoopInv, eventVars, Running, ResetPolicy, FlushWarmup, engineReset,
        Clear
  <2> QED
    BY <2>1, <2>2, <2>3, <2>4, <2>5, <2>6 DEF LoopInv
<1>16. CASE Sleep
  <2>1. (control = "flushed" => warmup_flushed)' /\ (warmup_flushed => ready)'
    BY <1>1, <1>16 DEF LoopInv, loopVars, eventVars, Sleep, ThreadOnTime, Later
  <2>2. (control = "start" => ~primed)' /\ (control = "warmup" => use_torch_compile)'
    BY <1>1, <1>16 DEF LoopInv, loopVars, timeVars, PlacesOK, Sleep, ThreadOnTime, Later
  <2>3. (control \in {"resume", "notify", "warmup", "flushed", "get"} => ~paused)'
    BY <1>1, <1>16 DEF LoopInv, loopVars, InSync, Sleep, ThreadOnTime, Later
  <2>4. (control = "get" => InSync)'
    BY <1>1, <1>16 DEF LoopInv, loopVars, InSync, Sleep, ThreadOnTime, Later
  <2>5. (~paused /\ control \in Running => active /\ ~_shutdown_event)'
    BY <1>1, <1>16 DEF LoopInv, loopVars, eventVars, Running, Sleep, ThreadOnTime, Later
  <2>6. (_shutdown_event => control \in {"join", "done"})'
    BY <1>1, <1>16 DEF LoopInv, eventVars, Running, Sleep, ThreadOnTime, Later
  <2> QED
    BY <2>1, <2>2, <2>3, <2>4, <2>5, <2>6 DEF LoopInv
<1>17. CASE HeadExit \/ HeadEnter
  <2>1. (control = "flushed" => warmup_flushed)' /\ (warmup_flushed => ready)'
    BY <1>1, <1>17 DEF LoopInv, loopVars, eventVars, HeadExit, HeadEnter
  <2>2. (control = "start" => ~primed)' /\ (control = "warmup" => use_torch_compile)'
    BY <1>1, <1>17 DEF LoopInv, loopVars, timeVars, PlacesOK, HeadExit, HeadEnter
  <2>3. (control \in {"resume", "notify", "warmup", "flushed", "get"} => ~paused)'
    BY <1>1, <1>17 DEF LoopInv, loopVars, InSync, HeadExit, HeadEnter
  <2>4. (control = "get" => InSync)'
    BY <1>1, <1>17 DEF LoopInv, loopVars, InSync, HeadExit, HeadEnter
  <2>5. (~paused /\ control \in Running => active /\ ~_shutdown_event)'
    BY <1>1, <1>17 DEF LoopInv, loopVars, eventVars, Running, HeadExit, HeadEnter
  <2>6. (_shutdown_event => control \in {"join", "done"})'
    BY <1>1, <1>17 DEF LoopInv, eventVars, Running, HeadExit, HeadEnter
  <2> QED
    BY <2>1, <2>2, <2>3, <2>4, <2>5, <2>6 DEF LoopInv
<1>18. CASE ReadObservation
  <2>1. (control = "flushed" => warmup_flushed)' /\ (warmup_flushed => ready)'
    BY <1>1, <1>18 DEF LoopInv, loopVars, eventVars, ReadObservation
  <2>2. (control = "start" => ~primed)' /\ (control = "warmup" => use_torch_compile)'
    BY <1>1, <1>18 DEF LoopInv, loopVars, timeVars, PlacesOK, ReadObservation
  <2>3. (control \in {"resume", "notify", "warmup", "flushed", "get"} => ~paused)'
    BY <1>1, <1>18 DEF LoopInv, loopVars, InSync, ReadObservation
  <2>4. (control = "get" => InSync)'
    BY <1>1, <1>18 DEF LoopInv, loopVars, InSync, ReadObservation
  <2>5. (~paused /\ control \in Running => active /\ ~_shutdown_event)'
    BY <1>1, <1>18 DEF LoopInv, loopVars, eventVars, Running, ReadObservation
  <2>6. (_shutdown_event => control \in {"join", "done"})'
    BY <1>1, <1>18 DEF LoopInv, eventVars, Running, ReadObservation
  <2> QED
    BY <2>1, <2>2, <2>3, <2>4, <2>5, <2>6 DEF LoopInv
<1>19. CASE Retry
  <2>1. (control = "flushed" => warmup_flushed)' /\ (warmup_flushed => ready)'
    BY <1>1, <1>19 DEF LoopInv, loopVars, eventVars, Retry
  <2>2. (control = "start" => ~primed)' /\ (control = "warmup" => use_torch_compile)'
    BY <1>1, <1>19 DEF LoopInv, loopVars, timeVars, PlacesOK, Retry
  <2>3. (control \in {"resume", "notify", "warmup", "flushed", "get"} => ~paused)'
    BY <1>1, <1>19 DEF LoopInv, loopVars, InSync, Retry
  <2>4. (control = "get" => InSync)'
    BY <1>1, <1>19 DEF LoopInv, loopVars, InSync, Retry
  <2>5. (~paused /\ control \in Running => active /\ ~_shutdown_event)'
    BY <1>1, <1>19 DEF LoopInv, loopVars, eventVars, Running, Retry
  <2>6. (_shutdown_event => control \in {"join", "done"})'
    BY <1>1, <1>19 DEF LoopInv, eventVars, Running, Retry
  <2> QED
    BY <2>1, <2>2, <2>3, <2>4, <2>5, <2>6 DEF LoopInv
<1>20. CASE CheckSize
  <2>1. (control = "flushed" => warmup_flushed)' /\ (warmup_flushed => ready)'
    BY <1>1, <1>20 DEF LoopInv, loopVars, eventVars, CheckSize, qsize
  <2>2. (control = "start" => ~primed)' /\ (control = "warmup" => use_torch_compile)'
    BY <1>1, <1>20 DEF LoopInv, loopVars, timeVars, PlacesOK, CheckSize, qsize
  <2>3. (control \in {"resume", "notify", "warmup", "flushed", "get"} => ~paused)'
    BY <1>1, <1>20 DEF LoopInv, loopVars, InSync, CheckSize, qsize
  <2>4. (control = "get" => InSync)'
    BY <1>1, <1>20 DEF LoopInv, loopVars, InSync, CheckSize, qsize
  <2>5. (~paused /\ control \in Running => active /\ ~_shutdown_event)'
    BY <1>1, <1>20 DEF LoopInv, loopVars, eventVars, Running, CheckSize, qsize
  <2>6. (_shutdown_event => control \in {"join", "done"})'
    BY <1>1, <1>20 DEF LoopInv, eventVars, Running, CheckSize, qsize
  <2> QED
    BY <2>1, <2>2, <2>3, <2>4, <2>5, <2>6 DEF LoopInv
<1>21. CASE Infer
  <2>1. (control = "flushed" => warmup_flushed)' /\ (warmup_flushed => ready)'
    BY <1>1, <1>21 DEF LoopInv, loopVars, eventVars, Infer
  <2>2. (control = "start" => ~primed)' /\ (control = "warmup" => use_torch_compile)'
    BY <1>1, <1>21 DEF LoopInv, loopVars, timeVars, PlacesOK, Infer
  <2>3. (control \in {"resume", "notify", "warmup", "flushed", "get"} => ~paused)'
    BY <1>1, <1>21 DEF LoopInv, loopVars, InSync, Infer
  <2>4. (control = "get" => InSync)'
    BY <1>1, <1>21 DEF LoopInv, loopVars, InSync, Infer
  <2>5. (~paused /\ control \in Running => active /\ ~_shutdown_event)'
    BY <1>1, <1>21 DEF LoopInv, loopVars, eventVars, Running, Infer
  <2>6. (_shutdown_event => control \in {"join", "done"})'
    BY <1>1, <1>21 DEF LoopInv, eventVars, Running, Infer
  <2> QED
    BY <2>1, <2>2, <2>3, <2>4, <2>5, <2>6 DEF LoopInv
<1>22. CASE Merge
  <2>1. (control = "flushed" => warmup_flushed)' /\ (warmup_flushed => ready)'
    BY <1>1, <1>22 DEF LoopInv, loopVars, eventVars, Merge
  <2>2. (control = "start" => ~primed)' /\ (control = "warmup" => use_torch_compile)'
    BY <1>1, <1>22 DEF LoopInv, loopVars, timeVars, PlacesOK, Merge
  <2>3. (control \in {"resume", "notify", "warmup", "flushed", "get"} => ~paused)'
    BY <1>1, <1>22 DEF LoopInv, loopVars, InSync, Merge
  <2>4. (control = "get" => InSync)'
    BY <1>1, <1>22 DEF LoopInv, loopVars, InSync, Merge
  <2>5. (~paused /\ control \in Running => active /\ ~_shutdown_event)'
    BY <1>1, <1>22 DEF LoopInv, loopVars, eventVars, Running, Merge
  <2>6. (_shutdown_event => control \in {"join", "done"})'
    BY <1>1, <1>22 DEF LoopInv, eventVars, Running, Merge
  <2> QED
    BY <2>1, <2>2, <2>3, <2>4, <2>5, <2>6 DEF LoopInv
<1>23. CASE InferenceError
  <2>1. (control = "flushed" => warmup_flushed)' /\ (warmup_flushed => ready)'
    BY <1>1, <1>23 DEF LoopInv, loopVars, eventVars, InferenceError
  <2>2. (control = "start" => ~primed)' /\ (control = "warmup" => use_torch_compile)'
    BY <1>1, <1>23 DEF LoopInv, loopVars, timeVars, PlacesOK, InferenceError
  <2>3. (control \in {"resume", "notify", "warmup", "flushed", "get"} => ~paused)'
    BY <1>1, <1>23 DEF LoopInv, loopVars, InSync, InferenceError
  <2>4. (control = "get" => InSync)'
    BY <1>1, <1>23 DEF LoopInv, loopVars, InSync, InferenceError
  <2>5. (~paused /\ control \in Running => active /\ ~_shutdown_event)'
    BY <1>1, <1>23 DEF LoopInv, loopVars, eventVars, Running, InferenceError
  <2>6. (_shutdown_event => control \in {"join", "done"})'
    BY <1>1, <1>23 DEF LoopInv, eventVars, Running, InferenceError
  <2> QED
    BY <2>1, <2>2, <2>3, <2>4, <2>5, <2>6 DEF LoopInv
<1>24. CASE WarmupDone \/ RaiseError
  <2>1. (control = "flushed" => warmup_flushed)' /\ (warmup_flushed => ready)'
    BY <1>1, <1>24 DEF LoopInv, loopVars, eventVars, WarmupDone, RaiseError
  <2>2. (control = "start" => ~primed)' /\ (control = "warmup" => use_torch_compile)'
    BY <1>1, <1>24 DEF LoopInv, loopVars, timeVars, PlacesOK, WarmupDone, RaiseError
  <2>3. (control \in {"resume", "notify", "warmup", "flushed", "get"} => ~paused)'
    BY <1>1, <1>24 DEF LoopInv, loopVars, InSync, WarmupDone, RaiseError
  <2>4. (control = "get" => InSync)'
    BY <1>1, <1>24 DEF LoopInv, loopVars, InSync, WarmupDone, RaiseError
  <2>5. (~paused /\ control \in Running => active /\ ~_shutdown_event)'
    BY <1>1, <1>24 DEF LoopInv, loopVars, eventVars, Running, WarmupDone, RaiseError
  <2>6. (_shutdown_event => control \in {"join", "done"})'
    BY <1>1, <1>24 DEF LoopInv, eventVars, Running, WarmupDone, RaiseError
  <2> QED
    BY <2>1, <2>2, <2>3, <2>4, <2>5, <2>6 DEF LoopInv
<1>25. CASE UnblockWarmup \/ SignalShutdown
  <2>1. (control = "flushed" => warmup_flushed)' /\ (warmup_flushed => ready)'
    BY <1>1, <1>25 DEF LoopInv, loopVars, eventVars, UnblockWarmup, SignalShutdown
  <2>2. (control = "start" => ~primed)' /\ (control = "warmup" => use_torch_compile)'
    BY <1>1, <1>25 DEF LoopInv, loopVars, timeVars, PlacesOK, UnblockWarmup, SignalShutdown
  <2>3. (control \in {"resume", "notify", "warmup", "flushed", "get"} => ~paused)'
    BY <1>1, <1>25 DEF LoopInv, loopVars, InSync, UnblockWarmup, SignalShutdown
  <2>4. (control = "get" => InSync)'
    BY <1>1, <1>25 DEF LoopInv, loopVars, InSync, UnblockWarmup, SignalShutdown
  <2>5. (~paused /\ control \in Running => active /\ ~_shutdown_event)'
    BY <1>1, <1>25 DEF LoopInv, loopVars, eventVars, Running, UnblockWarmup, SignalShutdown
  <2>6. (_shutdown_event => control \in {"join", "done"})'
    BY <1>1, <1>25 DEF LoopInv, eventVars, Running, UnblockWarmup, SignalShutdown
  <2> QED
    BY <2>1, <2>2, <2>3, <2>4, <2>5, <2>6 DEF LoopInv
<1>26. CASE ShutdownRequested \/ RTCFinished \/ UNCHANGED rtcVars
  <2>1. (control = "flushed" => warmup_flushed)' /\ (warmup_flushed => ready)'
    BY <1>1, <1>26 DEF LoopInv, loopVars, eventVars, ShutdownRequested, RTCFinished, rtcVars
  <2>2. (control = "start" => ~primed)' /\ (control = "warmup" => use_torch_compile)'
    BY <1>1, <1>26 DEF LoopInv, loopVars, timeVars, PlacesOK, ShutdownRequested, RTCFinished,
        rtcVars
  <2>3. (control \in {"resume", "notify", "warmup", "flushed", "get"} => ~paused)'
    BY <1>1, <1>26 DEF LoopInv, loopVars, InSync, ShutdownRequested, RTCFinished, rtcVars
  <2>4. (control = "get" => InSync)'
    BY <1>1, <1>26 DEF LoopInv, loopVars, InSync, ShutdownRequested, RTCFinished, rtcVars
  <2>5. (~paused /\ control \in Running => active /\ ~_shutdown_event)'
    BY <1>1, <1>26 DEF LoopInv, loopVars, eventVars, Running, ShutdownRequested, RTCFinished,
        rtcVars
  <2>6. (_shutdown_event => control \in {"join", "done"})'
    BY <1>1, <1>26 DEF LoopInv, eventVars, Running, ShutdownRequested, RTCFinished, rtcVars
  <2> QED
    BY <2>1, <2>2, <2>3, <2>4, <2>5, <2>6 DEF LoopInv
<1> QED
  BY <1>5, <1>6, <1>7, <1>8, <1>9, <1>10, <1>11, <1>12, <1>13, <1>14, <1>15, <1>16, <1>17,
      <1>18, <1>19, <1>20, <1>21, <1>22, <1>23, <1>24, <1>25, <1>26 DEF RTCNext, ControlLoop, Thread

-------------------------------------------------------------------------------
(* What Merge makes of the queue: the chunk without the actions whose time   *)
(* went by, or the chunk behind what is left.                                *)
LEMMA MergedQueue ==
  ASSUME ThreadInv, LeftOverMatchesPlan, rtc = "merge", merge(ChunkFrom(observed), new_delay)
  PROVE  /\ enabled' = enabled /\ last_index' = 0
         /\ enabled => /\ Len(queue') = IF new_delay < ChunkSize THEN ChunkSize - new_delay ELSE 0
                       /\ \A i \in 1 .. Len(queue') :
                            queue'[i].step = ChunkSize - Len(queue') + i - 1
         /\ ~enabled => Len(queue') = qsize + ChunkSize
<1> DEFINE chunk == ChunkFrom(observed)
           d == IF new_delay < ChunkSize THEN new_delay ELSE ChunkSize
<1>1. /\ ChunkSize \in Nat /\ new_delay \in Nat /\ d \in 0 .. ChunkSize
      /\ queue \in Seq(Action) /\ last_index \in 0 .. Len(queue)
  BY TypeParts, RTCAssumption DEF ThreadInv, CountsOK, QueueTypeOK, LeftOverMatchesPlan
<1>2. /\ chunk.processed \in Seq(Action)
      /\ Len(chunk.processed) = ChunkSize /\ Len(chunk.original) = ChunkSize
      /\ \A i \in 1 .. ChunkSize : chunk.processed[i].step = i - 1
  <2>1. chunk \in Chunks
    BY RolloutAssumption, TypeParts DEF ThreadInv, PlacesOK, Observations
  <2>2. chunk.processed = [i \in 1 .. ChunkSize |-> [step |-> i - 1, obs |-> observed]]
    BY DEF ChunkFrom
  <2>3. chunk.processed \in Seq(Action) /\ Len(chunk.original) = Len(chunk.processed)
    BY <2>1, QueueAssumption
  <2>4. Len(chunk.processed) = ChunkSize
    BY <1>1, <2>2, <2>3
  <2>5. ASSUME NEW i \in 1 .. ChunkSize PROVE chunk.processed[i].step = i - 1
    <3>1. chunk.processed[i] = [step |-> i - 1, obs |-> observed]
      BY <2>2, Zenon
    <3> QED
      BY <3>1
  <2> QED
    BY <2>3, <2>4, <2>5
<1>3. PICK p : /\ p = chunk.processed /\ p \in Seq(Action) /\ Len(p) = ChunkSize
               /\ \A i \in 1 .. ChunkSize : p[i].step = i - 1
  BY <1>2
<1>9. enabled' = enabled /\ last_index' = 0
  BY DEF merge, _replace_actions_queue, _append_actions_queue
<1>4. enabled => queue' = Drop(p, d)
  BY <1>2, <1>3 DEF merge, _replace_actions_queue
<1>5. ~enabled => queue' = Drop(queue \o p, last_index)
  BY <1>3 DEF merge, _append_actions_queue
<1>6. /\ d = IF new_delay < ChunkSize THEN new_delay ELSE ChunkSize
      /\ d \in Nat /\ d <= ChunkSize /\ ChunkSize - (ChunkSize - d) = d
  BY <1>1
<1> HIDE DEF chunk, d
<1>7. ASSUME enabled
      PROVE  /\ Len(queue') = ChunkSize - d
             /\ \A i \in 1 .. Len(queue') : queue'[i].step = ChunkSize - Len(queue') + i - 1
  <2>1. /\ Len(Drop(p, d)) = IF d <= Len(p) THEN Len(p) - d ELSE 0
        /\ \A i \in 1 .. Len(p) - d : Drop(p, d)[i] = p[d + i]
    <3>1. p \in Seq(Action) /\ d \in Nat
      BY <1>3, <1>6
    <3> QED
      BY <3>1, DropProperties
  <2>2. Len(queue') = ChunkSize - d /\ \A i \in 1 .. ChunkSize - d : queue'[i] = p[d + i]
    BY <1>3, <1>4, <1>6, <1>7, <2>1
  <2>3. ASSUME NEW i \in 1 .. ChunkSize - d
        PROVE  queue'[i].step = d + i - 1
    <3>1. d + i \in 1 .. ChunkSize
      BY <1>1, <1>6
    <3>2. p[d + i].step = d + i - 1
      <4>1. \A j \in 1 .. ChunkSize : p[j].step = j - 1
        BY <1>3
      <4> QED
        BY <1>1, <1>6, <3>1, <4>1
    <3> QED
      BY <2>2, <3>2
  <2> QED
    BY <1>6, <2>2, <2>3
<1>8. ASSUME ~enabled PROVE Len(queue') = qsize + ChunkSize
  <2> DEFINE done == queue \o p
  <2>1. queue' = Drop(done, last_index)
    BY <1>5, <1>8
  <2>2. done \in Seq(Action) /\ Len(done) = Len(queue) + Len(p)
    BY <1>1, <1>3, ConcatProperties
  <2>3. last_index \in Nat /\ Len(queue) \in Nat /\ last_index <= Len(queue)
    BY <1>1
  <2> HIDE DEF done
  <2>4. Len(queue') = IF last_index <= Len(done) THEN Len(done) - last_index ELSE 0
    BY <2>1, <2>2, <2>3, DropProperties
  <2> QED
    BY <1>1, <1>3, <2>2, <2>3, <2>4 DEF qsize
<1> QED
  BY <1>1, <1>6, <1>7, <1>8, <1>9

-------------------------------------------------------------------------------
(* The queue holds the end of a chunk, so that the action the robot performs *)
(* next is the one of step ChunkSize - qsize; but for what the delay rounds, *)
(* and the tick that ends this iteration, that is the chunk's age.           *)
Rounded ==
  rtc = "merge" => new_delay - inferAge \in -1 .. 1 /\ (lag = 0 => inferAge <= new_delay)

EndOfChunk ==
  enabled => /\ Len(queue) <= ChunkSize
             /\ \A i \in 1 .. Len(queue) : queue[i].step = ChunkSize - Len(queue) + i - 1

OnTime ==
  enabled /\ InSync /\ qsize > 0 =>
    age - (ChunkSize - qsize) \in IF control = "sleep" THEN -2 .. 1 ELSE -1 .. 2

ClockInv == Rounded /\ EndOfChunk /\ OnTime

LEMMA InitClockInv == RTCInit => ClockInv
  BY RTCAssumption DEF RTCInit, QueueInit, ClockInv, Rounded, EndOfChunk, OnTime, qsize

LEMMA NextClockInv == ThreadInv /\ LeftOverMatchesPlan /\ LoopInv /\ ClockInv /\ [RTCNext]_rtcVars => ClockInv'
<1> SUFFICES ASSUME ThreadInv, LeftOverMatchesPlan, LoopInv, ClockInv, [RTCNext]_rtcVars PROVE ClockInv'
  OBVIOUS
<1>1. /\ FlagsOK /\ PlacesOK /\ CountsOK /\ LoopInv /\ ChunkSize \in Nat /\ ChunkSize > 0
      /\ Len(queue) \in Nat /\ last_index \in Nat /\ last_index <= Len(queue)
      /\ Rounded /\ EndOfChunk /\ OnTime
  BY TypeParts, RTCAssumption DEF ThreadInv, ClockInv, QueueTypeOK, LeftOverMatchesPlan
<1>2. rtc = "merge" /\ merge(ChunkFrom(observed), new_delay) =>
        /\ enabled' = enabled /\ last_index' = 0
        /\ enabled => /\ Len(queue') = IF new_delay < ChunkSize THEN ChunkSize - new_delay ELSE 0
                      /\ \A i \in 1 .. Len(queue') :
                           queue'[i].step = ChunkSize - Len(queue') + i - 1
  BY MergedQueue
<1>3. Clear => Len(queue') = 0 /\ last_index' = 0 /\ enabled' = enabled
  BY DEF Clear
<1>4. Get => last_index' = last_index + 1 /\ queue' = queue /\ enabled' = enabled
  BY DEF Get
<1>5. CASE Start
  <2>1. Rounded'
    BY <1>1, <1>5 DEF Rounded, threadVars, timeVars, PlacesOK, CountsOK, Start, resume
  <2>2. EndOfChunk'
    BY <1>1, <1>3, <1>4, <1>5 DEF EndOfChunk, queueVars, Start, resume
  <2>3. OnTime'
    BY <1>1, <1>3, <1>4, <1>5 DEF OnTime, InSync, LoopInv, qsize, queueVars, loopVars,
        timeVars, CountsOK, Start, resume
  <2> QED
    BY <2>1, <2>2, <2>3 DEF ClockInv
<1>6. CASE ResumePolicy \/ ResumeFlushed
  <2>1. Rounded'
    BY <1>1, <1>6 DEF Rounded, threadVars, timeVars, PlacesOK, CountsOK, ResumePolicy,
        ResumeFlushed, resume
  <2>2. EndOfChunk'
    BY <1>1, <1>3, <1>4, <1>6 DEF EndOfChunk, queueVars, ResumePolicy, ResumeFlushed, resume
  <2>3. OnTime'
    BY <1>1, <1>3, <1>4, <1>6 DEF OnTime, InSync, LoopInv, qsize, queueVars, loopVars,
        timeVars, CountsOK, ResumePolicy, ResumeFlushed, resume
  <2> QED
    BY <2>1, <2>2, <2>3 DEF ClockInv
<1>7. CASE Notify \/ EndLoop \/ Iterate
  <2>1. Rounded'
    BY <1>1, <1>7 DEF Rounded, threadVars, timeVars, PlacesOK, CountsOK, Notify, EndLoop,
        Iterate
  <2>2. EndOfChunk'
    BY <1>1, <1>3, <1>4, <1>7 DEF EndOfChunk, queueVars, Notify, EndLoop, Iterate
  <2>3. OnTime'
    BY <1>1, <1>3, <1>4, <1>7 DEF OnTime, InSync, LoopInv, qsize, queueVars, loopVars,
        timeVars, CountsOK, Notify, EndLoop, Iterate
  <2> QED
    BY <2>1, <2>2, <2>3 DEF ClockInv
<1>8. CASE IteratePaused
  <2>1. Rounded'
    BY <1>1, <1>8 DEF Rounded, threadVars, timeVars, PlacesOK, CountsOK, IteratePaused
  <2>2. EndOfChunk'
    BY <1>1, <1>3, <1>4, <1>8 DEF EndOfChunk, queueVars, IteratePaused
  <2>3. OnTime'
    BY <1>1, <1>3, <1>4, <1>8 DEF OnTime, InSync, LoopInv, qsize, queueVars, loopVars,
        timeVars, CountsOK, IteratePaused
  <2> QED
    BY <2>1, <2>2, <2>3 DEF ClockInv
<1>9. CASE AwaitWarmup
  <2>1. Rounded'
    BY <1>1, <1>9 DEF Rounded, threadVars, timeVars, PlacesOK, CountsOK, AwaitWarmup
  <2>2. EndOfChunk'
    BY <1>1, <1>3, <1>4, <1>9 DEF EndOfChunk, queueVars, AwaitWarmup
  <2>3. OnTime'
    BY <1>1, <1>3, <1>4, <1>9 DEF OnTime, InSync, LoopInv, qsize, queueVars, loopVars,
        timeVars, CountsOK, AwaitWarmup
  <2> QED
    BY <2>1, <2>2, <2>3 DEF ClockInv
<1>10. CASE AlreadyWarm
  <2>1. Rounded'
    BY <1>1, <1>10 DEF Rounded, threadVars, timeVars, PlacesOK, CountsOK, AlreadyWarm
  <2>2. EndOfChunk'
    BY <1>1, <1>3, <1>4, <1>10 DEF EndOfChunk, queueVars, AlreadyWarm
  <2>3. OnTime'
    BY <1>1, <1>3, <1>4, <1>10 DEF OnTime, InSync, LoopInv, qsize, queueVars, loopVars,
        timeVars, CountsOK, AlreadyWarm
  <2> QED
    BY <2>1, <2>2, <2>3 DEF ClockInv
<1>11. CASE Perform
  <2>1. Rounded'
    BY <1>1, <1>11 DEF Rounded, threadVars, timeVars, PlacesOK, CountsOK, Perform,
        get_action
  <2>2. EndOfChunk'
    BY <1>1, <1>3, <1>4, <1>11 DEF EndOfChunk, queueVars, Perform, get_action
  <2>3. OnTime'
    <3>1. /\ control = "get" /\ control' = "sleep" /\ enabled' = enabled /\ age' = age
          /\ queue' = queue /\ last_index' = last_index + 1
      BY <1>4, <1>11 DEF Perform, get_action, timeVars
    <3>2. qsize' = qsize - 1 /\ qsize \in Int /\ age \in Nat /\ InSync
      BY <1>1, <3>1 DEF qsize, CountsOK, LoopInv
    <3>3. enabled /\ qsize > 0 => age - (ChunkSize - qsize) \in -1 .. 2
      BY <1>1, <3>1, <3>2 DEF OnTime
    <3> QED
      BY <1>1, <3>1, <3>2, <3>3 DEF OnTime
  <2> QED
    BY <2>1, <2>2, <2>3 DEF ClockInv
<1>12. CASE Starve
  <2>1. Rounded'
    BY <1>1, <1>12 DEF Rounded, threadVars, timeVars, PlacesOK, CountsOK, Starve
  <2>2. EndOfChunk'
    BY <1>1, <1>3, <1>4, <1>12 DEF EndOfChunk, queueVars, Starve
  <2>3. OnTime'
    BY <1>1, <1>3, <1>4, <1>12 DEF OnTime, InSync, LoopInv, qsize, queueVars, loopVars,
        timeVars, CountsOK, Starve
  <2> QED
    BY <2>1, <2>2, <2>3 DEF ClockInv
<1>13. CASE Join \/ JoinTimesOut
  <2>1. Rounded'
    BY <1>1, <1>13 DEF Rounded, threadVars, timeVars, PlacesOK, CountsOK, Join, JoinTimesOut
  <2>2. EndOfChunk'
    BY <1>1, <1>3, <1>4, <1>13 DEF EndOfChunk, queueVars, Join, JoinTimesOut
  <2>3. OnTime'
    BY <1>1, <1>3, <1>4, <1>13 DEF OnTime, InSync, LoopInv, qsize, queueVars, loopVars,
        timeVars, CountsOK, Join, JoinTimesOut
  <2> QED
    BY <2>1, <2>2, <2>3 DEF ClockInv
<1>14. CASE PausePolicy \/ Stop
  <2>1. Rounded'
    BY <1>1, <1>14 DEF Rounded, threadVars, timeVars, PlacesOK, CountsOK, PausePolicy, Stop,
        pause
  <2>2. EndOfChunk'
    BY <1>1, <1>3, <1>4, <1>14 DEF EndOfChunk, queueVars, PausePolicy, Stop, pause
  <2>3. OnTime'
    BY <1>1, <1>3, <1>4, <1>14 DEF OnTime, InSync, LoopInv, qsize, queueVars, loopVars,
        timeVars, CountsOK, PausePolicy, Stop, pause
  <2> QED
    BY <2>1, <2>2, <2>3 DEF ClockInv
<1>15. CASE ResetPolicy \/ FlushWarmup
  <2>1. Rounded'
    BY <1>1, <1>15 DEF Rounded, threadVars, timeVars, PlacesOK, CountsOK, ResetPolicy,
        FlushWarmup, engineReset
  <2>2. EndOfChunk'
    <3>1. Len(queue') = 0
      BY <1>3, <1>15 DEF ResetPolicy, FlushWarmup, engineReset
    <3> QED
      BY <1>1, <3>1 DEF EndOfChunk
  <2>3. OnTime'
    <3>1. Len(queue') = 0 /\ last_index' = 0
      BY <1>3, <1>15 DEF ResetPolicy, FlushWarmup, engineReset
    <3>2. ~(qsize' > 0)
      BY <3>1 DEF qsize
    <3> QED
      BY <3>2 DEF OnTime
  <2> QED
    BY <2>1, <2>2, <2>3 DEF ClockInv
<1>16. CASE Sleep
  <2>1. Rounded'
    BY <1>1, <1>16 DEF Rounded, threadVars, timeVars, PlacesOK, CountsOK, Sleep,
        ThreadOnTime, Later
  <2>2. EndOfChunk'
    BY <1>1, <1>3, <1>4, <1>16 DEF EndOfChunk, queueVars, Sleep, ThreadOnTime, Later
  <2>3. OnTime'
    <3>1. /\ control = "sleep" /\ control' = "loop" /\ enabled' = enabled /\ UNCHANGED <<queue, last_index>>
          /\ paused' = paused /\ use_torch_compile' = use_torch_compile
          /\ warmup_flushed' = warmup_flushed
          /\ age' = IF enabled /\ qsize > 0 THEN Later(age) ELSE 0
      BY <1>16 DEF Sleep, queueVars, loopVars
    <3>2. SUFFICES ASSUME enabled, InSync, qsize > 0
                   PROVE  age' - (ChunkSize - qsize) \in -1 .. 2
      BY <3>1 DEF OnTime, InSync, qsize
    <3>3. qsize \in Nat /\ age \in Nat /\ age - (ChunkSize - qsize) \in -2 .. 1
      BY <1>1, <3>1, <3>2 DEF OnTime, CountsOK, qsize
    <3>4. age' = age + 1
      BY <1>1, <3>1, <3>2, <3>3 DEF Later
    <3> QED
      BY <1>1, <3>3, <3>4
  <2> QED
    BY <2>1, <2>2, <2>3 DEF ClockInv
<1>17. CASE HeadExit \/ HeadEnter
  <2>1. Rounded'
    BY <1>1, <1>17 DEF Rounded, threadVars, timeVars, PlacesOK, CountsOK, HeadExit,
        HeadEnter
  <2>2. EndOfChunk'
    BY <1>1, <1>3, <1>4, <1>17 DEF EndOfChunk, queueVars, HeadExit, HeadEnter
  <2>3. OnTime'
    BY <1>1, <1>3, <1>4, <1>17 DEF OnTime, InSync, LoopInv, qsize, queueVars, loopVars,
        timeVars, CountsOK, HeadExit, HeadEnter
  <2> QED
    BY <2>1, <2>2, <2>3 DEF ClockInv
<1>18. CASE ReadObservation
  <2>1. Rounded'
    BY <1>1, <1>18 DEF Rounded, threadVars, timeVars, PlacesOK, CountsOK, ReadObservation
  <2>2. EndOfChunk'
    BY <1>1, <1>3, <1>4, <1>18 DEF EndOfChunk, queueVars, ReadObservation
  <2>3. OnTime'
    BY <1>1, <1>3, <1>4, <1>18 DEF OnTime, InSync, LoopInv, qsize, queueVars, loopVars,
        timeVars, CountsOK, ReadObservation
  <2> QED
    BY <2>1, <2>2, <2>3 DEF ClockInv
<1>19. CASE Retry
  <2>1. Rounded'
    BY <1>1, <1>19 DEF Rounded, threadVars, timeVars, PlacesOK, CountsOK, Retry
  <2>2. EndOfChunk'
    BY <1>1, <1>3, <1>4, <1>19 DEF EndOfChunk, queueVars, Retry
  <2>3. OnTime'
    BY <1>1, <1>3, <1>4, <1>19 DEF OnTime, InSync, LoopInv, qsize, queueVars, loopVars,
        timeVars, CountsOK, Retry
  <2> QED
    BY <2>1, <2>2, <2>3 DEF ClockInv
<1>20. CASE CheckSize
  <2>1. Rounded'
    BY <1>1, <1>20 DEF Rounded, threadVars, timeVars, PlacesOK, CountsOK, CheckSize, qsize
  <2>2. EndOfChunk'
    BY <1>1, <1>3, <1>4, <1>20 DEF EndOfChunk, queueVars, CheckSize, qsize
  <2>3. OnTime'
    BY <1>1, <1>3, <1>4, <1>20 DEF OnTime, InSync, LoopInv, qsize, queueVars, loopVars,
        timeVars, CountsOK, CheckSize
  <2> QED
    BY <2>1, <2>2, <2>3 DEF ClockInv
<1>21. CASE Infer
  <2>1. Rounded'
    <3>1. (new_delay' = inferAge \/ new_delay' = inferAge + 1) /\ inferAge' = inferAge
          /\ inferAge \in Nat
      BY <1>1, <1>21 DEF Infer, CountsOK
    <3>2. new_delay' - inferAge' \in -1 .. 1 /\ inferAge' <= new_delay'
      BY <3>1
    <3> QED
      BY <3>2 DEF Rounded
  <2>2. EndOfChunk'
    BY <1>1, <1>3, <1>4, <1>21 DEF EndOfChunk, queueVars, Infer
  <2>3. OnTime'
    BY <1>1, <1>3, <1>4, <1>21 DEF OnTime, InSync, LoopInv, qsize, queueVars, loopVars,
        timeVars, CountsOK, Infer
  <2> QED
    BY <2>1, <2>2, <2>3 DEF ClockInv
<1>22. CASE Merge
  <2>1. Rounded'
    BY <1>1, <1>22 DEF Rounded, threadVars, timeVars, PlacesOK, CountsOK, Merge
  <2>2. EndOfChunk'
    <3>1. enabled' => /\ Len(queue') = IF new_delay < ChunkSize THEN ChunkSize - new_delay ELSE 0
                      /\ \A i \in 1 .. Len(queue') :
                           queue'[i].step = ChunkSize - Len(queue') + i - 1
      BY <1>2, <1>22 DEF Merge
    <3>2. new_delay \in Nat
      BY <1>1 DEF CountsOK
    <3> QED
      BY <1>1, <3>1, <3>2 DEF EndOfChunk
  <2>3. OnTime'
    <3>1. /\ control' = control /\ enabled' = enabled /\ last_index' = 0
          /\ enabled => /\ age' = inferAge
                        /\ Len(queue') = IF new_delay < ChunkSize THEN ChunkSize - new_delay ELSE 0
      BY <1>2, <1>22 DEF Merge
    <3>2. new_delay - inferAge \in -1 .. 1 /\ new_delay \in Nat /\ inferAge \in Nat
      BY <1>1, <1>22 DEF Merge, Rounded, CountsOK
    <3>3. qsize' = Len(queue') - last_index'
      BY DEF qsize
    <3>4. enabled' /\ qsize' > 0 => age' - (ChunkSize - qsize') \in -1 .. 1
      BY <1>1, <3>1, <3>2, <3>3
    <3> QED
      BY <3>4 DEF OnTime
  <2> QED
    BY <2>1, <2>2, <2>3 DEF ClockInv
<1>23. CASE InferenceError
  <2>1. Rounded'
    BY <1>1, <1>23 DEF Rounded, threadVars, timeVars, PlacesOK, CountsOK, InferenceError
  <2>2. EndOfChunk'
    BY <1>1, <1>3, <1>4, <1>23 DEF EndOfChunk, queueVars, InferenceError
  <2>3. OnTime'
    BY <1>1, <1>3, <1>4, <1>23 DEF OnTime, InSync, LoopInv, qsize, queueVars, loopVars,
        timeVars, CountsOK, InferenceError
  <2> QED
    BY <2>1, <2>2, <2>3 DEF ClockInv
<1>24. CASE WarmupDone \/ RaiseError
  <2>1. Rounded'
    BY <1>1, <1>24 DEF Rounded, threadVars, timeVars, PlacesOK, CountsOK, WarmupDone,
        RaiseError
  <2>2. EndOfChunk'
    BY <1>1, <1>3, <1>4, <1>24 DEF EndOfChunk, queueVars, WarmupDone, RaiseError
  <2>3. OnTime'
    BY <1>1, <1>3, <1>4, <1>24 DEF OnTime, InSync, LoopInv, qsize, queueVars, loopVars,
        timeVars, CountsOK, WarmupDone, RaiseError
  <2> QED
    BY <2>1, <2>2, <2>3 DEF ClockInv
<1>25. CASE UnblockWarmup \/ SignalShutdown
  <2>1. Rounded'
    BY <1>1, <1>25 DEF Rounded, threadVars, timeVars, PlacesOK, CountsOK, UnblockWarmup,
        SignalShutdown
  <2>2. EndOfChunk'
    BY <1>1, <1>3, <1>4, <1>25 DEF EndOfChunk, queueVars, UnblockWarmup, SignalShutdown
  <2>3. OnTime'
    BY <1>1, <1>3, <1>4, <1>25 DEF OnTime, InSync, LoopInv, qsize, queueVars, loopVars,
        timeVars, CountsOK, UnblockWarmup, SignalShutdown
  <2> QED
    BY <2>1, <2>2, <2>3 DEF ClockInv
<1>26. CASE ShutdownRequested \/ RTCFinished \/ UNCHANGED rtcVars
  <2>1. Rounded'
    BY <1>1, <1>26 DEF Rounded, threadVars, timeVars, PlacesOK, CountsOK, ShutdownRequested,
        RTCFinished, rtcVars
  <2>2. EndOfChunk'
    BY <1>1, <1>3, <1>4, <1>26 DEF EndOfChunk, queueVars, ShutdownRequested, RTCFinished, rtcVars
  <2>3. OnTime'
    BY <1>1, <1>3, <1>4, <1>26 DEF OnTime, InSync, LoopInv, qsize, queueVars, loopVars,
        timeVars, CountsOK, ShutdownRequested, RTCFinished, rtcVars
  <2> QED
    BY <2>1, <2>2, <2>3 DEF ClockInv
<1> QED
  BY <1>5, <1>6, <1>7, <1>8, <1>9, <1>10, <1>11, <1>12, <1>13, <1>14, <1>15, <1>16, <1>17,
      <1>18, <1>19, <1>20, <1>21, <1>22, <1>23, <1>24, <1>25, <1>26 DEF RTCNext, ControlLoop, Thread

-------------------------------------------------------------------------------
(* Once past its warmup an inference is on time.  A chunk came (primed) only *)
(* while the thread works, or was told to stop.                              *)
Working == rtc \in {"head", "obs", "size", "infer", "merge", "warm"}

WarmInv ==
  /\ rtc = "warm" => use_torch_compile /\ ~ready /\ inference_count >= warmup_required
  /\ use_torch_compile /\ ready /\ rtc \notin {"signal", "ended"} =>
       /\ inference_count >= warmup_required
       /\ rtc = "merge" => inference_count > warmup_required
  /\ rtc = "infer" => inferAge <= MaxLatency \/ IsWarmup(inference_count + 1)
  /\ rtc = "merge" => new_delay <= MaxLatency + 1 \/ IsWarmup(inference_count)

PrimedInv == primed => holder # "none" /\ (Working \/ (rtc = "ended" /\ _shutdown_event))

LEMMA InitWarmInv == RTCInit => WarmInv /\ PrimedInv
  BY DEF RTCInit, WarmInv, PrimedInv

LEMMA NextWarmInv == ThreadInv /\ WarmInv /\ [RTCNext]_rtcVars => WarmInv'
<1> SUFFICES ASSUME ThreadInv, WarmInv, [RTCNext]_rtcVars PROVE WarmInv'
  OBVIOUS
<1>1. /\ FlagsOK /\ PlacesOK /\ CountsOK /\ WarmInv /\ (control = "start" <=> rtc = "off")
      /\ MaxLatency \in Nat /\ warmup_required \in Nat
  BY TypeParts, RTCAssumption DEF ThreadInv
<1>5. CASE Start
  <2>1. (rtc = "warm" => use_torch_compile /\ ~ready /\ inference_count >= warmup_required)'
    BY <1>1, <1>5 DEF WarmInv, IsWarmup, PlacesOK, loopVars, eventVars, threadVars, Start,
        resume
  <2>2. (use_torch_compile /\ ready /\ rtc \notin {"signal", "ended"} =>
          /\ inference_count >= warmup_required
          /\ rtc = "merge" => inference_count > warmup_required)'
    BY <1>1, <1>5 DEF WarmInv, CountsOK, loopVars, eventVars, threadVars, Start, resume
  <2>3. (rtc = "infer" => inferAge <= MaxLatency \/ IsWarmup(inference_count + 1))'
    BY <1>1, <1>5 DEF WarmInv, IsWarmup, CountsOK, loopVars, threadVars, timeVars, Start,
        resume
  <2>4. (rtc = "merge" => new_delay <= MaxLatency + 1 \/ IsWarmup(inference_count))'
    BY <1>1, <1>5 DEF WarmInv, IsWarmup, CountsOK, loopVars, threadVars, Start, resume
  <2> QED
    BY <2>1, <2>2, <2>3, <2>4 DEF WarmInv
<1>6. CASE ResumePolicy \/ ResumeFlushed
  <2>1. (rtc = "warm" => use_torch_compile /\ ~ready /\ inference_count >= warmup_required)'
    BY <1>1, <1>6 DEF WarmInv, IsWarmup, PlacesOK, loopVars, eventVars, threadVars,
        ResumePolicy, ResumeFlushed, resume
  <2>2. (use_torch_compile /\ ready /\ rtc \notin {"signal", "ended"} =>
          /\ inference_count >= warmup_required
          /\ rtc = "merge" => inference_count > warmup_required)'
    BY <1>1, <1>6 DEF WarmInv, CountsOK, loopVars, eventVars, threadVars, ResumePolicy,
        ResumeFlushed, resume
  <2>3. (rtc = "infer" => inferAge <= MaxLatency \/ IsWarmup(inference_count + 1))'
    BY <1>1, <1>6 DEF WarmInv, IsWarmup, CountsOK, loopVars, threadVars, timeVars,
        ResumePolicy, ResumeFlushed, resume
  <2>4. (rtc = "merge" => new_delay <= MaxLatency + 1 \/ IsWarmup(inference_count))'
    BY <1>1, <1>6 DEF WarmInv, IsWarmup, CountsOK, loopVars, threadVars, ResumePolicy,
        ResumeFlushed, resume
  <2> QED
    BY <2>1, <2>2, <2>3, <2>4 DEF WarmInv
<1>7. CASE Notify \/ EndLoop \/ Iterate
  <2>1. (rtc = "warm" => use_torch_compile /\ ~ready /\ inference_count >= warmup_required)'
    BY <1>1, <1>7 DEF WarmInv, IsWarmup, PlacesOK, loopVars, eventVars, threadVars, Notify,
        EndLoop, Iterate
  <2>2. (use_torch_compile /\ ready /\ rtc \notin {"signal", "ended"} =>
          /\ inference_count >= warmup_required
          /\ rtc = "merge" => inference_count > warmup_required)'
    BY <1>1, <1>7 DEF WarmInv, CountsOK, loopVars, eventVars, threadVars, Notify, EndLoop,
        Iterate
  <2>3. (rtc = "infer" => inferAge <= MaxLatency \/ IsWarmup(inference_count + 1))'
    BY <1>1, <1>7 DEF WarmInv, IsWarmup, CountsOK, loopVars, threadVars, timeVars, Notify,
        EndLoop, Iterate
  <2>4. (rtc = "merge" => new_delay <= MaxLatency + 1 \/ IsWarmup(inference_count))'
    BY <1>1, <1>7 DEF WarmInv, IsWarmup, CountsOK, loopVars, threadVars, Notify, EndLoop,
        Iterate
  <2> QED
    BY <2>1, <2>2, <2>3, <2>4 DEF WarmInv
<1>8. CASE IteratePaused
  <2>1. (rtc = "warm" => use_torch_compile /\ ~ready /\ inference_count >= warmup_required)'
    BY <1>1, <1>8 DEF WarmInv, IsWarmup, PlacesOK, loopVars, eventVars, threadVars,
        IteratePaused
  <2>2. (use_torch_compile /\ ready /\ rtc \notin {"signal", "ended"} =>
          /\ inference_count >= warmup_required
          /\ rtc = "merge" => inference_count > warmup_required)'
    BY <1>1, <1>8 DEF WarmInv, CountsOK, loopVars, eventVars, threadVars, IteratePaused
  <2>3. (rtc = "infer" => inferAge <= MaxLatency \/ IsWarmup(inference_count + 1))'
    BY <1>1, <1>8 DEF WarmInv, IsWarmup, CountsOK, loopVars, threadVars, timeVars,
        IteratePaused
  <2>4. (rtc = "merge" => new_delay <= MaxLatency + 1 \/ IsWarmup(inference_count))'
    BY <1>1, <1>8 DEF WarmInv, IsWarmup, CountsOK, loopVars, threadVars, IteratePaused
  <2> QED
    BY <2>1, <2>2, <2>3, <2>4 DEF WarmInv
<1>9. CASE AwaitWarmup
  <2>1. (rtc = "warm" => use_torch_compile /\ ~ready /\ inference_count >= warmup_required)'
    BY <1>1, <1>9 DEF WarmInv, IsWarmup, PlacesOK, loopVars, eventVars, threadVars,
        AwaitWarmup
  <2>2. (use_torch_compile /\ ready /\ rtc \notin {"signal", "ended"} =>
          /\ inference_count >= warmup_required
          /\ rtc = "merge" => inference_count > warmup_required)'
    BY <1>1, <1>9 DEF WarmInv, CountsOK, loopVars, eventVars, threadVars, AwaitWarmup
  <2>3. (rtc = "infer" => inferAge <= MaxLatency \/ IsWarmup(inference_count + 1))'
    BY <1>1, <1>9 DEF WarmInv, IsWarmup, CountsOK, loopVars, threadVars, timeVars,
        AwaitWarmup
  <2>4. (rtc = "merge" => new_delay <= MaxLatency + 1 \/ IsWarmup(inference_count))'
    BY <1>1, <1>9 DEF WarmInv, IsWarmup, CountsOK, loopVars, threadVars, AwaitWarmup
  <2> QED
    BY <2>1, <2>2, <2>3, <2>4 DEF WarmInv
<1>10. CASE AlreadyWarm
  <2>1. (rtc = "warm" => use_torch_compile /\ ~ready /\ inference_count >= warmup_required)'
    BY <1>1, <1>10 DEF WarmInv, IsWarmup, PlacesOK, loopVars, eventVars, threadVars,
        AlreadyWarm
  <2>2. (use_torch_compile /\ ready /\ rtc \notin {"signal", "ended"} =>
          /\ inference_count >= warmup_required
          /\ rtc = "merge" => inference_count > warmup_required)'
    BY <1>1, <1>10 DEF WarmInv, CountsOK, loopVars, eventVars, threadVars, AlreadyWarm
  <2>3. (rtc = "infer" => inferAge <= MaxLatency \/ IsWarmup(inference_count + 1))'
    BY <1>1, <1>10 DEF WarmInv, IsWarmup, CountsOK, loopVars, threadVars, timeVars,
        AlreadyWarm
  <2>4. (rtc = "merge" => new_delay <= MaxLatency + 1 \/ IsWarmup(inference_count))'
    BY <1>1, <1>10 DEF WarmInv, IsWarmup, CountsOK, loopVars, threadVars, AlreadyWarm
  <2> QED
    BY <2>1, <2>2, <2>3, <2>4 DEF WarmInv
<1>11. CASE Perform
  <2>1. (rtc = "warm" => use_torch_compile /\ ~ready /\ inference_count >= warmup_required)'
    BY <1>1, <1>11 DEF WarmInv, IsWarmup, PlacesOK, loopVars, eventVars, threadVars,
        Perform, get_action
  <2>2. (use_torch_compile /\ ready /\ rtc \notin {"signal", "ended"} =>
          /\ inference_count >= warmup_required
          /\ rtc = "merge" => inference_count > warmup_required)'
    BY <1>1, <1>11 DEF WarmInv, CountsOK, loopVars, eventVars, threadVars, Perform,
        get_action
  <2>3. (rtc = "infer" => inferAge <= MaxLatency \/ IsWarmup(inference_count + 1))'
    BY <1>1, <1>11 DEF WarmInv, IsWarmup, CountsOK, loopVars, threadVars, timeVars, Perform,
        get_action
  <2>4. (rtc = "merge" => new_delay <= MaxLatency + 1 \/ IsWarmup(inference_count))'
    BY <1>1, <1>11 DEF WarmInv, IsWarmup, CountsOK, loopVars, threadVars, Perform,
        get_action
  <2> QED
    BY <2>1, <2>2, <2>3, <2>4 DEF WarmInv
<1>12. CASE Starve
  <2>1. (rtc = "warm" => use_torch_compile /\ ~ready /\ inference_count >= warmup_required)'
    BY <1>1, <1>12 DEF WarmInv, IsWarmup, PlacesOK, loopVars, eventVars, threadVars, Starve
  <2>2. (use_torch_compile /\ ready /\ rtc \notin {"signal", "ended"} =>
          /\ inference_count >= warmup_required
          /\ rtc = "merge" => inference_count > warmup_required)'
    BY <1>1, <1>12 DEF WarmInv, CountsOK, loopVars, eventVars, threadVars, Starve
  <2>3. (rtc = "infer" => inferAge <= MaxLatency \/ IsWarmup(inference_count + 1))'
    BY <1>1, <1>12 DEF WarmInv, IsWarmup, CountsOK, loopVars, threadVars, timeVars, Starve
  <2>4. (rtc = "merge" => new_delay <= MaxLatency + 1 \/ IsWarmup(inference_count))'
    BY <1>1, <1>12 DEF WarmInv, IsWarmup, CountsOK, loopVars, threadVars, Starve
  <2> QED
    BY <2>1, <2>2, <2>3, <2>4 DEF WarmInv
<1>13. CASE Join \/ JoinTimesOut
  <2>1. (rtc = "warm" => use_torch_compile /\ ~ready /\ inference_count >= warmup_required)'
    BY <1>1, <1>13 DEF WarmInv, IsWarmup, PlacesOK, loopVars, eventVars, threadVars, Join,
        JoinTimesOut
  <2>2. (use_torch_compile /\ ready /\ rtc \notin {"signal", "ended"} =>
          /\ inference_count >= warmup_required
          /\ rtc = "merge" => inference_count > warmup_required)'
    BY <1>1, <1>13 DEF WarmInv, CountsOK, loopVars, eventVars, threadVars, Join,
        JoinTimesOut
  <2>3. (rtc = "infer" => inferAge <= MaxLatency \/ IsWarmup(inference_count + 1))'
    BY <1>1, <1>13 DEF WarmInv, IsWarmup, CountsOK, loopVars, threadVars, timeVars, Join,
        JoinTimesOut
  <2>4. (rtc = "merge" => new_delay <= MaxLatency + 1 \/ IsWarmup(inference_count))'
    BY <1>1, <1>13 DEF WarmInv, IsWarmup, CountsOK, loopVars, threadVars, Join, JoinTimesOut
  <2> QED
    BY <2>1, <2>2, <2>3, <2>4 DEF WarmInv
<1>14. CASE PausePolicy \/ Stop
  <2>1. (rtc = "warm" => use_torch_compile /\ ~ready /\ inference_count >= warmup_required)'
    BY <1>1, <1>14 DEF WarmInv, IsWarmup, PlacesOK, loopVars, eventVars, threadVars,
        PausePolicy, Stop, pause
  <2>2. (use_torch_compile /\ ready /\ rtc \notin {"signal", "ended"} =>
          /\ inference_count >= warmup_required
          /\ rtc = "merge" => inference_count > warmup_required)'
    BY <1>1, <1>14 DEF WarmInv, CountsOK, loopVars, eventVars, threadVars, PausePolicy,
        Stop, pause
  <2>3. (rtc = "infer" => inferAge <= MaxLatency \/ IsWarmup(inference_count + 1))'
    BY <1>1, <1>14 DEF WarmInv, IsWarmup, CountsOK, loopVars, threadVars, timeVars,
        PausePolicy, Stop, pause
  <2>4. (rtc = "merge" => new_delay <= MaxLatency + 1 \/ IsWarmup(inference_count))'
    BY <1>1, <1>14 DEF WarmInv, IsWarmup, CountsOK, loopVars, threadVars, PausePolicy, Stop,
        pause
  <2> QED
    BY <2>1, <2>2, <2>3, <2>4 DEF WarmInv
<1>15. CASE ResetPolicy \/ FlushWarmup
  <2>1. (rtc = "warm" => use_torch_compile /\ ~ready /\ inference_count >= warmup_required)'
    BY <1>1, <1>15 DEF WarmInv, IsWarmup, PlacesOK, loopVars, eventVars, threadVars,
        ResetPolicy, FlushWarmup, engineReset
  <2>2. (use_torch_compile /\ ready /\ rtc \notin {"signal", "ended"} =>
          /\ inference_count >= warmup_required
          /\ rtc = "merge" => inference_count > warmup_required)'
    BY <1>1, <1>15 DEF WarmInv, CountsOK, loopVars, eventVars, threadVars, ResetPolicy,
        FlushWarmup, engineReset
  <2>3. (rtc = "infer" => inferAge <= MaxLatency \/ IsWarmup(inference_count + 1))'
    BY <1>1, <1>15 DEF WarmInv, IsWarmup, CountsOK, loopVars, threadVars, timeVars,
        ResetPolicy, FlushWarmup, engineReset
  <2>4. (rtc = "merge" => new_delay <= MaxLatency + 1 \/ IsWarmup(inference_count))'
    BY <1>1, <1>15 DEF WarmInv, IsWarmup, CountsOK, loopVars, threadVars, ResetPolicy,
        FlushWarmup, engineReset
  <2> QED
    BY <2>1, <2>2, <2>3, <2>4 DEF WarmInv
<1>16. CASE Sleep
  <2>1. (rtc = "warm" => use_torch_compile /\ ~ready /\ inference_count >= warmup_required)'
    BY <1>1, <1>16 DEF WarmInv, IsWarmup, PlacesOK, loopVars, eventVars, threadVars, Sleep,
        ThreadOnTime, Later
  <2>2. (use_torch_compile /\ ready /\ rtc \notin {"signal", "ended"} =>
          /\ inference_count >= warmup_required
          /\ rtc = "merge" => inference_count > warmup_required)'
    BY <1>1, <1>16 DEF WarmInv, CountsOK, loopVars, eventVars, threadVars, Sleep,
        ThreadOnTime, Later
  <2>3. (rtc = "infer" => inferAge <= MaxLatency \/ IsWarmup(inference_count + 1))'
    BY <1>1, <1>16 DEF WarmInv, IsWarmup, CountsOK, loopVars, threadVars, timeVars, Sleep,
        ThreadOnTime, Later
  <2>4. (rtc = "merge" => new_delay <= MaxLatency + 1 \/ IsWarmup(inference_count))'
    BY <1>1, <1>16 DEF WarmInv, IsWarmup, CountsOK, loopVars, threadVars, Sleep,
        ThreadOnTime, Later
  <2> QED
    BY <2>1, <2>2, <2>3, <2>4 DEF WarmInv
<1>17. CASE HeadExit \/ HeadEnter
  <2>1. (rtc = "warm" => use_torch_compile /\ ~ready /\ inference_count >= warmup_required)'
    BY <1>1, <1>17 DEF WarmInv, IsWarmup, PlacesOK, loopVars, eventVars, threadVars,
        HeadExit, HeadEnter
  <2>2. (use_torch_compile /\ ready /\ rtc \notin {"signal", "ended"} =>
          /\ inference_count >= warmup_required
          /\ rtc = "merge" => inference_count > warmup_required)'
    BY <1>1, <1>17 DEF WarmInv, CountsOK, loopVars, eventVars, threadVars, HeadExit,
        HeadEnter
  <2>3. (rtc = "infer" => inferAge <= MaxLatency \/ IsWarmup(inference_count + 1))'
    BY <1>1, <1>17 DEF WarmInv, IsWarmup, CountsOK, loopVars, threadVars, timeVars,
        HeadExit, HeadEnter
  <2>4. (rtc = "merge" => new_delay <= MaxLatency + 1 \/ IsWarmup(inference_count))'
    BY <1>1, <1>17 DEF WarmInv, IsWarmup, CountsOK, loopVars, threadVars, HeadExit,
        HeadEnter
  <2> QED
    BY <2>1, <2>2, <2>3, <2>4 DEF WarmInv
<1>18. CASE ReadObservation
  <2>1. (rtc = "warm" => use_torch_compile /\ ~ready /\ inference_count >= warmup_required)'
    BY <1>1, <1>18 DEF WarmInv, IsWarmup, PlacesOK, loopVars, eventVars, threadVars,
        ReadObservation
  <2>2. (use_torch_compile /\ ready /\ rtc \notin {"signal", "ended"} =>
          /\ inference_count >= warmup_required
          /\ rtc = "merge" => inference_count > warmup_required)'
    BY <1>1, <1>18 DEF WarmInv, CountsOK, loopVars, eventVars, threadVars, ReadObservation
  <2>3. (rtc = "infer" => inferAge <= MaxLatency \/ IsWarmup(inference_count + 1))'
    BY <1>1, <1>18 DEF WarmInv, IsWarmup, CountsOK, loopVars, threadVars, timeVars,
        ReadObservation
  <2>4. (rtc = "merge" => new_delay <= MaxLatency + 1 \/ IsWarmup(inference_count))'
    BY <1>1, <1>18 DEF WarmInv, IsWarmup, CountsOK, loopVars, threadVars, ReadObservation
  <2> QED
    BY <2>1, <2>2, <2>3, <2>4 DEF WarmInv
<1>19. CASE Retry
  <2>1. (rtc = "warm" => use_torch_compile /\ ~ready /\ inference_count >= warmup_required)'
    BY <1>1, <1>19 DEF WarmInv, IsWarmup, PlacesOK, loopVars, eventVars, threadVars, Retry
  <2>2. (use_torch_compile /\ ready /\ rtc \notin {"signal", "ended"} =>
          /\ inference_count >= warmup_required
          /\ rtc = "merge" => inference_count > warmup_required)'
    BY <1>1, <1>19 DEF WarmInv, CountsOK, loopVars, eventVars, threadVars, Retry
  <2>3. (rtc = "infer" => inferAge <= MaxLatency \/ IsWarmup(inference_count + 1))'
    BY <1>1, <1>19 DEF WarmInv, IsWarmup, CountsOK, loopVars, threadVars, timeVars, Retry
  <2>4. (rtc = "merge" => new_delay <= MaxLatency + 1 \/ IsWarmup(inference_count))'
    BY <1>1, <1>19 DEF WarmInv, IsWarmup, CountsOK, loopVars, threadVars, Retry
  <2> QED
    BY <2>1, <2>2, <2>3, <2>4 DEF WarmInv
<1>20. CASE CheckSize
  <2>1. (rtc = "warm" => use_torch_compile /\ ~ready /\ inference_count >= warmup_required)'
    BY <1>1, <1>20 DEF WarmInv, IsWarmup, PlacesOK, loopVars, eventVars, threadVars,
        CheckSize, qsize
  <2>2. (use_torch_compile /\ ready /\ rtc \notin {"signal", "ended"} =>
          /\ inference_count >= warmup_required
          /\ rtc = "merge" => inference_count > warmup_required)'
    BY <1>1, <1>20 DEF WarmInv, CountsOK, loopVars, eventVars, threadVars, CheckSize, qsize
  <2>3. (rtc = "infer" => inferAge <= MaxLatency \/ IsWarmup(inference_count + 1))'
    BY <1>1, <1>20 DEF WarmInv, IsWarmup, CountsOK, loopVars, threadVars, timeVars,
        CheckSize, qsize
  <2>4. (rtc = "merge" => new_delay <= MaxLatency + 1 \/ IsWarmup(inference_count))'
    BY <1>1, <1>20 DEF WarmInv, IsWarmup, CountsOK, loopVars, threadVars, CheckSize, qsize
  <2> QED
    BY <2>1, <2>2, <2>3, <2>4 DEF WarmInv
<1>21. CASE Infer
  <2>1. (rtc = "warm" => use_torch_compile /\ ~ready /\ inference_count >= warmup_required)'
    BY <1>1, <1>21 DEF WarmInv, IsWarmup, PlacesOK, loopVars, eventVars, threadVars, Infer
  <2>2. (use_torch_compile /\ ready /\ rtc \notin {"signal", "ended"} =>
          /\ inference_count >= warmup_required
          /\ rtc = "merge" => inference_count > warmup_required)'
    BY <1>1, <1>21 DEF WarmInv, CountsOK, loopVars, eventVars, threadVars, Infer
  <2>3. (rtc = "infer" => inferAge <= MaxLatency \/ IsWarmup(inference_count + 1))'
    BY <1>1, <1>21 DEF WarmInv, IsWarmup, CountsOK, loopVars, threadVars, timeVars, Infer
  <2>4. (rtc = "merge" => new_delay <= MaxLatency + 1 \/ IsWarmup(inference_count))'
    BY <1>1, <1>21 DEF WarmInv, IsWarmup, CountsOK, loopVars, threadVars, Infer
  <2> QED
    BY <2>1, <2>2, <2>3, <2>4 DEF WarmInv
<1>22. CASE Merge
  <2>1. (rtc = "warm" => use_torch_compile /\ ~ready /\ inference_count >= warmup_required)'
    BY <1>1, <1>22 DEF WarmInv, IsWarmup, PlacesOK, loopVars, eventVars, threadVars, Merge
  <2>2. (use_torch_compile /\ ready /\ rtc \notin {"signal", "ended"} =>
          /\ inference_count >= warmup_required
          /\ rtc = "merge" => inference_count > warmup_required)'
    BY <1>1, <1>22 DEF WarmInv, CountsOK, loopVars, eventVars, threadVars, Merge
  <2>3. (rtc = "infer" => inferAge <= MaxLatency \/ IsWarmup(inference_count + 1))'
    BY <1>1, <1>22 DEF WarmInv, IsWarmup, CountsOK, loopVars, threadVars, timeVars, Merge
  <2>4. (rtc = "merge" => new_delay <= MaxLatency + 1 \/ IsWarmup(inference_count))'
    BY <1>1, <1>22 DEF WarmInv, IsWarmup, CountsOK, loopVars, threadVars, Merge
  <2> QED
    BY <2>1, <2>2, <2>3, <2>4 DEF WarmInv
<1>23. CASE InferenceError
  <2>1. (rtc = "warm" => use_torch_compile /\ ~ready /\ inference_count >= warmup_required)'
    BY <1>1, <1>23 DEF WarmInv, IsWarmup, PlacesOK, loopVars, eventVars, threadVars,
        InferenceError
  <2>2. (use_torch_compile /\ ready /\ rtc \notin {"signal", "ended"} =>
          /\ inference_count >= warmup_required
          /\ rtc = "merge" => inference_count > warmup_required)'
    BY <1>1, <1>23 DEF WarmInv, CountsOK, loopVars, eventVars, threadVars, InferenceError
  <2>3. (rtc = "infer" => inferAge <= MaxLatency \/ IsWarmup(inference_count + 1))'
    BY <1>1, <1>23 DEF WarmInv, IsWarmup, CountsOK, loopVars, threadVars, timeVars,
        InferenceError
  <2>4. (rtc = "merge" => new_delay <= MaxLatency + 1 \/ IsWarmup(inference_count))'
    BY <1>1, <1>23 DEF WarmInv, IsWarmup, CountsOK, loopVars, threadVars, InferenceError
  <2> QED
    BY <2>1, <2>2, <2>3, <2>4 DEF WarmInv
<1>24. CASE WarmupDone \/ RaiseError
  <2>1. (rtc = "warm" => use_torch_compile /\ ~ready /\ inference_count >= warmup_required)'
    BY <1>1, <1>24 DEF WarmInv, IsWarmup, PlacesOK, loopVars, eventVars, threadVars,
        WarmupDone, RaiseError
  <2>2. (use_torch_compile /\ ready /\ rtc \notin {"signal", "ended"} =>
          /\ inference_count >= warmup_required
          /\ rtc = "merge" => inference_count > warmup_required)'
    BY <1>1, <1>24 DEF WarmInv, CountsOK, loopVars, eventVars, threadVars, WarmupDone,
        RaiseError
  <2>3. (rtc = "infer" => inferAge <= MaxLatency \/ IsWarmup(inference_count + 1))'
    BY <1>1, <1>24 DEF WarmInv, IsWarmup, CountsOK, loopVars, threadVars, timeVars,
        WarmupDone, RaiseError
  <2>4. (rtc = "merge" => new_delay <= MaxLatency + 1 \/ IsWarmup(inference_count))'
    BY <1>1, <1>24 DEF WarmInv, IsWarmup, CountsOK, loopVars, threadVars, WarmupDone,
        RaiseError
  <2> QED
    BY <2>1, <2>2, <2>3, <2>4 DEF WarmInv
<1>25. CASE UnblockWarmup \/ SignalShutdown
  <2>1. (rtc = "warm" => use_torch_compile /\ ~ready /\ inference_count >= warmup_required)'
    BY <1>1, <1>25 DEF WarmInv, IsWarmup, PlacesOK, loopVars, eventVars, threadVars,
        UnblockWarmup, SignalShutdown
  <2>2. (use_torch_compile /\ ready /\ rtc \notin {"signal", "ended"} =>
          /\ inference_count >= warmup_required
          /\ rtc = "merge" => inference_count > warmup_required)'
    BY <1>1, <1>25 DEF WarmInv, CountsOK, loopVars, eventVars, threadVars, UnblockWarmup,
        SignalShutdown
  <2>3. (rtc = "infer" => inferAge <= MaxLatency \/ IsWarmup(inference_count + 1))'
    BY <1>1, <1>25 DEF WarmInv, IsWarmup, CountsOK, loopVars, threadVars, timeVars,
        UnblockWarmup, SignalShutdown
  <2>4. (rtc = "merge" => new_delay <= MaxLatency + 1 \/ IsWarmup(inference_count))'
    BY <1>1, <1>25 DEF WarmInv, IsWarmup, CountsOK, loopVars, threadVars, UnblockWarmup,
        SignalShutdown
  <2> QED
    BY <2>1, <2>2, <2>3, <2>4 DEF WarmInv
<1>26. CASE ShutdownRequested \/ RTCFinished \/ UNCHANGED rtcVars
  <2>1. (rtc = "warm" => use_torch_compile /\ ~ready /\ inference_count >= warmup_required)'
    BY <1>1, <1>26 DEF WarmInv, IsWarmup, PlacesOK, loopVars, eventVars, threadVars,
        ShutdownRequested, RTCFinished, rtcVars
  <2>2. (use_torch_compile /\ ready /\ rtc \notin {"signal", "ended"} =>
          /\ inference_count >= warmup_required
          /\ rtc = "merge" => inference_count > warmup_required)'
    BY <1>1, <1>26 DEF WarmInv, CountsOK, loopVars, eventVars, threadVars, ShutdownRequested,
        RTCFinished, rtcVars
  <2>3. (rtc = "infer" => inferAge <= MaxLatency \/ IsWarmup(inference_count + 1))'
    BY <1>1, <1>26 DEF WarmInv, IsWarmup, CountsOK, loopVars, threadVars, timeVars,
        ShutdownRequested, RTCFinished, rtcVars
  <2>4. (rtc = "merge" => new_delay <= MaxLatency + 1 \/ IsWarmup(inference_count))'
    BY <1>1, <1>26 DEF WarmInv, IsWarmup, CountsOK, loopVars, threadVars, ShutdownRequested,
        RTCFinished, rtcVars
  <2> QED
    BY <2>1, <2>2, <2>3, <2>4 DEF WarmInv
<1> QED
  BY <1>5, <1>6, <1>7, <1>8, <1>9, <1>10, <1>11, <1>12, <1>13, <1>14, <1>15, <1>16, <1>17,
      <1>18, <1>19, <1>20, <1>21, <1>22, <1>23, <1>24, <1>25, <1>26 DEF RTCNext, ControlLoop, Thread

LEMMA NextPrimedInv == ThreadInv /\ LoopInv /\ PrimedInv /\ [RTCNext]_rtcVars => PrimedInv'
<1> SUFFICES ASSUME ThreadInv, LoopInv, PrimedInv, [RTCNext]_rtcVars PROVE PrimedInv'
  OBVIOUS
<1>1. /\ FlagsOK /\ PlacesOK /\ LoopInv /\ PrimedInv /\ (control = "start" <=> rtc = "off")
      /\ rtc = "merge" => holder # "none"
  BY TypeParts DEF ThreadInv
<1>5. CASE Start
  <2>1. PrimedInv'
    BY <1>1, <1>5 DEF PrimedInv, Working, PlacesOK, eventVars, timeVars, LoopInv,
        threadVars, Start, resume
  <2> QED
    BY <2>1 DEF PrimedInv
<1>6. CASE ResumePolicy \/ ResumeFlushed
  <2>1. PrimedInv'
    BY <1>1, <1>6 DEF PrimedInv, Working, PlacesOK, eventVars, timeVars, LoopInv,
        threadVars, ResumePolicy, ResumeFlushed, resume
  <2> QED
    BY <2>1 DEF PrimedInv
<1>7. CASE Notify \/ EndLoop \/ Iterate
  <2>1. PrimedInv'
    BY <1>1, <1>7 DEF PrimedInv, Working, PlacesOK, eventVars, timeVars, LoopInv,
        threadVars, Notify, EndLoop, Iterate
  <2> QED
    BY <2>1 DEF PrimedInv
<1>8. CASE IteratePaused
  <2>1. PrimedInv'
    BY <1>1, <1>8 DEF PrimedInv, Working, PlacesOK, eventVars, timeVars, LoopInv,
        threadVars, IteratePaused
  <2> QED
    BY <2>1 DEF PrimedInv
<1>9. CASE AwaitWarmup
  <2>1. PrimedInv'
    BY <1>1, <1>9 DEF PrimedInv, Working, PlacesOK, eventVars, timeVars, LoopInv,
        threadVars, AwaitWarmup
  <2> QED
    BY <2>1 DEF PrimedInv
<1>10. CASE AlreadyWarm
  <2>1. PrimedInv'
    BY <1>1, <1>10 DEF PrimedInv, Working, PlacesOK, eventVars, timeVars, LoopInv,
        threadVars, AlreadyWarm
  <2> QED
    BY <2>1 DEF PrimedInv
<1>11. CASE Perform
  <2>1. PrimedInv'
    BY <1>1, <1>11 DEF PrimedInv, Working, PlacesOK, eventVars, timeVars, LoopInv,
        threadVars, Perform, get_action
  <2> QED
    BY <2>1 DEF PrimedInv
<1>12. CASE Starve
  <2>1. PrimedInv'
    BY <1>1, <1>12 DEF PrimedInv, Working, PlacesOK, eventVars, timeVars, LoopInv,
        threadVars, Starve
  <2> QED
    BY <2>1 DEF PrimedInv
<1>13. CASE Join \/ JoinTimesOut
  <2>1. PrimedInv'
    BY <1>1, <1>13 DEF PrimedInv, Working, PlacesOK, eventVars, timeVars, LoopInv,
        threadVars, Join, JoinTimesOut
  <2> QED
    BY <2>1 DEF PrimedInv
<1>14. CASE PausePolicy \/ Stop
  <2>1. PrimedInv'
    BY <1>1, <1>14 DEF PrimedInv, Working, PlacesOK, eventVars, timeVars, LoopInv,
        threadVars, PausePolicy, Stop, pause
  <2> QED
    BY <2>1 DEF PrimedInv
<1>15. CASE ResetPolicy \/ FlushWarmup
  <2>1. PrimedInv'
    BY <1>1, <1>15 DEF PrimedInv, Working, PlacesOK, eventVars, timeVars, LoopInv,
        threadVars, ResetPolicy, FlushWarmup, engineReset
  <2> QED
    BY <2>1 DEF PrimedInv
<1>16. CASE Sleep
  <2>1. PrimedInv'
    BY <1>1, <1>16 DEF PrimedInv, Working, PlacesOK, eventVars, timeVars, LoopInv,
        threadVars, Sleep, ThreadOnTime, Later
  <2> QED
    BY <2>1 DEF PrimedInv
<1>17. CASE HeadExit \/ HeadEnter
  <2>1. PrimedInv'
    <3>1. /\ UNCHANGED <<_shutdown_event, primed, holder>>
          /\ rtc' = "obs" \/ (_shutdown_event /\ rtc' = "ended")
      BY <1>17 DEF HeadExit, HeadEnter, eventVars, timeVars
    <3>2. Working' \/ (rtc' = "ended" /\ _shutdown_event')
      BY <3>1 DEF Working
    <3> QED
      BY <1>1, <3>1, <3>2 DEF PrimedInv
  <2> QED
    BY <2>1 DEF PrimedInv
<1>18. CASE ReadObservation
  <2>1. PrimedInv'
    BY <1>1, <1>18 DEF PrimedInv, Working, PlacesOK, eventVars, timeVars, LoopInv,
        threadVars, ReadObservation
  <2> QED
    BY <2>1 DEF PrimedInv
<1>19. CASE Retry
  <2>1. PrimedInv'
    BY <1>1, <1>19 DEF PrimedInv, Working, PlacesOK, eventVars, timeVars, LoopInv,
        threadVars, Retry
  <2> QED
    BY <2>1 DEF PrimedInv
<1>20. CASE CheckSize
  <2>1. PrimedInv'
    BY <1>1, <1>20 DEF PrimedInv, Working, PlacesOK, eventVars, timeVars, LoopInv,
        threadVars, CheckSize, qsize
  <2> QED
    BY <2>1 DEF PrimedInv
<1>21. CASE Infer
  <2>1. PrimedInv'
    BY <1>1, <1>21 DEF PrimedInv, Working, PlacesOK, eventVars, timeVars, LoopInv,
        threadVars, Infer
  <2> QED
    BY <2>1 DEF PrimedInv
<1>22. CASE Merge
  <2>1. PrimedInv'
    BY <1>1, <1>22 DEF PrimedInv, Working, PlacesOK, eventVars, timeVars, LoopInv,
        threadVars, Merge
  <2> QED
    BY <2>1 DEF PrimedInv
<1>23. CASE InferenceError
  <2>1. PrimedInv'
    BY <1>1, <1>23 DEF PrimedInv, Working, PlacesOK, eventVars, timeVars, LoopInv,
        threadVars, InferenceError
  <2> QED
    BY <2>1 DEF PrimedInv
<1>24. CASE WarmupDone \/ RaiseError
  <2>1. PrimedInv'
    BY <1>1, <1>24 DEF PrimedInv, Working, PlacesOK, eventVars, timeVars, LoopInv,
        threadVars, WarmupDone, RaiseError
  <2> QED
    BY <2>1 DEF PrimedInv
<1>25. CASE UnblockWarmup \/ SignalShutdown
  <2>1. PrimedInv'
    BY <1>1, <1>25 DEF PrimedInv, Working, PlacesOK, eventVars, timeVars, LoopInv,
        threadVars, UnblockWarmup, SignalShutdown
  <2> QED
    BY <2>1 DEF PrimedInv
<1>26. CASE ShutdownRequested \/ RTCFinished \/ UNCHANGED rtcVars
  <2>1. PrimedInv'
    BY <1>1, <1>26 DEF PrimedInv, Working, PlacesOK, eventVars, timeVars, LoopInv,
        threadVars, ShutdownRequested, RTCFinished, rtcVars
  <2> QED
    BY <2>1 DEF PrimedInv
<1> QED
  BY <1>5, <1>6, <1>7, <1>8, <1>9, <1>10, <1>11, <1>12, <1>13, <1>14, <1>15, <1>16, <1>17,
      <1>18, <1>19, <1>20, <1>21, <1>22, <1>23, <1>24, <1>25, <1>26 DEF RTCNext, ControlLoop, Thread

-------------------------------------------------------------------------------
(* The threshold is sized for the latency: two ticks may go by between two   *)
(* looks at the queue and one before the merge, and a chunk must last until  *)
(* the next one although its beginning is late when it comes.                *)
EnoughAhead ==
  /\ MaxLatency + 2 <= queue_threshold
  /\ 2 * MaxLatency + 4 <= ChunkSize

\* Whether an action is still to be performed before the next tick.
Due == IF control = "sleep" THEN 0 ELSE 1

(* The queue holds at least the actions that the robot may need until the    *)
(* next merge, counted by how far the thread is from it.                     *)
Fed == primed /\ InSync /\ ~_shutdown_event

Supply ==
  Fed =>
    /\ rtc = "merge" => qsize >= 1 - lag + Due
    /\ rtc = "infer" => qsize >= MaxLatency - inferAge + 1 + Due
    /\ rtc \in {"head", "obs", "size"} => qsize >= MaxLatency + 2 - lag + Due

LEMMA InitSupply == RTCInit => Supply
  BY DEF RTCInit, Supply, Fed

(* What runs in sync is past its warmup.                                     *)
LEMMA InSyncOnTime ==
  ASSUME ThreadInv, LoopInv, WarmInv, InSync
  PROVE  /\ rtc # "warm"
         /\ rtc = "infer" => inferAge <= MaxLatency /\ ~IsWarmup(inference_count + 1)
         /\ rtc = "merge" => new_delay <= MaxLatency + 1 /\ ~IsWarmup(inference_count)
<1>1. FlagsOK /\ CountsOK /\ warmup_required \in Nat
  BY TypeParts, RTCAssumption DEF ThreadInv
<1>2. use_torch_compile => ready
  BY DEF InSync, LoopInv
<1>3. rtc # "warm"
  BY <1>2 DEF WarmInv
<1>4. rtc = "infer" => ~IsWarmup(inference_count + 1)
  BY <1>1, <1>2 DEF WarmInv, IsWarmup, CountsOK
<1>5. rtc = "merge" => ~IsWarmup(inference_count)
  BY <1>1, <1>2 DEF WarmInv, IsWarmup, CountsOK
<1> QED
  BY <1>3, <1>4, <1>5 DEF WarmInv

LEMMA NextSupply ==
  EnoughAhead /\ ThreadInv /\ LeftOverMatchesPlan /\ LoopInv /\ WarmInv /\ PrimedInv /\ Supply
    /\ [RTCNext]_rtcVars => Supply'
<1> SUFFICES ASSUME EnoughAhead, ThreadInv, LeftOverMatchesPlan, LoopInv, WarmInv, PrimedInv,
                    Supply, [RTCNext]_rtcVars
             PROVE  Supply'
  OBVIOUS
<1>1. /\ FlagsOK /\ PlacesOK /\ CountsOK
      /\ MaxLatency \in Nat /\ queue_threshold \in Nat /\ ChunkSize \in Nat
      /\ MaxLatency + 2 <= queue_threshold /\ 2 * MaxLatency + 4 <= ChunkSize
      /\ qsize \in Nat /\ Len(queue) \in Nat /\ last_index \in Nat
      /\ lag \in 0 .. 1 /\ inferAge \in Nat /\ new_delay \in Nat
  BY TypeParts, RTCAssumption
     DEF ThreadInv, EnoughAhead, QueueTypeOK, LeftOverMatchesPlan, qsize, CountsOK
<1>2. UNCHANGED queueVars => qsize' = qsize
  BY DEF qsize, queueVars
<1>3. InSync => /\ rtc # "warm"
                /\ rtc = "infer" => inferAge <= MaxLatency /\ ~IsWarmup(inference_count + 1)
                /\ rtc = "merge" => new_delay <= MaxLatency + 1 /\ ~IsWarmup(inference_count)
  BY InSyncOnTime
<1>4. Due \in 0 .. 1 /\ Due' \in 0 .. 1
  BY DEF Due
\* Steps of the control loop that leave the queue and the clock alone.
<1>5. ASSUME Fed' => Fed, UNCHANGED queueVars, UNCHANGED <<rtc, lag, inferAge>>, Due' <= Due
      PROVE  Supply'
  <2>1. /\ rtc' = rtc /\ lag' = lag /\ inferAge' = inferAge /\ qsize' = qsize
    BY <1>2, <1>5
  <2>2. SUFFICES ASSUME Fed
                 PROVE  /\ rtc = "merge" => qsize >= 1 - lag + Due'
                        /\ rtc = "infer" => qsize >= MaxLatency - inferAge + 1 + Due'
                        /\ rtc \in {"head", "obs", "size"} => qsize >= MaxLatency + 2 - lag + Due'
    BY <1>5, <2>1 DEF Supply
  <2>3. /\ rtc = "merge" => qsize >= 1 - lag + Due
        /\ rtc = "infer" => qsize >= MaxLatency - inferAge + 1 + Due
        /\ rtc \in {"head", "obs", "size"} => qsize >= MaxLatency + 2 - lag + Due
    BY <2>2 DEF Supply
  <2>4. CASE Due' = Due
    BY <2>3, <2>4, Zenon
  <2>5. CASE Due' = 0 /\ Due = 1
    BY <1>1, <2>3, <2>5
  <2> QED
    BY <1>4, <1>5, <2>4, <2>5
<1>6. ASSUME ~Fed' PROVE Supply'
  BY <1>6 DEF Supply
<1>7. CASE ResumePolicy \/ ResumeFlushed
  <2>1. Fed' => Fed
    BY <1>1, <1>7 DEF Fed, InSync, loopVars, eventVars, timeVars, ResumePolicy, ResumeFlushed, resume
  <2>2. UNCHANGED queueVars /\ UNCHANGED <<rtc, lag, inferAge>> /\ Due' <= Due
    BY <1>7 DEF Due, timeVars, ResumePolicy, ResumeFlushed, resume
  <2> QED
    BY <1>5, <2>1, <2>2
<1>8. CASE Notify \/ EndLoop \/ Iterate
  <2>1. Fed' => Fed
    BY <1>1, <1>8 DEF Fed, InSync, loopVars, eventVars, timeVars, Notify, EndLoop, Iterate
  <2>2. UNCHANGED queueVars /\ UNCHANGED <<rtc, lag, inferAge>> /\ Due' <= Due
    BY <1>8 DEF Due, timeVars, Notify, EndLoop, Iterate
  <2> QED
    BY <1>5, <2>1, <2>2
<1>9. CASE IteratePaused \/ AwaitWarmup
  <2>1. Fed' => Fed
    BY <1>1, <1>9 DEF Fed, InSync, loopVars, eventVars, timeVars, IteratePaused, AwaitWarmup
  <2>2. UNCHANGED queueVars /\ UNCHANGED <<rtc, lag, inferAge>> /\ Due' <= Due
    BY <1>9 DEF Due, timeVars, IteratePaused, AwaitWarmup
  <2> QED
    BY <1>5, <2>1, <2>2
<1>10. CASE AlreadyWarm \/ Starve
  <2>1. Fed' => Fed
    BY <1>1, <1>10 DEF Fed, InSync, loopVars, eventVars, timeVars, AlreadyWarm, Starve
  <2>2. UNCHANGED queueVars /\ UNCHANGED <<rtc, lag, inferAge>> /\ Due' <= Due
    BY <1>10 DEF Due, timeVars, AlreadyWarm, Starve
  <2> QED
    BY <1>5, <2>1, <2>2
<1>11. CASE Join \/ JoinTimesOut
  <2>1. Fed' => Fed
    BY <1>1, <1>11 DEF Fed, InSync, loopVars, eventVars, timeVars, Join, JoinTimesOut
  <2>2. UNCHANGED queueVars /\ UNCHANGED <<rtc, lag, inferAge>> /\ Due' <= Due
    BY <1>11 DEF Due, timeVars, Join, JoinTimesOut
  <2> QED
    BY <1>5, <2>1, <2>2
<1>12. CASE ShutdownRequested \/ RTCFinished \/ UNCHANGED rtcVars
  <2>1. Fed' => Fed
    BY <1>1, <1>12 DEF Fed, InSync, loopVars, eventVars, timeVars, ShutdownRequested, RTCFinished, rtcVars
  <2>2. UNCHANGED queueVars /\ UNCHANGED <<rtc, lag, inferAge>> /\ Due' <= Due
    BY <1>12 DEF Due, timeVars, ShutdownRequested, RTCFinished, rtcVars
  <2> QED
    BY <1>5, <2>1, <2>2
<1>13. CASE Start \/ ResetPolicy \/ FlushWarmup
  <2>1. primed' = FALSE
    BY <1>1, <1>13 DEF LoopInv, Start, ResetPolicy, FlushWarmup, timeVars
  <2> QED
    BY <1>6, <2>1 DEF Fed
<1>14. CASE PausePolicy \/ Stop
  <2>1. paused' \/ _shutdown_event'
    BY <1>14 DEF PausePolicy, Stop
  <2> QED
    BY <1>6, <2>1 DEF Fed, InSync
<1>15. CASE InferenceError \/ Retry
  <2>1. ~primed'
    BY <1>15 DEF PrimedInv, Working, InferenceError, Retry, timeVars
  <2> QED
    BY <1>6, <2>1 DEF Fed
<1>16. CASE HeadExit
  <2>1. _shutdown_event'
    BY <1>16 DEF HeadExit, eventVars
  <2> QED
    BY <1>6, <2>1 DEF Fed
<1>17. CASE RaiseError \/ UnblockWarmup \/ SignalShutdown
  <2>1. rtc' \in {"unblock", "signal", "ended"}
    BY <1>17 DEF RaiseError, UnblockWarmup, SignalShutdown
  <2> QED
    BY <2>1 DEF Supply
<1>18. CASE WarmupDone
  <2>1. rtc = "warm" /\ UNCHANGED loopVars
    BY <1>18 DEF WarmupDone
  <2>2. ~InSync'
    BY <1>3, <2>1 DEF InSync, loopVars
  <2> QED
    BY <1>6, <2>2 DEF Fed
<1>19. CASE Perform
  <2>1. /\ qsize' = qsize - 1 /\ Due = 1 /\ Due' = 0
        /\ UNCHANGED <<rtc, lag, inferAge>>
    BY <1>1, <1>19 DEF Perform, get_action, Get, qsize, Due, timeVars
  <2>2. Fed' => Fed
    BY <1>19 DEF Perform, Fed, InSync, loopVars, eventVars, timeVars
  <2> QED
    BY <1>1, <2>1, <2>2 DEF Supply
<1>20. CASE Sleep
  <2>1. control = "sleep" /\ rtc' = rtc /\ qsize' = qsize /\ Due = 0 /\ Due' = 1
    BY <1>2, <1>20 DEF Sleep, Due
  <2>2. Fed' => Fed
    BY <1>20 DEF Sleep, Fed, InSync, loopVars, eventVars
  <2>3. Fed => active /\ ~_shutdown_event
    BY <2>1 DEF Fed, InSync, LoopInv, Running
  <2>4. CASE rtc = "infer"
    <3>1. Fed => inferAge < MaxLatency
      BY <1>3, <1>20, <2>4 DEF Fed, Sleep, ThreadOnTime
    <3>2. Fed => inferAge' = inferAge + 1
      BY <1>1, <1>20, <2>4, <3>1 DEF Sleep, Later
    <3> QED
      BY <1>1, <2>1, <2>2, <2>4, <3>2 DEF Supply
  <2>5. CASE rtc \in {"head", "obs", "size", "merge"}
    <3>1. Fed => lag = 0 /\ lag' = 1
      BY <1>20, <2>3, <2>5 DEF Sleep, ThreadOnTime
    <3> QED
      BY <1>1, <2>1, <2>2, <2>5, <3>1 DEF Supply
  <2> QED
    BY <2>1, <2>4, <2>5 DEF Supply
<1>21. CASE HeadEnter \/ ReadObservation
  <2>1. /\ rtc \in {"head", "obs"} /\ rtc' \in {"head", "obs", "size"} /\ lag' = lag
        /\ qsize' = qsize /\ Due' = Due
    BY <1>2, <1>21 DEF HeadEnter, ReadObservation, timeVars, Due
  <2>2. Fed' => Fed
    BY <1>21 DEF HeadEnter, ReadObservation, Fed, InSync, loopVars, eventVars, timeVars
  <2> QED
    BY <1>1, <2>1, <2>2 DEF Supply
<1>22. CASE CheckSize
  <2>1. /\ rtc = "size" /\ lag' = 0 /\ qsize' = qsize /\ Due' = Due
        /\ \/ rtc' = "infer" /\ inferAge' = 0
           \/ rtc' = "head" /\ qsize > queue_threshold
    BY <1>1, <1>2, <1>22 DEF CheckSize, Due
  <2>2. Fed' => Fed
    BY <1>22 DEF CheckSize, Fed, InSync, loopVars, eventVars
  <2> QED
    BY <1>1, <1>4, <2>1, <2>2 DEF Supply
<1>23. CASE Infer
  <2>1. /\ rtc = "infer" /\ rtc' = "merge" /\ lag' = 0 /\ qsize' = qsize /\ Due' = Due
    BY <1>2, <1>23 DEF Infer, Due
  <2>2. Fed' => Fed
    BY <1>23 DEF Infer, Fed, InSync, loopVars, eventVars
  <2>3. Fed => inferAge <= MaxLatency
    BY <1>3, <2>1 DEF Fed
  <2> QED
    BY <1>1, <1>4, <2>1, <2>2, <2>3 DEF Supply
<1>24. CASE Merge
  <2>1. Fed' => InSync
    BY <1>24 DEF Merge, Fed, InSync, loopVars
  <2>2. InSync => rtc' = "head" /\ new_delay <= MaxLatency + 1
    BY <1>3, <1>24 DEF Merge
  <2>3. lag' = lag /\ last_index' = 0 /\ Len(queue') >= ChunkSize - new_delay
    <3>1. /\ last_index' = 0
          /\ enabled => Len(queue') = IF new_delay < ChunkSize THEN ChunkSize - new_delay ELSE 0
          /\ ~enabled => Len(queue') = qsize + ChunkSize
      BY <1>24, MergedQueue DEF Merge
    <3> QED
      BY <1>1, <1>24, <3>1 DEF Merge
  <2>4. qsize' = Len(queue') - last_index'
    BY DEF qsize
  <2>5. Len(queue') \in Nat
    <3>1. queue' \in Seq(Action)
      BY NextThreadInv, TypeParts DEF ThreadInv, QueueTypeOK
    <3> QED
      BY <3>1
  <2>6. Fed' => rtc' = "head" /\ qsize' \in Nat /\ qsize' >= MaxLatency + 3
    BY <1>1, <2>1, <2>2, <2>3, <2>4, <2>5
  <2> QED
    BY <1>1, <1>4, <2>3, <2>6 DEF Supply
<1> QED
  BY <1>7, <1>8, <1>9, <1>10, <1>11, <1>12, <1>13, <1>14, <1>15, <1>16, <1>17, <1>18, <1>19,
      <1>20, <1>21, <1>22, <1>23, <1>24 DEF RTCNext, ControlLoop, Thread

-------------------------------------------------------------------------------
(* All of it together.                                                       *)
RolloutInv == ThreadInv /\ LeftOverMatchesPlan /\ LoopInv /\ ClockInv /\ WarmInv /\ PrimedInv

LEMMA InitRolloutInv == RTCInit => RolloutInv
  BY InitThreadInv, InitIInv, InitLoopInv, InitClockInv, InitWarmInv
     DEF RolloutInv, IInv, RTCInit

LEMMA NextRolloutInv == RolloutInv /\ [RTCNext]_rtcVars => RolloutInv'
<1> SUFFICES ASSUME RolloutInv, [RTCNext]_rtcVars PROVE RolloutInv'
  OBVIOUS
<1>1. LeftOverMatchesPlan'
  BY RolloutUsesQueue, NextIInv DEF RolloutInv, ThreadInv, RTCTypeOK, IInv
<1> QED
  BY <1>1, NextThreadInv, NextLoopInv, NextClockInv, NextWarmInv, NextPrimedInv
     DEF RolloutInv

LEMMA SpecRolloutInv == RTCSpec => []RolloutInv
  BY InitRolloutInv, NextRolloutInv, PTL DEF RTCSpec

(* The state of the rollout keeps its types, whatever its two threads, the   *)
(* operator and failing inferences do.                                       *)
THEOREM RolloutTypeCorrect == RTCSpec => []RTCTypeOK
<1>1. RolloutInv => RTCTypeOK
  BY DEF RolloutInv, ThreadInv
<1> QED
  BY <1>1, SpecRolloutInv, PTL

(* The prefix for the next inference is what the robot has left to perform,  *)
(* in the rollout as on the queue's own (rtc.py:219-326).                    *)
THEOREM RolloutKeepsLeftOver == RTCSpec => []LeftOverMatchesPlan
<1>1. RolloutInv => LeftOverMatchesPlan
  BY DEF RolloutInv
<1> QED
  BY <1>1, SpecRolloutInv, PTL

(* The control loop and the RTC thread share a plain plan.                   *)
THEOREM RolloutImplementsPlan == RTCSpec => ImplementsPlan
<1>1. RTCInit => QueueInit
  BY DEF RTCInit
<1>2. RolloutInv /\ [RTCNext]_rtcVars => [QueueNext]_queueVars
  BY RolloutUsesQueue DEF RolloutInv
<1> QED
  BY <1>1, <1>2, SpecRolloutInv, QueueImplementsPlan, PTL DEF RTCSpec, QueueSpec

(* The action performed is the one that is due, for every chunk size, delay  *)
(* and interleaving (action_queue.py:178-194).                               *)
LEMMA StepFollowsTime ==
  RolloutInv /\ [RTCNext]_rtcVars =>
    [Perform /\ enabled => NextAction.step \in age - 2 .. age + 1]_rtcVars
<1> SUFFICES ASSUME RolloutInv, Perform, enabled
             PROVE  NextAction.step \in age - 2 .. age + 1
  OBVIOUS
<1>1. /\ queue \in Seq(Action) /\ last_index \in Nat /\ age \in Nat /\ ChunkSize \in Nat
      /\ Len(queue) \in Nat
  BY TypeParts, RTCAssumption DEF RolloutInv, ThreadInv, QueueTypeOK, CountsOK
<1>2. control = "get" /\ last_index < Len(queue) /\ qsize = Len(queue) - last_index
  BY DEF Perform, get_action, Get, qsize
<1>3. NextAction.step = ChunkSize - qsize
  <2>1. last_index + 1 \in 1 .. Len(queue)
    BY <1>1, <1>2
  <2>2. queue[last_index + 1].step = ChunkSize - Len(queue) + (last_index + 1) - 1
    BY <2>1 DEF RolloutInv, ClockInv, EndOfChunk
  <2> QED
    BY <1>1, <1>2, <2>2 DEF NextAction
<1>4. age - (ChunkSize - qsize) \in -1 .. 2
  BY <1>1, <1>2 DEF RolloutInv, LoopInv, ClockInv, OnTime
<1> QED
  BY <1>1, <1>2, <1>3, <1>4

THEOREM RolloutFollowsTime == RTCSpec => PlanFollowsTime
  BY StepFollowsTime, SpecRolloutInv, PTL DEF RTCSpec, PlanFollowsTime

(* With a threshold and a chunk that are large enough for the latency, the   *)
(* robot has an action at every tick (rtc.py:270).                           *)
THEOREM ThresholdSuffices == EnoughAhead => (RTCSpec => NeverStarves)
<1> SUFFICES ASSUME EnoughAhead PROVE RTCSpec => NeverStarves
  OBVIOUS
<1>1. RolloutInv /\ Supply /\ [RTCNext]_rtcVars => Supply'
  BY NextSupply DEF RolloutInv
<1>2. RolloutInv /\ Supply /\ [RTCNext]_rtcVars => [Starve => ~primed]_rtcVars
  <2> SUFFICES ASSUME RolloutInv, Supply, Starve, primed PROVE FALSE
    OBVIOUS
  <2>1. control = "get" /\ qsize = 0 /\ Due = 1
    BY DEF Starve, Due
  <2>2. Fed /\ rtc \in {"head", "obs", "size", "infer", "merge"}
    <3>1. InSync /\ ~_shutdown_event
      BY <2>1 DEF RolloutInv, LoopInv
    <3>2. rtc \in {"head", "obs", "size", "infer", "merge"}
      BY <3>1, InSyncOnTime DEF RolloutInv, PrimedInv, Working
    <3> QED
      BY <3>1, <3>2 DEF Fed
  <2>3. MaxLatency \in Nat /\ lag \in 0 .. 1 /\ inferAge \in Nat
    BY TypeParts, RTCAssumption DEF RolloutInv, ThreadInv, CountsOK
  <2>4. rtc = "infer" => inferAge <= MaxLatency
    BY <2>2, InSyncOnTime DEF RolloutInv, Fed
  <2> QED
    BY <2>1, <2>2, <2>3, <2>4 DEF Supply
<1> QED
  BY <1>1, <1>2, InitSupply, SpecRolloutInv, PTL DEF RTCSpec, NeverStarves

================================================================================
