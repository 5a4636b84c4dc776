----------------------------- MODULE EncoderProofs -----------------------------
(***************************************************************************)
(* Proofs about the streaming video encoder, for any number of cameras,    *)
(* episodes and frames and any bound on the queues: a finished video shows *)
(* what its queue accepted.  The lemmas are about one step; DataProofs     *)
(* turns them into theorems about a recording session.                     *)
(***************************************************************************)
EXTENDS StreamingEncoder, SequenceTheorems, TLAPS

(* The queues are bounded: queue.Queue takes 0 for "no bound"                *)
(* (video_utils.py:770).  The rest are bounds of the model.                  *)
EncoderConstants ==
  /\ queue_maxsize \in Nat \ {0} /\ MaxFrames \in Nat /\ MaxEpisodes \in Nat

-------------------------------------------------------------------------------
(* Sequences.                                                                *)

(* Moving the head of the queue to the end of the video leaves the line of   *)
(* frames as it is.                                                          *)
LEMMA MoveHead ==
  ASSUME NEW v \in Seq(Nat), NEW q \in Seq(Nat), q # <<>>
  PROVE  /\ Head(q) \in Nat /\ Tail(q) \in Seq(Nat) /\ Len(Tail(q)) = Len(q) - 1
         /\ Append(v, Head(q)) \in Seq(Nat)
         /\ Append(v, Head(q)) \o Tail(q) = v \o q
<1>1. Head(q) \in Nat /\ Tail(q) \in Seq(Nat) /\ Len(Tail(q)) = Len(q) - 1
  OBVIOUS
<1>2. Append(v, Head(q)) = v \o <<Head(q)>> /\ <<Head(q)>> \o Tail(q) = q
  BY <1>1
<1>3. (v \o <<Head(q)>>) \o Tail(q) = v \o (<<Head(q)>> \o Tail(q))
  BY <1>1
<1> QED
  BY <1>1, <1>2, <1>3

(* A frame goes to the end of the queue and so to the end of the line.       *)
LEMMA JoinLine ==
  ASSUME NEW v \in Seq(Nat), NEW q \in Seq(Nat), NEW f \in Nat
  PROVE  /\ Append(q, f) \in Seq(Nat) /\ Len(Append(q, f)) = Len(q) + 1
         /\ v \o Append(q, f) = Append(v \o q, f)
<1>1. Append(q, f) \in Seq(Nat) /\ v \o q \in Seq(Nat) /\ Len(Append(q, f)) = Len(q) + 1
  OBVIOUS
<1>2. Append(q, f) = q \o <<f>> /\ Append(v \o q, f) = (v \o q) \o <<f>>
  BY <1>1, AppendIsConcat
<1>3. v \o (q \o <<f>>) = (v \o q) \o <<f>>
  OBVIOUS
<1> QED
  BY <1>1, <1>2, <1>3

(* A sentinel at the head of the queue is the end of the line: everything    *)
(* before it has been encoded.                                               *)
LEMMA SentinelIsLast ==
  ASSUME NEW v \in Seq(Nat), NEW q \in Seq(Nat), NEW a \in Seq(Nat \ {0}),
         q # <<>>, Head(q) = 0, v \o q \in {a, Append(a, 0)}
  PROVE  v = a
<1> DEFINE k == Len(v) + 1
           l == v \o q
<1>1. /\ Len(l) = Len(v) + Len(q) /\ Len(v) \in Nat /\ Len(q) \in Nat /\ Len(q) >= 1
      /\ l[k] = 0 /\ \A i \in 1 .. Len(v) : l[i] = v[i]
  OBVIOUS
<1>2. Len(a) \in Nat /\ \A i \in 1 .. Len(a) : a[i] # 0 /\ a[i] \in Nat
  BY ElementOfSeq
<1>3. /\ Len(Append(a, 0)) = Len(a) + 1
      /\ \A i \in 1 .. Len(a) : Append(a, 0)[i] = a[i]
  OBVIOUS
<1> HIDE DEF l
<1>4. l # a
  BY <1>1, <1>2
<1>5. l = Append(a, 0)
  BY <1>4 DEF l
<1>6. k \notin 1 .. Len(a)
  BY <1>1, <1>2, <1>3, <1>5
<1>7. Len(v) = Len(a)
  BY <1>1, <1>2, <1>3, <1>5, <1>6
<1>8. \A i \in 1 .. Len(v) : v[i] = a[i]
  BY <1>1, <1>3, <1>5, <1>7
<1> QED
  BY <1>7, <1>8

-------------------------------------------------------------------------------
(* The invariant.                                                            *)

Thread == [state : {"none", "run", "ok", "error"}, queue : Seq(Nat), stop : BOOLEAN,
           video : Seq(Nat)]

MainOK ==
  /\ main \in {"ready", "feed", "sentinel", "join", "cancel", "cancelled", "over"}
  /\ todo \subseteq video_keys /\ after \in {"ready", "over"}
  /\ n \in 0 .. MaxFrames /\ episode \in 0 .. MaxEpisodes /\ active \in BOOLEAN
  /\ finished \subseteq Threads

ThreadsOK ==
  /\ threads \in [Threads -> Thread] /\ accepted \in [Threads -> Seq(Nat \ {0})]
  /\ \A t \in Threads : Len(threads[t].queue) <= queue_maxsize

(* An episode is open in the middle of a step, and has a frame.              *)
MainInv ==
  /\ main \in {"feed", "sentinel", "join", "cancel", "cancelled"} => active
  /\ active => episode >= 1 /\ n >= 1 /\ main # "over"

(* A thread of this episode.                                                 *)
Current(t) == t[2] = episode

(* What a thread has encoded and what is still in its queue.                 *)
Line(t) == threads[t].video \o threads[t].queue

(* The episodes to come have no threads.                                     *)
Unheard(t) == t[2] > episode => threads[t] = NotStarted /\ accepted[t] = <<>>

(* A thread that nobody told to stop works for this episode, on everything   *)
(* its queue accepted, and ends with all of it encoded.                      *)
Faithful(t) ==
  ~threads[t].stop =>
    /\ Alive(t) => active /\ Current(t) /\ Line(t) \in {accepted[t], Append(accepted[t], Sentinel)}
    /\ threads[t].state = "ok" => threads[t].video = accepted[t]

(* It may be fed.                                                            *)
Open(t) == ~threads[t].stop /\ (Alive(t) => Line(t) = accepted[t])

(* What the recording thread knows of the threads of this episode.           *)
Stage(t) ==
  /\ main \in {"ready", "feed"} => Open(t)
  /\ main = "sentinel" => ~threads[t].stop /\ (t[1] \in todo => Open(t))
  /\ main = "join" => IF t[1] \in todo THEN ~threads[t].stop ELSE threads[t].stop \/ ~Alive(t)
  /\ main = "cancelled" => threads[t].stop

Kept(t) == t \in finished =>
  threads[t].state = "ok" /\ threads[t].video = accepted[t] /\ t[2] <= episode

ThreadInv(t) == Unheard(t) /\ Faithful(t) /\ Kept(t) /\ (active /\ Current(t) => Stage(t))

EncoderInv == MainOK /\ ThreadsOK /\ MainInv /\ \A t \in Threads : ThreadInv(t)

LEMMA EncoderTypes ==
  ASSUME EncoderInv
  PROVE  TypeOK /\ FinishedIsFed
<1>1. FinishedIsFed
  BY DEF EncoderInv, MainOK, ThreadInv, Kept, FinishedIsFed
<1>2. TypeOK
  BY DEF EncoderInv, MainOK, ThreadsOK, Thread, TypeOK
<1> QED
  BY <1>1, <1>2

LEMMA InitEncoderInv ==
  ASSUME EncoderConstants, Init
  PROVE  EncoderInv
<1>1. NotStarted \in Thread /\ Len(NotStarted.queue) = 0 /\ <<>> \in Seq(Nat \ {0})
  BY DEF NotStarted, Thread
<1>2. \A t \in Threads : threads[t] = NotStarted /\ accepted[t] = <<>>
  BY DEF Init
<1>3. MainOK /\ MainInv
  <2>1. 0 \in 0 .. MaxFrames /\ 0 \in 0 .. MaxEpisodes
    BY DEF EncoderConstants
  <2> QED
    BY <2>1 DEF Init, MainOK, MainInv
<1>4. ThreadsOK
  BY <1>1, <1>2 DEF EncoderConstants, Init, ThreadsOK
<1>5. \A t \in Threads : ThreadInv(t)
  BY <1>2 DEF Init, NotStarted, ThreadInv, Unheard, Faithful, Kept, Alive
<1> QED
  BY <1>3, <1>4, <1>5 DEF EncoderInv

-------------------------------------------------------------------------------
(* The steps of the recording thread.                                        *)

LEMMA PairsOf ==
  ASSUME EncoderInv
  PROVE  /\ \A t \in Threads : t[1] \in video_keys /\ t[2] \in Nat /\ t = <<t[1], t[2]>>
         /\ \A key \in video_keys : Of(key)[1] = key /\ Of(key)[2] = episode
         /\ active => \A key \in video_keys : Of(key) \in Threads
         /\ \A t \in Threads, key \in video_keys : Current(t) /\ t # Of(key) => t[1] # key
         /\ \A t \in Threads, key \in video_keys : t = Of(key) => Current(t) /\ t[1] = key
BY DEF EncoderInv, MainOK, MainInv, Threads, Of, Current

(* The steps that leave the threads alone.                                   *)
QuietStep ==
  \/ FrameFed \/ Save \/ Abandon \/ Close \/ SentinelsSent
  \/ \E key \in video_keys :
       DropFrame(key) \/ FeedRaises(key) \/ JoinRaises(key) \/ CancelJoin(key)

LEMMA QuietInv ==
  ASSUME EncoderInv, QuietStep
  PROVE  EncoderInv'
<1>1. threads' = threads /\ accepted' = accepted /\ finished' = finished /\ n' = n
      /\ episode' = episode /\ active' = active
  BY DEF QuietStep, FrameFed, Save, Abandon, Close, SentinelsSent, DropFrame, FeedRaises, JoinRaises, CancelJoin
<1>2. MainOK' /\ MainInv'
  BY DEF QuietStep, FrameFed, Save, Abandon, Close, SentinelsSent, DropFrame, FeedRaises, JoinRaises,
     CancelJoin, EncoderInv, MainOK, MainInv
<1>3. ThreadsOK'
  BY <1>1 DEF EncoderInv, ThreadsOK
<1>4. ASSUME NEW t \in Threads PROVE ThreadInv(t)'
  <2>1. ThreadInv(t)
    BY DEF EncoderInv
  <2>2. Unheard(t)' /\ Kept(t)'
    BY <1>1, <2>1 DEF ThreadInv, Unheard, Kept
  <2>3. Alive(t)' = Alive(t) /\ Line(t)' = Line(t) /\ Current(t)' = Current(t)
    BY <1>1 DEF Alive, Line, Current
  <2>4. Open(t)' = Open(t)
    BY <1>1, <2>3 DEF Open
  <2>5. Faithful(t)'
    BY <1>1, <2>1, <2>3 DEF ThreadInv, Faithful
  <2>6. ASSUME active, Current(t) PROVE Stage(t)'
    <3>1. Stage(t) /\ t[1] \in video_keys
      BY <2>1, <2>6, PairsOf DEF ThreadInv
    <3>2. CASE main' \in {"ready", "feed"}
      BY <1>1, <2>4, <2>6, <3>1, <3>2 DEF QuietStep, FrameFed, Save, Abandon, Close, SentinelsSent, DropFrame,
         FeedRaises, JoinRaises, CancelJoin, Stage
    <3>3. CASE main' = "sentinel"
      BY <1>1, <2>4, <2>6, <3>1, <3>3 DEF QuietStep, FrameFed, Save, Abandon, Close, SentinelsSent, DropFrame,
         FeedRaises, JoinRaises, CancelJoin, Stage, Open
    <3>4. CASE main' = "join"
      BY <1>1, <2>4, <2>6, <3>1, <3>4 DEF QuietStep, FrameFed, Save, Abandon, Close, SentinelsSent, DropFrame,
         FeedRaises, JoinRaises, CancelJoin, Stage, Open
    <3>5. CASE main' = "cancelled"
      BY <1>1, <2>4, <2>6, <3>1, <3>5 DEF QuietStep, FrameFed, Save, Abandon, Close, SentinelsSent, DropFrame,
         FeedRaises, JoinRaises, CancelJoin, Stage, Open
    <3> QED
      BY <3>2, <3>3, <3>4, <3>5 DEF Stage
  <2> QED
    BY <1>1, <2>2, <2>3, <2>5, <2>6 DEF ThreadInv
<1> QED
  BY <1>2, <1>3, <1>4 DEF EncoderInv

(* A thread that the step does not touch.                                    *)
LEMMA OtherThread ==
  ASSUME EncoderInv, NEW t \in Threads,
         threads'[t] = threads[t], accepted'[t] = accepted[t],
         episode' = episode, active' = active, main' = main,
         Current(t) => (t[1] \in todo' <=> t[1] \in todo),
         t \in finished' <=> t \in finished
  PROVE  ThreadInv(t)'
<1>1. ThreadInv(t)
  BY DEF EncoderInv
<1>2. (Alive(t)' <=> Alive(t)) /\ Line(t)' = Line(t) /\ (Current(t)' <=> Current(t))
  BY DEF Alive, Line, Current
<1>3. Open(t)' <=> Open(t)
  BY <1>2 DEF Open
<1>4. Unheard(t)' /\ Kept(t)'
  BY <1>1 DEF ThreadInv, Unheard, Kept
<1>5. Faithful(t)'
  BY <1>1, <1>2 DEF ThreadInv, Faithful
<1>6. active' /\ Current(t)' => Stage(t)'
  BY <1>1, <1>2, <1>3 DEF ThreadInv, Stage
<1> QED
  BY <1>4, <1>5, <1>6 DEF ThreadInv

(* The thread is open while it is fed.                                       *)
LEMMA FeedInv ==
  ASSUME EncoderConstants, EncoderInv, NEW key \in video_keys, feed_frame(key)
  PROVE  EncoderInv'
<1>0. active
  BY DEF feed_frame, EncoderInv, MainInv
<1>u. PICK u \in Threads : u = Of(key)
  BY <1>0, PairsOf
<1>2. Current(u) /\ u[1] = key
  BY <1>u, PairsOf
<1> DEFINE q == Append(threads[u].queue, n)
<1>1. /\ main = "feed" /\ key \in todo /\ Alive(u) /\ ~Full(u) /\ active
      /\ main' = main /\ after' = after /\ n' = n /\ episode' = episode /\ active' = active
      /\ finished' = finished /\ todo' = todo \ {key}
      /\ n \in Nat \ {0}
  BY <1>0, <1>u DEF feed_frame, EncoderInv, MainInv, MainOK
<1>3. /\ threads \in [Threads -> Thread] /\ threads[u] \in Thread
      /\ accepted \in [Threads -> Seq(Nat \ {0})] /\ accepted[u] \in Seq(Nat \ {0})
  BY <1>2 DEF EncoderInv, ThreadsOK
<1>4. q \in Seq(Nat) /\ Len(q) = Len(threads[u].queue) + 1
      /\ threads[u].video \o q = Append(Line(u), n)
  <2>1. threads[u].queue \in Seq(Nat) /\ threads[u].video \in Seq(Nat)
    BY <1>3 DEF Thread
  <2>2. n \in Nat
    BY <1>1
  <2> QED
    BY <2>1, <2>2, JoinLine, Zenon DEF Line
<1>5. /\ threads' = [threads EXCEPT ![u].queue = q]
      /\ accepted' = [accepted EXCEPT ![u] = Append(accepted[u], n)]
  BY <1>u DEF feed_frame
<1> HIDE DEF q
<1>6. /\ threads'[u] = [threads[u] EXCEPT !.queue = q]
      /\ accepted'[u] = Append(accepted[u], n)
      /\ \A t \in Threads \ {u} : threads'[t] = threads[t] /\ accepted'[t] = accepted[t]
  BY <1>2, <1>3, <1>5
<1>7. /\ threads'[u].queue = q /\ threads'[u].video = threads[u].video
      /\ threads'[u].state = threads[u].state /\ threads'[u].stop = threads[u].stop
      /\ threads'[u] \in Thread
  BY <1>3, <1>4, <1>6 DEF Thread
<1>8. MainOK' /\ MainInv'
  BY <1>1 DEF EncoderInv, MainOK, MainInv
<1>9. ThreadsOK'
  <2>1. accepted'[u] \in Seq(Nat \ {0})
    BY <1>1, <1>3, <1>6
  <2>2. Len(q) <= queue_maxsize
    <3>1. Len(threads[u].queue) \in Nat /\ ~(Len(threads[u].queue) >= queue_maxsize)
      BY <1>1, <1>3 DEF Thread, Full
    <3>2. Len(threads[u].queue) + 1 <= queue_maxsize
      BY <3>1 DEF EncoderConstants
    <3> QED
      BY <1>4, <3>2
  <2>3. threads' \in [Threads -> Thread] /\ accepted' \in [Threads -> Seq(Nat \ {0})]
    BY <1>3, <1>5, <1>6, <1>7, <2>1
  <2> QED
    BY <1>6, <1>7, <2>2, <2>3 DEF EncoderInv, ThreadsOK
<1>10. ThreadInv(u)'
  <2>1. ThreadInv(u) /\ Stage(u)
    BY <1>1, <1>2 DEF EncoderInv, ThreadInv
  <2>2. ~threads[u].stop /\ Line(u) = accepted[u]
    BY <1>1, <2>1 DEF Stage, Open
  <2>3. Line(u)' = accepted'[u] /\ ~threads'[u].stop
    BY <1>4, <1>6, <1>7, <2>2 DEF Line
  <2>4. threads'[u].state = "run"
    BY <1>1, <1>7 DEF Alive
  <2>5. Unheard(u)' /\ Kept(u)'
    <3>1. ~(u[2] > episode)
      BY <1>2, PairsOf DEF Current, EncoderInv, MainOK
    <3>2. u \notin finished
      BY <2>1, <1>1 DEF ThreadInv, Kept, Alive
    <3> QED
      BY <1>1, <3>1, <3>2 DEF Unheard, Kept
  <2>6. Faithful(u)'
    BY <1>1, <1>2, <2>3, <2>4 DEF Faithful, Current
  <2>7. Stage(u)'
    BY <1>1, <2>3 DEF Stage, Open
  <2> QED
    BY <2>5, <2>6, <2>7 DEF ThreadInv
<1>11. ASSUME NEW t \in Threads, t # u PROVE ThreadInv(t)'
  <2>1. Current(t) => t[1] # key
    BY <1>u, <1>11, PairsOf
  <2> QED
    BY <1>1, <1>6, <1>11, <2>1, OtherThread
<1> QED
  BY <1>8, <1>9, <1>10, <1>11 DEF EncoderInv

(* The sentinel follows the frames of an open thread.                        *)
LEMMA PutSentinelInv ==
  ASSUME EncoderConstants, EncoderInv, NEW key \in video_keys, PutSentinel(key)
  PROVE  EncoderInv'
<1>0. active
  BY DEF PutSentinel, EncoderInv, MainInv
<1>u. PICK u \in Threads : u = Of(key)
  BY <1>0, PairsOf
<1>2. Current(u) /\ u[1] = key
  BY <1>u, PairsOf
<1> DEFINE q == Append(threads[u].queue, Sentinel)
<1>1. /\ main = "sentinel" /\ key \in todo /\ ~Full(u) /\ active
      /\ main' = main /\ after' = after /\ n' = n /\ episode' = episode /\ active' = active
      /\ finished' = finished /\ todo' = todo \ {key} /\ accepted' = accepted
  BY <1>0, <1>u DEF PutSentinel, EncoderInv, MainInv, MainOK
<1>3. threads \in [Threads -> Thread] /\ threads[u] \in Thread
  BY <1>2 DEF EncoderInv, ThreadsOK
<1>4. q \in Seq(Nat) /\ Len(q) = Len(threads[u].queue) + 1
      /\ threads[u].video \o q = Append(Line(u), Sentinel)
  <2>1. threads[u].queue \in Seq(Nat) /\ threads[u].video \in Seq(Nat)
    BY <1>3 DEF Thread
  <2>2. Sentinel \in Nat
    BY DEF Sentinel
  <2> QED
    BY <2>1, <2>2, JoinLine, Zenon DEF Line
<1>5. threads' = [threads EXCEPT ![u].queue = q]
  BY <1>u DEF PutSentinel
<1> HIDE DEF q
<1>6. /\ threads'[u] = [threads[u] EXCEPT !.queue = q]
      /\ \A t \in Threads \ {u} : threads'[t] = threads[t]
  BY <1>2, <1>3, <1>5
<1>7. /\ threads'[u].queue = q /\ threads'[u].video = threads[u].video
      /\ threads'[u].state = threads[u].state /\ threads'[u].stop = threads[u].stop
      /\ threads'[u] \in Thread
  BY <1>3, <1>4, <1>6 DEF Thread
<1>8. MainOK' /\ MainInv'
  BY <1>1 DEF EncoderInv, MainOK, MainInv
<1>9. ThreadsOK'
  <2>2. Len(q) <= queue_maxsize
    <3>1. Len(threads[u].queue) \in Nat /\ ~(Len(threads[u].queue) >= queue_maxsize)
      BY <1>1, <1>3 DEF Thread, Full
    <3>2. Len(threads[u].queue) + 1 <= queue_maxsize
      BY <3>1 DEF EncoderConstants
    <3> QED
      BY <1>4, <3>2
  <2>3. threads' \in [Threads -> Thread]
    BY <1>3, <1>5, <1>6, <1>7
  <2> QED
    BY <1>1, <1>6, <1>7, <2>2, <2>3 DEF EncoderInv, ThreadsOK
<1>10. ThreadInv(u)'
  <2>1. ThreadInv(u) /\ Stage(u) /\ ~threads[u].stop /\ Open(u)
    BY <1>1, <1>2 DEF EncoderInv, ThreadInv, Stage
  <2>2. Alive(u) => Line(u)' = Append(accepted[u], Sentinel)
    BY <1>4, <1>7, <2>1 DEF Line, Open
  <2>3. (Alive(u)' <=> Alive(u)) /\ ~threads'[u].stop
    BY <1>7, <2>1 DEF Alive
  <2>4. Unheard(u)' /\ Kept(u)'
    <3>1. ~(u[2] > episode)
      BY <1>2, PairsOf DEF Current, EncoderInv, MainOK
    <3> QED
      BY <1>1, <1>7, <2>1, <3>1 DEF ThreadInv, Unheard, Kept
  <2>5. Faithful(u)'
    BY <1>1, <1>2, <1>7, <2>1, <2>2, <2>3 DEF ThreadInv, Faithful, Current
  <2>6. Stage(u)'
    BY <1>1, <1>2, <2>3 DEF Stage
  <2> QED
    BY <2>4, <2>5, <2>6 DEF ThreadInv
<1>11. ASSUME NEW t \in Threads, t # u PROVE ThreadInv(t)'
  <2>1. Current(t) => t[1] # key
    BY <1>u, <1>11, PairsOf
  <2> QED
    BY <1>1, <1>6, <1>11, <2>1, OtherThread
<1> QED
  BY <1>8, <1>9, <1>10, <1>11 DEF EncoderInv

(* A joined thread has encoded all it was given; a late one is stopped.      *)
LEMMA JoinInv ==
  ASSUME EncoderConstants, EncoderInv, NEW key \in video_keys, Join(key) \/ JoinTimesOut(key)
  PROVE  EncoderInv'
<1>0. active
  BY DEF Join, JoinTimesOut, EncoderInv, MainInv
<1>u. PICK u \in Threads : u = Of(key)
  BY <1>0, PairsOf
<1>2. Current(u) /\ u[1] = key
  BY <1>u, PairsOf
<1>1. /\ main = "join" /\ key \in todo /\ active
      /\ main' = main /\ after' = after /\ n' = n /\ episode' = episode /\ active' = active
      /\ todo' = todo \ {key} /\ accepted' = accepted
  BY <1>0, <1>u DEF Join, JoinTimesOut, EncoderInv, MainInv, MainOK
<1>3. threads \in [Threads -> Thread] /\ threads[u] \in Thread
  BY <1>2 DEF EncoderInv, ThreadsOK
<1>4. ThreadInv(u) /\ ~threads[u].stop
  BY <1>1, <1>2 DEF EncoderInv, ThreadInv, Stage
<1>5. u[2] \in Nat /\ ~(u[2] > episode) /\ u[2] <= episode /\ episode \in Nat
  BY <1>2, PairsOf DEF Current, EncoderInv, MainOK
<1>6. /\ finished' \subseteq finished \cup {u} /\ finished \subseteq finished'
      /\ threads'[u].state = threads[u].state /\ threads'[u].video = threads[u].video
      /\ threads'[u].queue = threads[u].queue /\ threads'[u] \in Thread
      /\ threads' \in [Threads -> Thread]
      /\ \A t \in Threads \ {u} : threads'[t] = threads[t]
      /\ u \in finished' => threads[u].state = "ok" /\ threads[u].video = accepted[u]
      /\ threads'[u].stop \/ ~Alive(u)
  <2>1. CASE Join(key)
    <3>1. /\ finished' = finished \cup {u} /\ threads' = threads /\ threads[u].state = "ok"
      BY <1>u, <2>1 DEF Join
    <3>2. threads[u].video = accepted[u]
      BY <1>4, <3>1 DEF ThreadInv, Faithful
    <3> QED
      BY <1>3, <3>1, <3>2 DEF Alive
  <2>2. CASE JoinTimesOut(key)
    <3>0. threads' = [threads EXCEPT ![u] = [threads[u] EXCEPT !.stop = TRUE]] /\ finished' = finished
      BY <1>u, <1>3, <2>2 DEF JoinTimesOut
    <3>1. threads'[u] = [threads[u] EXCEPT !.stop = TRUE]
      BY <1>3, <3>0
    <3>2. \A t \in Threads \ {u} : threads'[t] = threads[t]
      BY <1>3, <3>0
    <3>3. threads'[u] \in Thread /\ threads' \in [Threads -> Thread]
      BY <1>3, <3>0 DEF Thread
    <3>4. /\ threads'[u].state = threads[u].state /\ threads'[u].video = threads[u].video
          /\ threads'[u].queue = threads[u].queue /\ threads'[u].stop
      BY <1>3, <3>1 DEF Thread
    <3> QED
      BY <1>4, <3>0, <3>2, <3>3, <3>4 DEF ThreadInv, Kept
  <2> QED
    BY <2>1, <2>2
<1>7. MainOK' /\ MainInv'
  BY <1>1, <1>2, <1>6 DEF EncoderInv, MainOK, MainInv
<1>8. ThreadsOK'
  BY <1>1, <1>2, <1>6 DEF EncoderInv, ThreadsOK
<1>9. ThreadInv(u)'
  <2>1. Unheard(u)' /\ Kept(u)'
    BY <1>1, <1>5, <1>6 DEF Unheard, Kept
  <2>2. (Alive(u)' <=> Alive(u)) /\ Line(u)' = Line(u) /\ (Current(u)' <=> Current(u))
    BY <1>1, <1>6 DEF Alive, Line, Current
  <2>3. Faithful(u)'
    BY <1>1, <1>4, <1>6, <2>2 DEF ThreadInv, Faithful
  <2>4. Stage(u)'
    BY <1>1, <1>2, <1>6, <2>2 DEF Stage
  <2> QED
    BY <2>1, <2>3, <2>4 DEF ThreadInv
<1>10. ASSUME NEW t \in Threads, t # u PROVE ThreadInv(t)'
  <2>1. Current(t) => t[1] # key
    BY <1>u, <1>10, PairsOf
  <2> QED
    BY <1>1, <1>6, <1>10, <2>1, OtherThread
<1> QED
  BY <1>7, <1>8, <1>9, <1>10 DEF EncoderInv

(* The first frame of an episode finds no thread at work that was not told   *)
(* to stop, and starts new ones.                                             *)
LEMMA AddFrameInv ==
  ASSUME EncoderConstants, EncoderInv, AddFrame
  PROVE  EncoderInv'
<1>1. /\ main = "ready" /\ main' = "feed" /\ n' = n + 1 /\ n < MaxFrames /\ todo' = video_keys
      /\ after' = after /\ accepted' = accepted /\ finished' = finished
  BY DEF AddFrame
<1>2. n \in Nat /\ n' \in 0 .. MaxFrames /\ n' >= 1 /\ episode \in 0 .. MaxEpisodes
  BY <1>1 DEF EncoderConstants, EncoderInv, MainOK
<1>3. CASE active
  <2>1. episode' = episode /\ active' /\ active' \in BOOLEAN /\ threads' = threads
    BY <1>3 DEF AddFrame, EncoderInv, MainOK
  <2>2. MainOK' /\ MainInv' /\ ThreadsOK'
    BY <1>1, <1>2, <1>3, <2>1 DEF EncoderInv, MainOK, MainInv, ThreadsOK
  <2>3. ASSUME NEW t \in Threads PROVE ThreadInv(t)'
    <3>1. ThreadInv(t)
      BY DEF EncoderInv
    <3>2. (Alive(t)' <=> Alive(t)) /\ Line(t)' = Line(t) /\ (Current(t)' <=> Current(t))
      BY <1>1, <2>1 DEF Alive, Line, Current
    <3>3. Open(t)' <=> Open(t)
      BY <1>1, <2>1, <3>2 DEF Open
    <3>4. Unheard(t)' /\ Kept(t)'
      BY <1>1, <2>1, <3>1 DEF ThreadInv, Unheard, Kept
    <3>5. Faithful(t)'
      BY <1>1, <1>3, <2>1, <3>1, <3>2 DEF ThreadInv, Faithful
    <3>6. Current(t)' => Stage(t)'
      BY <1>1, <1>3, <3>1, <3>2, <3>3 DEF ThreadInv, Stage
    <3> QED
      BY <3>4, <3>5, <3>6 DEF ThreadInv
  <2> QED
    BY <2>2, <2>3 DEF EncoderInv
<1>4. CASE ~active
  <2> DEFINE fresh == [NotStarted EXCEPT !.state = "run"]
  <2>1. /\ episode' = episode + 1 /\ active' /\ active' \in BOOLEAN /\ episode < MaxEpisodes
        /\ threads' = [t \in Threads |-> IF t[2] = episode + 1 THEN fresh ELSE threads[t]]
    BY <1>4 DEF AddFrame
  <2>2. episode' \in 0 .. MaxEpisodes /\ episode' >= 1
    BY <1>2, <2>1 DEF EncoderConstants
  <2>3. /\ fresh.state = "run" /\ fresh.queue = <<>> /\ fresh.video = <<>> /\ ~fresh.stop
        /\ fresh \in Thread /\ Len(fresh.queue) = 0 /\ fresh.video \o fresh.queue = <<>>
    <3>1. /\ fresh.state = "run" /\ fresh.queue = <<>> /\ fresh.video = <<>> /\ ~fresh.stop
      BY DEF NotStarted
    <3>2. <<>> \in Seq(Nat) /\ Len(<<>>) = 0 /\ <<>> \o <<>> = <<>>
      OBVIOUS
    <3>3. NotStarted \in Thread
      BY <3>2 DEF NotStarted, Thread
    <3>4. fresh \in Thread
      BY <3>3 DEF Thread
    <3> HIDE DEF fresh
    <3> QED
      BY <3>1, <3>2, <3>4
  <2> HIDE DEF fresh
  <2>4. \A t \in Threads : threads'[t] = IF t[2] = episode + 1 THEN fresh ELSE threads[t]
    BY <2>1
  <2>5. MainOK' /\ MainInv'
    BY <1>1, <1>2, <2>1, <2>2 DEF EncoderInv, MainOK, MainInv
  <2>6. ThreadsOK'
    <3>1. \A t \in Threads : threads'[t] \in Thread /\ Len(threads'[t].queue) <= queue_maxsize
      <4>1. ASSUME NEW t \in Threads
            PROVE  threads'[t] \in Thread /\ Len(threads'[t].queue) <= queue_maxsize
        <5>1. threads[t] \in Thread /\ Len(threads[t].queue) <= queue_maxsize
          BY DEF EncoderInv, ThreadsOK
        <5>2. Len(fresh.queue) <= queue_maxsize
          BY <2>3 DEF EncoderConstants
        <5>3. threads'[t] = fresh \/ threads'[t] = threads[t]
          BY <2>4
        <5> QED
          BY <2>3, <5>1, <5>2, <5>3
      <4> QED
        BY <4>1
    <3>2. threads' \in [Threads -> Thread]
      BY <2>1, <2>4, <3>1
    <3> QED
      BY <1>1, <3>1, <3>2 DEF EncoderInv, ThreadsOK
  <2>7. ASSUME NEW t \in Threads, t[2] = episode + 1 PROVE ThreadInv(t)'
    <3>1. threads'[t] = fresh
      BY <2>4, <2>7
    <3>2. accepted[t] = <<>> /\ t \notin finished
      BY <1>2, <2>7 DEF EncoderInv, ThreadInv, Unheard, Kept
    <3>3. Line(t)' = <<>> /\ ~threads'[t].stop /\ threads'[t].state = "run" /\ accepted'[t] = <<>>
      BY <1>1, <2>3, <3>1, <3>2 DEF Line
    <3>4. Unheard(t)' /\ Kept(t)'
      BY <1>1, <1>2, <2>1, <2>7, <3>2 DEF Unheard, Kept
    <3>5. Faithful(t)'
      BY <2>1, <2>7, <3>3 DEF Faithful, Current
    <3>6. Stage(t)'
      BY <1>1, <3>3 DEF Stage, Open
    <3> QED
      BY <3>4, <3>5, <3>6 DEF ThreadInv
  <2>8. ASSUME NEW t \in Threads, t[2] # episode + 1 PROVE ThreadInv(t)'
    <3>1. threads'[t] = threads[t] /\ accepted'[t] = accepted[t]
      BY <1>1, <2>4, <2>8
    <3>2. ThreadInv(t) /\ t[2] \in Nat
      BY PairsOf DEF EncoderInv
    <3>3. Unheard(t)' /\ Kept(t)'
      BY <1>1, <1>2, <2>1, <3>1, <3>2 DEF ThreadInv, Unheard, Kept
    <3>4. Faithful(t)'
      BY <1>4, <3>1, <3>2 DEF ThreadInv, Faithful, Alive
    <3>5. ~Current(t)'
      BY <2>1, <2>8 DEF Current
    <3> QED
      BY <3>3, <3>4, <3>5 DEF ThreadInv
  <2> QED
    BY <2>5, <2>6, <2>7, <2>8 DEF EncoderInv
<1> QED
  BY <1>3, <1>4

(* When the queues are emptied, the threads of the episode are over or were  *)
(* told to stop: no video that counts loses a frame.                         *)
LEMMA CleanupInv ==
  ASSUME EncoderConstants, EncoderInv, EpisodeFinished \/ EpisodeCancelled
  PROVE  EncoderInv'
<1>1. /\ active /\ todo = {} /\ main \in {"join", "cancelled"} /\ main' \in {"ready", "over"}
      /\ threads' = Cleanup /\ active' = FALSE /\ todo' = todo /\ after' = after /\ n' = n
      /\ episode' = episode /\ accepted' = accepted /\ finished' = finished
  BY DEF EpisodeFinished, EpisodeCancelled, EncoderInv, MainOK, MainInv
<1>2. MainOK' /\ MainInv'
  BY <1>1 DEF EncoderInv, MainOK, MainInv
<1>3. \A t \in Threads : threads'[t] = IF t[2] = episode THEN [threads[t] EXCEPT !.queue = <<>>]
                                       ELSE threads[t]
  BY <1>1 DEF Cleanup
<1>4. ASSUME NEW t \in Threads
      PROVE  /\ threads'[t] \in Thread /\ threads'[t].stop = threads[t].stop
             /\ threads'[t].state = threads[t].state /\ threads'[t].video = threads[t].video
             /\ Len(threads'[t].queue) <= queue_maxsize
             /\ t[2] # episode => threads'[t] = threads[t]
  <2>1. threads[t] \in Thread /\ Len(threads[t].queue) <= queue_maxsize
    BY DEF EncoderInv, ThreadsOK
  <2>2. CASE t[2] = episode
    <3>1. threads'[t] = [threads[t] EXCEPT !.queue = <<>>]
      BY <1>3, <2>2
    <3>2. threads'[t].queue = <<>> /\ <<>> \in Seq(Nat)
      BY <2>1, <3>1 DEF Thread
    <3>3. Len(threads'[t].queue) = 0
      BY <3>2
    <3>4. Len(threads'[t].queue) <= queue_maxsize
      BY <3>3 DEF EncoderConstants
    <3> QED
      BY <2>1, <2>2, <3>1, <3>2, <3>4 DEF Thread
  <2>3. CASE t[2] # episode
    BY <1>3, <2>1, <2>3
  <2> QED
    BY <2>2, <2>3
<1>5. ThreadsOK'
  <2>1. threads' \in [Threads -> Thread]
    BY <1>1, <1>4 DEF Cleanup
  <2> QED
    BY <1>1, <1>4, <2>1 DEF EncoderInv, ThreadsOK
<1>6. ASSUME NEW t \in Threads PROVE ThreadInv(t)'
  <2>1. ThreadInv(t) /\ t[1] \in video_keys /\ t[2] \in Nat /\ episode \in Nat
    BY PairsOf DEF EncoderInv, MainOK
  <2>2. Unheard(t)' /\ Kept(t)'
    BY <1>1, <1>4, <2>1 DEF ThreadInv, Unheard, Kept
  <2>3. threads[t].stop \/ ~Alive(t)
    BY <1>1, <2>1 DEF ThreadInv, Faithful, Stage
  <2>4. Faithful(t)'
    BY <1>1, <1>4, <2>1, <2>3 DEF ThreadInv, Faithful, Alive
  <2> QED
    BY <1>1, <2>2, <2>4 DEF ThreadInv
<1> QED
  BY <1>2, <1>5, <1>6 DEF EncoderInv

(* A stopped thread owes nothing more.                                       *)
LEMMA SignalStopInv ==
  ASSUME EncoderConstants, EncoderInv, SignalStop
  PROVE  EncoderInv'
<1>1. /\ active /\ main' = "cancelled" /\ todo' = video_keys /\ active' = active /\ after' = after
      /\ n' = n /\ episode' = episode /\ accepted' = accepted /\ finished' = finished
      /\ threads' = [t \in Threads |-> IF t[2] = episode THEN [threads[t] EXCEPT !.stop = TRUE]
                                       ELSE threads[t]]
  BY DEF SignalStop, EncoderInv, MainOK, MainInv
<1>2. MainOK' /\ MainInv'
  BY <1>1 DEF EncoderInv, MainOK, MainInv
<1>3. ASSUME NEW t \in Threads
      PROVE  /\ threads'[t] \in Thread /\ threads'[t].queue = threads[t].queue
             /\ threads'[t].state = threads[t].state /\ threads'[t].video = threads[t].video
             /\ t[2] = episode => threads'[t].stop
             /\ t[2] # episode => threads'[t] = threads[t]
  <2>1. threads[t] \in Thread
    BY DEF EncoderInv, ThreadsOK
  <2>2. CASE t[2] = episode
    <3>1. threads'[t] = [threads[t] EXCEPT !.stop = TRUE]
      BY <1>1, <2>2
    <3> QED
      BY <2>1, <2>2, <3>1 DEF Thread
  <2>3. CASE t[2] # episode
    BY <1>1, <2>1, <2>3
  <2> QED
    BY <2>2, <2>3
<1>4. ThreadsOK'
  <2>1. threads' \in [Threads -> Thread]
    BY <1>1, <1>3
  <2> QED
    BY <1>1, <1>3, <2>1 DEF EncoderInv, ThreadsOK
<1>5. ASSUME NEW t \in Threads PROVE ThreadInv(t)'
  <2>1. ThreadInv(t) /\ t[2] \in Nat /\ episode \in Nat
    BY PairsOf DEF EncoderInv, MainOK
  <2>2. Unheard(t)' /\ Kept(t)'
    BY <1>1, <1>3, <2>1 DEF ThreadInv, Unheard, Kept
  <2>3. CASE t[2] = episode
    BY <1>1, <1>3, <2>2, <2>3 DEF ThreadInv, Faithful, Stage
  <2>4. CASE t[2] # episode
    <3>1. ~Current(t)' /\ ~Current(t)
      BY <1>1, <2>4 DEF Current
    <3>2. Faithful(t)'
      BY <1>1, <1>3, <2>1, <2>4, <3>1 DEF ThreadInv, Faithful, Alive
    <3> QED
      BY <2>2, <3>1, <3>2 DEF ThreadInv
  <2> QED
    BY <2>3, <2>4
<1> QED
  BY <1>2, <1>4, <1>5 DEF EncoderInv

-------------------------------------------------------------------------------
(* The steps of an encoder thread.                                           *)

(* A thread that stays at work keeps its line, and one that ends well and    *)
(* was not told to stop has encoded what it was given.                       *)
LEMMA OneThread ==
  ASSUME EncoderInv, NEW u \in Threads, Alive(u), NEW r \in Thread,
         threads' = [threads EXCEPT ![u] = r],
         Len(r.queue) <= queue_maxsize, r.stop = threads[u].stop,
         r.state = "run" => r.video \o r.queue = Line(u),
         r.state = "ok" /\ ~r.stop => r.video = accepted[u],
         UNCHANGED <<mainVars, accepted, finished>>
  PROVE  EncoderInv'
<1>1. /\ main' = main /\ todo' = todo /\ after' = after /\ n' = n /\ episode' = episode
      /\ active' = active /\ accepted' = accepted /\ finished' = finished
  BY DEF mainVars
<1>2. /\ threads \in [Threads -> Thread] /\ threads'[u] = r
      /\ \A t \in Threads \ {u} : threads'[t] = threads[t]
      /\ threads' \in [Threads -> Thread]
  BY DEF EncoderInv, ThreadsOK
<1>3. MainOK' /\ MainInv'
  BY <1>1 DEF EncoderInv, MainOK, MainInv
<1>4. ThreadsOK'
  BY <1>1, <1>2 DEF EncoderInv, ThreadsOK
<1>5. ThreadInv(u)'
  <2>1. ThreadInv(u) /\ threads[u].state = "run"
    BY DEF EncoderInv, Alive
  <2>2. Unheard(u)' /\ Kept(u)'
    <3>1. ~(u[2] > episode)
      BY <2>1 DEF ThreadInv, Unheard, NotStarted
    <3>2. u \notin finished
      BY <2>1 DEF ThreadInv, Kept
    <3> QED
      BY <1>1, <3>1, <3>2 DEF Unheard, Kept
  <2>3. /\ Alive(u)' => Line(u)' = Line(u)
        /\ Current(u)' <=> Current(u)
    BY <1>1, <1>2 DEF Alive, Line, Current
  <2>4. Faithful(u)'
    BY <1>1, <1>2, <2>1, <2>3 DEF ThreadInv, Faithful
  <2>5. Open(u) => Open(u)'
    BY <1>1, <1>2, <2>1, <2>3 DEF Open, Alive
  <2>6. active' /\ Current(u)' => Stage(u)'
    BY <1>1, <1>2, <2>1, <2>3, <2>5 DEF ThreadInv, Stage, Alive
  <2> QED
    BY <2>2, <2>4, <2>6 DEF ThreadInv
<1>6. ASSUME NEW t \in Threads, t # u PROVE ThreadInv(t)'
  BY <1>1, <1>2, <1>6, OtherThread
<1> QED
  BY <1>3, <1>4, <1>5, <1>6 DEF EncoderInv

LEMMA ThreadStepInv ==
  ASSUME EncoderConstants, EncoderInv, NEW u \in Threads, Encoder(u)
  PROVE  EncoderInv'
<1>1. Alive(u) /\ UNCHANGED <<mainVars, accepted, finished>>
  BY DEF Encoder, Encode, EncodeFails, SeeStop
<1>2. threads \in [Threads -> Thread] /\ threads[u] \in Thread
  BY DEF EncoderInv, ThreadsOK
<1>3. /\ threads[u].video \in Seq(Nat) /\ threads[u].queue \in Seq(Nat)
      /\ Len(threads[u].queue) <= queue_maxsize /\ Len(threads[u].queue) \in Nat
      /\ accepted[u] \in Seq(Nat \ {0}) /\ threads[u].state = "run"
  BY <1>1, <1>2 DEF EncoderInv, ThreadsOK, Thread, Alive
<1>4. ThreadInv(u) /\ (~threads[u].stop => Line(u) \in {accepted[u], Append(accepted[u], Sentinel)})
  BY <1>1 DEF EncoderInv, ThreadInv, Faithful
<1>5. ASSUME threads[u].queue # <<>>
      PROVE  /\ Head(threads[u].queue) \in Nat /\ Tail(threads[u].queue) \in Seq(Nat)
             /\ Len(Tail(threads[u].queue)) <= queue_maxsize
             /\ Append(threads[u].video, Head(threads[u].queue)) \in Seq(Nat)
             /\ Append(threads[u].video, Head(threads[u].queue)) \o Tail(threads[u].queue) = Line(u)
  <2>1. /\ Head(threads[u].queue) \in Nat /\ Tail(threads[u].queue) \in Seq(Nat)
        /\ Len(Tail(threads[u].queue)) = Len(threads[u].queue) - 1
        /\ Append(threads[u].video, Head(threads[u].queue)) \in Seq(Nat)
        /\ Append(threads[u].video, Head(threads[u].queue)) \o Tail(threads[u].queue)
             = threads[u].video \o threads[u].queue
    BY <1>3, <1>5, MoveHead, Zenon
  <2>2. Len(Tail(threads[u].queue)) <= queue_maxsize
    BY <1>3, <2>1 DEF EncoderConstants
  <2> QED
    BY <2>1, <2>2, Zenon DEF Line
<1>6. CASE SeeStop(u)
  <2>1. PICK r : r = [threads[u] EXCEPT !.state = "ok"]
    OBVIOUS
  <2>2. threads' = [threads EXCEPT ![u] = r] /\ threads[u].stop
    BY <1>2, <1>6, <2>1 DEF SeeStop
  <2>3. /\ r \in Thread /\ r.queue = threads[u].queue /\ r.stop = threads[u].stop
        /\ r.state = "ok"
    BY <1>2, <2>1 DEF Thread
  <2> QED
    BY <1>1, <1>3, <2>2, <2>3, OneThread
<1>7. CASE EncodeFails(u)
  <2>1. PICK r : r = [threads[u] EXCEPT !.queue = Tail(threads[u].queue), !.state = "error"]
    OBVIOUS
  <2>2. threads' = [threads EXCEPT ![u] = r] /\ threads[u].queue # <<>>
    BY <1>2, <1>7, <2>1 DEF EncodeFails
  <2>3. /\ r \in Thread /\ r.queue = Tail(threads[u].queue) /\ r.stop = threads[u].stop
        /\ r.state = "error"
    BY <1>2, <1>5, <2>1, <2>2 DEF Thread
  <2> QED
    BY <1>1, <1>5, <2>2, <2>3, OneThread
<1>8. CASE Encode(u) /\ Head(threads[u].queue) = Sentinel
  <2>1. PICK r : r = [threads[u] EXCEPT !.queue = Tail(threads[u].queue), !.state = "ok"]
    OBVIOUS
  <2>2. threads' = [threads EXCEPT ![u] = r] /\ threads[u].queue # <<>>
    BY <1>2, <1>8, <2>1 DEF Encode
  <2>3. /\ r \in Thread /\ r.queue = Tail(threads[u].queue) /\ r.stop = threads[u].stop
        /\ r.state = "ok" /\ r.video = threads[u].video
    BY <1>2, <1>5, <2>1, <2>2 DEF Thread
  <2>4. ~threads[u].stop => threads[u].video = accepted[u]
    BY <1>3, <1>4, <1>8, <2>2, SentinelIsLast DEF Line, Sentinel
  <2> QED
    BY <1>1, <1>5, <2>2, <2>3, <2>4, OneThread
<1>9. CASE Encode(u) /\ Head(threads[u].queue) # Sentinel
  <2>1. PICK r : r = [threads[u] EXCEPT !.queue = Tail(threads[u].queue),
                                        !.video = Append(threads[u].video, Head(threads[u].queue))]
    OBVIOUS
  <2>2. threads' = [threads EXCEPT ![u] = r] /\ threads[u].queue # <<>>
    BY <1>2, <1>9, <2>1 DEF Encode
  <2>3. /\ r \in Thread /\ r.queue = Tail(threads[u].queue) /\ r.stop = threads[u].stop
        /\ r.state = "run" /\ r.video = Append(threads[u].video, Head(threads[u].queue))
    BY <1>2, <1>3, <1>5, <2>1, <2>2 DEF Thread
  <2> QED
    BY <1>1, <1>5, <2>2, <2>3, OneThread
<1> QED
  BY <1>6, <1>7, <1>8, <1>9 DEF Encoder

-------------------------------------------------------------------------------
LEMMA NextEncoderInv ==
  ASSUME EncoderConstants, EncoderInv, [Next]_vars
  PROVE  EncoderInv'
<1>1. CASE Main
  <2>1. CASE AddFrame
    BY <2>1, AddFrameInv
  <2>2. CASE EpisodeFinished \/ EpisodeCancelled
    BY <2>2, CleanupInv
  <2>3. CASE SignalStop
    BY <2>3, SignalStopInv
  <2>4. CASE QuietStep
    BY <2>4, QuietInv
  <2>5. CASE \E key \in video_keys : feed_frame(key)
    BY <2>5, FeedInv
  <2>6. CASE \E key \in video_keys : PutSentinel(key)
    BY <2>6, PutSentinelInv
  <2>7. CASE \E key \in video_keys : Join(key) \/ JoinTimesOut(key)
    BY <2>7, JoinInv
  <2> QED
    BY <1>1, <2>1, <2>2, <2>3, <2>4, <2>5, <2>6, <2>7 DEF Main, QuietStep
<1>2. CASE \E t \in Threads : Encoder(t)
  BY <1>2, ThreadStepInv
<1>3. CASE UNCHANGED vars
  <2>1. /\ main' = main /\ todo' = todo /\ after' = after /\ n' = n /\ episode' = episode
        /\ active' = active /\ accepted' = accepted /\ finished' = finished /\ threads' = threads
    BY <1>3 DEF vars, mainVars
  <2>2. MainOK' /\ MainInv' /\ ThreadsOK'
    BY <2>1 DEF EncoderInv, MainOK, MainInv, ThreadsOK
  <2>3. ASSUME NEW t \in Threads PROVE ThreadInv(t)'
    BY <2>1, OtherThread
  <2> QED
    BY <2>2, <2>3 DEF EncoderInv
<1> QED
  BY <1>1, <1>2, <1>3 DEF Next

================================================================================
