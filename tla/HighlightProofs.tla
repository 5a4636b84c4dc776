--------------------------- MODULE HighlightProofs ---------------------------
(***************************************************************************)
(* What Highlight's steps preserve: its types, the newest frames in the    *)
(* ring although its estimate drifts, episodes that are stretches of the   *)
(* rollout, nothing unsaved and a complete Hub at the end; for any limits  *)
(* of the ring and any number of frames and key presses.                   *)
(* StrategiesProofs turns this into theorems about a session.              *)
(***************************************************************************)
EXTENDS Highlight, SequenceTheorems, TLAPS

(* A ring has room for a frame, and a frame has a size (ring_buffer.py:112). *)
HighlightConstants ==
  /\ max_frames \in Nat \ {0} /\ max_bytes \in Nat /\ frame_bytes \in Nat \ {0}
  /\ MaxSaves \in Nat /\ MaxPushes \in Nat

-------------------------------------------------------------------------------
(* The `size' frames up to the newest.                                       *)
Stretch(newest, size) == [i \in 1 .. size |-> newest - size + i]

LEMMA StretchType ==
  ASSUME NEW newest \in Nat, NEW size \in 0 .. newest
  PROVE  Stretch(newest, size) \in Seq(1 .. newest) /\ Len(Stretch(newest, size)) = size
<1>1. \A i \in 1 .. size : newest - size + i \in 1 .. newest
  OBVIOUS
<1> QED
  BY <1>1 DEF Stretch

LEMMA StretchOfFrames ==
  ASSUME NEW newest \in 0 .. MaxFrames, NEW size \in 0 .. newest
  PROVE  Stretch(newest, size) \in Seq(Frames)
<1>1. \A i \in 1 .. size : newest - size + i \in Frames
  BY PushAssumption DEF Frames
<1>2. size \in Nat
  BY PushAssumption
<1> QED
  BY <1>1, <1>2 DEF Stretch

LEMMA StretchEmpty ==
  ASSUME NEW newest \in Nat
  PROVE  Stretch(newest, 0) = <<>>
<1>1. Stretch(newest, 0) \in Seq(1 .. newest) /\ Len(Stretch(newest, 0)) = 0
  BY StretchType
<1> QED
  BY <1>1

LEMMA StretchAppend ==
  ASSUME NEW newest \in Nat, NEW size \in 0 .. newest
  PROVE  Append(Stretch(newest, size), newest + 1) = Stretch(newest + 1, size + 1)
<1> DEFINE s == Stretch(newest, size)
           t == Stretch(newest + 1, size + 1)
<1>1. s \in Seq(1 .. newest) /\ Len(s) = size
  BY StretchType
<1>2. t \in Seq(1 .. newest + 1) /\ Len(t) = size + 1
  BY StretchType
<1>3. ASSUME NEW i \in 1 .. size + 1
      PROVE  Append(s, newest + 1)[i] = t[i]
  <2>1. CASE i = size + 1
    BY <1>1, <2>1 DEF Stretch
  <2>2. CASE i \in 1 .. size
    <3>1. Append(s, newest + 1)[i] = s[i]
      BY <1>1, <2>2
    <3> QED
      BY <2>2, <3>1 DEF Stretch
  <2>3. i = size + 1 \/ i \in 1 .. size
    BY <1>3
  <2> HIDE DEF s, t
  <2> QED
    BY <2>1, <2>2, <2>3
<1> HIDE DEF s, t
<1>4. Append(s, newest + 1) \in Seq(Nat) /\ Len(Append(s, newest + 1)) = size + 1
  BY <1>1
<1>5. t \in Seq(Nat)
  BY <1>2
<1>6. Append(s, newest + 1) = t
  BY <1>2, <1>3, <1>4, <1>5, SeqEqual
<1> QED
  BY <1>6 DEF s, t

(* Without its oldest frame, or its frame 0 before the first, it is shorter. *)
LEMMA StretchTail ==
  ASSUME NEW newest \in Nat, NEW size \in 1 .. newest
  PROVE  /\ Tail(Stretch(newest, size)) = Stretch(newest, size - 1)
         /\ SubSeq(Stretch(newest, size), 2, size) = Stretch(newest, size - 1)
<1> DEFINE s == Stretch(newest, size)
           t == Stretch(newest, size - 1)
<1>1. s \in Seq(1 .. newest) /\ Len(s) = size
  BY StretchType
<1>2. t \in Seq(1 .. newest) /\ Len(t) = size - 1
  BY StretchType
<1>3. \A i \in 1 .. size - 1 : t[i] = s[i + 1]
  BY DEF Stretch
<1> HIDE DEF s, t
<1>4. Tail(s) \in Seq(1 .. newest) /\ Len(Tail(s)) = size - 1
      /\ \A i \in 1 .. size - 1 : Tail(s)[i] = s[i + 1]
  BY <1>1
<1>5. Tail(s) = t
  BY <1>2, <1>3, <1>4
<1>6. SubSeq(s, 2, size) = t
  <2>1. /\ SubSeq(s, 2, size) \in Seq(1 .. newest) /\ Len(SubSeq(s, 2, size)) = size - 1
        /\ \A i \in 1 .. size - 1 : SubSeq(s, 2, size)[i] = s[i + 1]
    BY <1>1
  <2> QED
    BY <1>2, <1>3, <2>1, SeqEqual
<1> QED
  BY <1>5, <1>6 DEF s, t

LEMMA StretchIsConsecutive ==
  ASSUME NEW newest \in Nat, NEW size \in 0 .. newest
  PROVE  Consecutive(Stretch(newest, size))
<1>1. Len(Stretch(newest, size)) = size
  BY StretchType
<1> QED
  BY <1>1 DEF Consecutive, Stretch

-------------------------------------------------------------------------------
(* How many frames the memory limit has room for: the arithmetic behind the  *)
(* loop of append().                                                         *)
LEMMA FitsBytes ==
  ASSUME NEW size \in Nat \ {0}, NEW limit \in Nat, NEW x \in Int
  PROVE  x * size <= limit <=> x <= limit \div size
<1> DEFINE q == limit \div size
<1>1. q \in Nat /\ q * size <= limit /\ limit < q * size + size
  OBVIOUS
<1> HIDE DEF q
<1>2. CASE x <= q
  <2>1. (q - x) * size >= 0
    BY <1>1, <1>2
  <2>2. (q - x) * size = q * size - x * size
    BY <1>1
  <2> QED
    BY <1>1, <1>2, <2>1, <2>2 DEF q
<1>3. CASE x > q
  <2>1. (x - q - 1) * size >= 0
    BY <1>1, <1>3
  <2>2. (x - q - 1) * size = x * size - q * size - size
    BY <1>1
  <2> QED
    BY <1>1, <1>3, <2>1, <2>2 DEF q
<1> QED
  BY <1>1, <1>2, <1>3


-------------------------------------------------------------------------------
(* The ring.  The estimate counts at least the frames that are there; it     *)
(* stops at the memory limit, and until the ring is full it is exact.        *)
InBytes  == max_bytes \div frame_bytes
Room     == AtLeast(1, InBytes)
Capacity == AtLeast(1, AtMost(max_frames, InBytes))

EstimateIs(c) ==
  /\ current_bytes = c * frame_bytes
  /\ Len(ring) <= c
  /\ Len(ring) < Capacity => c = Len(ring)

RingInv ==
  /\ appended \in 0 .. max_frames
  /\ Len(ring) = AtMost(appended, Capacity)
  /\ \E c \in 0 .. Room : EstimateIs(c)

LEMMA RoomAndCapacity ==
  ASSUME HighlightConstants
  PROVE  /\ InBytes \in Nat /\ Room \in Nat \ {0} /\ Capacity \in 1 .. max_frames
         /\ Capacity <= Room /\ (Capacity = max_frames \/ Capacity = Room)
         /\ (InBytes = Room \/ (InBytes = 0 /\ Room = 1 /\ Capacity = 1))
<1>1. InBytes \in Nat
  BY DEF HighlightConstants, InBytes
<1> QED
  BY <1>1 DEF HighlightConstants, Room, Capacity, AtLeast, AtMost

LEMMA RingInitInv ==
  ASSUME HighlightConstants, ring = <<>>, current_bytes = 0, appended = 0
  PROVE  RingInv
<1>1. 0 \in 0 .. Room /\ Capacity \in 1 .. max_frames /\ max_frames \in Nat
  BY RoomAndCapacity DEF HighlightConstants
<1>2. EstimateIs(0)
  BY DEF EstimateIs, HighlightConstants
<1> QED
  BY <1>1, <1>2 DEF RingInv, AtMost

(* The loop of append() pops one frame when the estimate is at the limit,    *)
(* and none before.                                                          *)
LEMMA EvictionsAre ==
  ASSUME HighlightConstants, NEW c \in 0 .. Room, EstimateIs(c), Len(ring) \in 0 .. Capacity
  PROVE  Evictions = IF c = Room THEN 1 ELSE 0
<1>0. /\ InBytes \in Nat /\ Room \in Nat \ {0} /\ Capacity \in 1 .. max_frames
      /\ Capacity <= Room
      /\ (InBytes = Room \/ (InBytes = 0 /\ Room = 1 /\ Capacity = 1))
      /\ max_frames \in Nat /\ frame_bytes \in Nat \ {0} /\ max_bytes \in Nat
      /\ Len(ring) \in 0 .. Capacity
  BY RoomAndCapacity DEF HighlightConstants
<1> DEFINE fits(k) == current_bytes - k * frame_bytes + frame_bytes <= max_bytes
           stops(k) == /\ fits(k) \/ k = Len(ring)
                       /\ \A j \in 0 .. k - 1 : ~fits(j)
           size == IF c = Room THEN 1 ELSE 0
<1>1. ASSUME NEW k \in Int
      PROVE  fits(k) <=> c - k + 1 <= InBytes
  <2>1. current_bytes - k * frame_bytes + frame_bytes = (c - k + 1) * frame_bytes
    BY <1>0 DEF EstimateIs
  <2>2. c - k + 1 \in Int
    BY <1>0
  <2> QED
    BY <1>0, <2>1, <2>2, FitsBytes DEF InBytes
<1>2. Len(ring) >= 1 \/ c < Room
  BY <1>0 DEF EstimateIs
<1> HIDE DEF fits
<1>3. size \in 0 .. Len(ring) /\ stops(size)
  <2>1. CASE c = Room
    <3>1. ~fits(0)
      BY <1>0, <1>1, <2>1
    <3>2. fits(1) \/ 1 = Len(ring)
      <4>1. fits(1) <=> c <= InBytes
        BY <1>0, <1>1
      <4>2. c <= InBytes \/ 1 = Len(ring)
        BY <1>0, <1>2, <2>1
      <4> QED
        BY <4>1, <4>2
    <3> QED
      BY <1>2, <2>1, <3>1, <3>2
  <2>2. CASE c # Room
    <3>1. fits(0) \/ 0 = Len(ring)
      BY <1>0, <1>1, <2>2 DEF EstimateIs
    <3> QED
      BY <2>2, <3>1
  <2> QED
    BY <2>1, <2>2
<1> HIDE DEF size
<1>4. ASSUME NEW k \in 0 .. Len(ring), stops(k)
      PROVE  k = size
  <2>1. k \in Int /\ Len(ring) \in Int
    BY <1>0
  <2>2. ~(k < size)
    BY <1>0, <1>3, <1>4, <2>1
  <2>3. ~(size < k)
    BY <1>0, <1>3, <1>4, <2>1
  <2>4. size \in Int
    BY <1>3, <2>1
  <2> QED
    BY <2>1, <2>2, <2>3, <2>4
<1>5. Evictions = CHOOSE k \in 0 .. Len(ring) : stops(k)
  BY DEF Evictions, fits
<1> HIDE DEF stops
<1>6. (CHOOSE k \in 0 .. Len(ring) : stops(k)) = size
  BY <1>3, <1>4, Zenon
<1> QED
  BY <1>5, <1>6 DEF size


(* append() keeps the newest frames: one more until the ring is full, and    *)
(* then as many as before, whichever of the two limits evicts.               *)
LEMMA RingAppend ==
  ASSUME HighlightConstants, RingInv, NEW newest \in Nat, Len(ring) <= newest,
         ring = Stretch(newest, Len(ring)), append(newest + 1)
  PROVE  /\ RingInv' /\ ring' = Stretch(newest + 1, Len(ring')) /\ Len(ring') \in Nat
         /\ Len(ring') <= Len(ring) + 1
<1> DEFINE size == Len(ring)
           k    == Evictions
           new  == IF size = Capacity THEN size ELSE size + 1
<1>0. /\ Room \in Nat \ {0} /\ Capacity \in 1 .. max_frames /\ Capacity <= Room
      /\ (Capacity = max_frames \/ Capacity = Room)
      /\ max_frames \in Nat \ {0} /\ frame_bytes \in Nat \ {0} /\ max_bytes \in Nat
  BY RoomAndCapacity DEF HighlightConstants
<1>1. appended \in 0 .. max_frames /\ size = AtMost(appended, Capacity)
      /\ size \in 0 .. Capacity
  BY <1>0 DEF RingInv, AtMost
<1>2. PICK c \in 0 .. Room : EstimateIs(c)
  BY DEF RingInv
<1>3. k = IF c = Room THEN 1 ELSE 0
  BY <1>1, <1>2, EvictionsAre
<1>4. size <= c /\ (size < Capacity => c = size) /\ current_bytes = c * frame_bytes
  BY <1>2 DEF EstimateIs
<1> DEFINE rest == SubSeq(ring, k + 1, size)
<1>5. /\ ring' = DequeAppend(rest, newest + 1)
      /\ current_bytes' = current_bytes - k * frame_bytes + frame_bytes
      /\ appended' = IF appended < max_frames THEN appended + 1 ELSE appended
  BY DEF append
<1>6. ring \in Seq(1 .. newest) /\ size \in 0 .. newest
  BY <1>1, StretchType
<1>7. k \in {0, 1} /\ (k = 1 => size = Capacity) /\ (k = 0 => size < Capacity \/ size = max_frames)
      /\ size - k \in 0 .. newest
  BY <1>0, <1>1, <1>3, <1>4, <1>6
<1> HIDE DEF size, k
<1>8. rest = Stretch(newest, size - k)
  <2>1. CASE k = 0
    <3>1. SubSeq(ring, 1, size) = ring
      BY <1>6 DEF size
    <3>2. size - k = size /\ k + 1 = 1
      BY <1>6, <2>1
    <3> QED
      BY <3>1, <3>2 DEF size
  <2>2. CASE k = 1
    <3>1. size \in 1 .. newest
      BY <1>6, <1>7, <2>2
    <3>2. SubSeq(Stretch(newest, size), 2, size) = Stretch(newest, size - 1)
      BY <3>1, StretchTail
    <3> QED
      BY <2>2, <3>2 DEF size
  <2> QED
    BY <1>7, <2>1, <2>2
<1>9. ring' = Stretch(newest + 1, new)
  <2>1. Len(rest) = size - k
    BY <1>7, <1>8, StretchType
  <2>2. CASE size - k = max_frames
    <3>1. k = 0 /\ size = Capacity /\ size = max_frames
      BY <1>0, <1>1, <1>7, <2>2
    <3>2. ring' = Append(Tail(Stretch(newest, size)), newest + 1)
      BY <1>5, <1>8, <2>1, <2>2, <3>1 DEF DequeAppend
    <3>3. size \in 1 .. newest /\ size - 1 \in 0 .. newest /\ size - 1 + 1 = size
      BY <1>0, <1>6, <3>1
    <3>4. Tail(Stretch(newest, size)) = Stretch(newest, size - 1)
      BY <3>3, StretchTail
    <3>5. Append(Stretch(newest, size - 1), newest + 1) = Stretch(newest + 1, size)
      BY <3>3, StretchAppend
    <3> QED
      BY <3>1, <3>2, <3>4, <3>5
  <2>3. CASE size - k # max_frames
    <3>1. ring' = Append(Stretch(newest, size - k), newest + 1)
      BY <1>5, <1>8, <2>1, <2>3 DEF DequeAppend
    <3>2. new = size - k + 1
      BY <1>0, <1>1, <1>7, <2>3
    <3> HIDE DEF new
    <3>3. Append(Stretch(newest, size - k), newest + 1) = Stretch(newest + 1, size - k + 1)
      BY <1>7, StretchAppend
    <3> QED
      BY <3>1, <3>2, <3>3
  <2> QED
    BY <2>2, <2>3
<1>10. new \in 0 .. newest + 1 /\ new \in Nat /\ new <= size + 1
  BY <1>0, <1>1, <1>6
<1>11. Len(ring') = new
  <2> HIDE DEF new
  <2> QED
    BY <1>9, <1>10, StretchType
<1>12. RingInv'
  <2>1. appended' \in 0 .. max_frames /\ new = AtMost(appended', Capacity)
    BY <1>0, <1>1, <1>5 DEF AtMost
  <2>2. c - k + 1 \in 0 .. Room /\ new <= c - k + 1
        /\ (new < Capacity => c - k + 1 = new)
    BY <1>0, <1>1, <1>3, <1>4, <1>7
  <2>3. current_bytes' = (c - k + 1) * frame_bytes
    <3>1. c \in Int /\ frame_bytes \in Int
      BY <1>0
    <3>2. c * frame_bytes - k * frame_bytes + frame_bytes = (c - k + 1) * frame_bytes
      BY <1>7, <3>1
    <3> QED
      BY <1>4, <1>5, <3>2
  <2> HIDE DEF new
  <2>4. PICK d \in 0 .. Room : d = c - k + 1
    BY <2>2
  <2>5. EstimateIs(d)'
    BY <1>11, <2>2, <2>3, <2>4 DEF EstimateIs, Capacity, InBytes
  <2> QED
    BY <1>11, <2>1, <2>4, <2>5 DEF RingInv, Room, Capacity, InBytes
<1> QED
  BY <1>9, <1>10, <1>11, <1>12 DEF size


-------------------------------------------------------------------------------
(* The frames of a session: the ring and the episode under way end with the  *)
(* newest frame, and all saved episodes come before them.                    *)
LastFrame(e) == saved[e][Len(saved[e])]

EpisodesComeBefore ==
  \A e \in 1 .. Len(saved) :
    Len(saved[e]) >= 1 /\ LastFrame(e) \in Nat
    /\ LastFrame(e) + Len(ring) + Len(buffer) <= Recorded

FramesInv ==
  /\ n \in 0 .. MaxFrames /\ Recorded \in 0 .. n
  /\ RingInv
  /\ ring = Stretch(Recorded, Len(ring))
  /\ buffer \in Seq(Frames) /\ (recording_live => buffer = Stretch(Recorded, Len(buffer)))
  /\ saved \in Seq(Seq(Frames))
  /\ Len(saved) + Len(ring) + Len(buffer) <= Recorded
  /\ EpisodesComeBefore /\ EpisodesAreStretches

LEMMA FramesTypes ==
  ASSUME HighlightConstants, FramesInv
  PROVE  /\ buffer \in Seq(Frames) /\ ring \in Seq(Frames) /\ saved \in Seq(Seq(Frames))
         /\ Len(ring) \in 0 .. Capacity /\ Len(ring) <= max_frames
         /\ current_bytes \in Nat /\ appended \in 0 .. max_frames
         /\ Len(saved) \in 0 .. MaxFrames
         /\ {Len(saved), Len(ring), Len(buffer), Recorded, n} \subseteq Nat
         /\ Len(ring) \in 0 .. Recorded /\ Len(buffer) \in 0 .. Recorded
<1>0. /\ Capacity \in 1 .. max_frames /\ Room \in Nat
      /\ max_frames \in Nat /\ frame_bytes \in Nat
  BY RoomAndCapacity DEF HighlightConstants
<1>1. /\ n \in 0 .. MaxFrames /\ Recorded \in 0 .. n /\ MaxFrames \in Nat
      /\ saved \in Seq(Seq(Frames)) /\ Len(saved) \in Nat
      /\ buffer \in Seq(Frames) /\ Len(buffer) \in Nat
      /\ Len(saved) + Len(ring) + Len(buffer) <= Recorded
  BY PushAssumption DEF FramesInv
<1>2. appended \in 0 .. max_frames /\ Len(ring) \in 0 .. Capacity
  BY <1>0 DEF FramesInv, RingInv, AtMost
<1>3. Recorded \in Nat /\ Len(ring) \in 0 .. Recorded /\ Len(buffer) \in 0 .. Recorded
  BY <1>0, <1>1, <1>2
<1>4. Recorded \in 0 .. MaxFrames
  BY <1>1
<1>5. ring \in Seq(Frames)
  BY <1>3, <1>4, StretchOfFrames DEF FramesInv
<1>6. current_bytes \in Nat
  <2>1. PICK c \in 0 .. Room : current_bytes = c * frame_bytes
    BY DEF FramesInv, RingInv, EstimateIs
  <2> QED
    BY <1>0, <2>1
<1> QED
  BY <1>0, <1>1, <1>2, <1>3, <1>5, <1>6

(* Steps that record nothing.                                                *)
LEMMA KeepFrames ==
  ASSUME FramesInv, UNCHANGED <<ringVars, buffer, saved, recording_live>>, Recorded' = Recorded,
         n' \in n .. MaxFrames
  PROVE  FramesInv'
<1>1. Recorded' \in 0 .. n' /\ n' \in 0 .. MaxFrames
  BY PushAssumption DEF FramesInv
<1>2. RingInv'
  BY DEF FramesInv, RingInv, EstimateIs, ringVars, Room, Capacity, InBytes
<1>3. EpisodesComeBefore' /\ EpisodesAreStretches'
  BY DEF FramesInv, EpisodesComeBefore, LastFrame, EpisodesAreStretches, ringVars
<1> QED
  BY <1>1, <1>2, <1>3 DEF FramesInv, ringVars

(* The drained ring is empty, and its estimate is 0.                         *)
LEMMA DrainedRing ==
  ASSUME HighlightConstants, FramesInv, drain, Recorded' \in Nat
  PROVE  /\ RingInv' /\ ring' = <<>> /\ Len(ring') = 0
         /\ ring' = Stretch(Recorded', Len(ring'))
<1>1. ring' = <<>> /\ Len(ring') = 0
  BY DEF drain
<1>2. RingInv'
  <2>1. 0 \in 0 .. Room /\ Capacity \in 1 .. max_frames /\ max_frames \in Nat
    BY RoomAndCapacity DEF HighlightConstants
  <2>2. EstimateIs(0)'
    BY <1>1 DEF drain, EstimateIs, HighlightConstants
  <2> QED
    BY <1>1, <2>1, <2>2 DEF drain, RingInv, AtMost, Room, Capacity, InBytes
<1>3. Stretch(Recorded', 0) = <<>>
  BY StretchEmpty
<1> QED
  BY <1>1, <1>2, <1>3

(* The ring's frames become the first of an episode.                         *)
LEMMA StartFrames ==
  ASSUME HighlightConstants, FramesInv, buffer = <<>>, buffer' = buffer \o ring, drain,
         saved' = saved, Recorded' = Recorded, n' = n
  PROVE  FramesInv'
<1>1. ring \in Seq(Frames) /\ Recorded \in Nat /\ Len(ring) \in Nat
  BY FramesTypes
<1>2. buffer' = ring /\ Len(buffer) = 0
  BY <1>1
<1>3. RingInv' /\ ring' = <<>> /\ Len(ring') = 0 /\ ring' = Stretch(Recorded', Len(ring'))
  BY <1>1, DrainedRing
<1>4. EpisodesComeBefore' /\ EpisodesAreStretches'
  BY <1>1, <1>2, <1>3 DEF FramesInv, EpisodesComeBefore, LastFrame, EpisodesAreStretches
<1> QED
  BY <1>1, <1>2, <1>3, <1>4 DEF FramesInv

(* When the drain fails, some of them stay behind in an unfinished episode.  *)
LEMMA DrainFrames ==
  ASSUME HighlightConstants, FramesInv, buffer = <<>>, NEW k \in 0 .. Len(ring) - 1,
         buffer' = buffer \o SubSeq(ring, 1, k), drain, saved' = saved, n' = n, Recorded' = n,
         ~recording_live'
  PROVE  FramesInv'
<1>1. /\ ring \in Seq(Frames) /\ {Len(ring), Recorded, n, Len(saved)} \subseteq Nat
      /\ Recorded <= n /\ Len(buffer) = 0
  BY FramesTypes DEF FramesInv
<1>2. SubSeq(ring, 1, k) \in Seq(Frames) /\ Len(SubSeq(ring, 1, k)) = k
  BY <1>1
<1>3. buffer' \in Seq(Frames) /\ Len(buffer') = k
  BY <1>2
<1>4. RingInv' /\ Len(ring') = 0 /\ ring' = Stretch(Recorded', Len(ring'))
  BY <1>1, DrainedRing
<1>5. EpisodesComeBefore'
  BY <1>1, <1>3, <1>4 DEF FramesInv, EpisodesComeBefore, LastFrame
<1>6. EpisodesAreStretches' /\ saved' \in Seq(Seq(Frames))
  BY DEF FramesInv, EpisodesAreStretches
<1>7. Len(saved') + Len(ring') + Len(buffer') <= Recorded' /\ Recorded' \in 0 .. n'
  BY <1>1, <1>3, <1>4 DEF FramesInv
<1> QED
  BY <1>3, <1>4, <1>5, <1>6, <1>7 DEF FramesInv


(* While an episode is recorded live the ring is empty, and the newest frame *)
(* goes to the episode.                                                      *)
LEMMA LiveFrames ==
  ASSUME HighlightConstants, FramesInv, recording_live, appended = 0,
         buffer' = Append(buffer, Recorded + 1), UNCHANGED <<ringVars, saved>>,
         Recorded' = Recorded + 1, n' = n, Recorded < n
  PROVE  FramesInv'
<1>0. /\ {Len(saved), Len(ring), Len(buffer), Recorded, n} \subseteq Nat
      /\ Len(buffer) \in 0 .. Recorded /\ Len(ring) \in 0 .. Recorded
      /\ buffer = Stretch(Recorded, Len(buffer)) /\ ring = Stretch(Recorded, Len(ring))
      /\ Len(saved) + Len(ring) + Len(buffer) <= Recorded
      /\ n \in 0 .. MaxFrames
  BY FramesTypes DEF FramesInv
<1>1. Len(ring) = 0
  <2>1. 0 \in 0 .. max_frames /\ Capacity \in 1 .. max_frames /\ max_frames \in Nat
    BY RoomAndCapacity DEF HighlightConstants
  <2> QED
    BY <2>1 DEF FramesInv, RingInv, AtMost
<1>2. buffer' = Stretch(Recorded + 1, Len(buffer) + 1)
  BY <1>0, StretchAppend
<1>3. Len(buffer') = Len(buffer) + 1
  <2>1. Recorded + 1 \in Nat /\ Len(buffer) + 1 \in 0 .. Recorded + 1
    BY <1>0
  <2> QED
    BY <1>2, <2>1, StretchType
<1>4. ring' = Stretch(Recorded', Len(ring'))
  <2>1. Recorded \in Nat /\ Recorded + 1 \in Nat /\ ring' = ring /\ Len(ring') = 0
    BY <1>0, <1>1 DEF ringVars
  <2>2. ring = <<>> /\ Stretch(Recorded + 1, 0) = <<>>
    BY <1>0, <1>1, <2>1, StretchEmpty
  <2> QED
    BY <2>1, <2>2
<1>5. RingInv'
  BY DEF FramesInv, RingInv, EstimateIs, ringVars, Room, Capacity, InBytes
<1>6. EpisodesComeBefore'
  <2>1. saved' = saved /\ ring' = ring
    BY DEF ringVars
  <2> QED
    BY <1>0, <1>3, <2>1 DEF FramesInv, EpisodesComeBefore, LastFrame
<1>7. EpisodesAreStretches' /\ saved' \in Seq(Seq(Frames))
  BY DEF FramesInv, EpisodesAreStretches
<1>8. Len(saved') + Len(ring') + Len(buffer') <= Recorded' /\ Len(buffer') \in Nat
      /\ Recorded' \in 0 .. n'
  BY <1>0, <1>3 DEF ringVars
<1>9. buffer' = Stretch(Recorded', Len(buffer')) /\ buffer' \in Seq(Frames)
  <2>1. Recorded + 1 \in 1 .. MaxFrames
    BY <1>0, PushAssumption
  <2>2. Recorded + 1 \in Frames /\ buffer \in Seq(Frames)
    BY <2>1, FramesTypes DEF Frames
  <2> QED
    BY <1>2, <1>3, <2>2
<1> QED
  BY <1>0, <1>4, <1>5, <1>6, <1>7, <1>8, <1>9 DEF FramesInv

(* Otherwise it goes to the ring.                                            *)
LEMMA RingFrames ==
  ASSUME HighlightConstants, FramesInv, buffer = <<>>, append(Recorded + 1),
         UNCHANGED <<buffer, saved>>, Recorded' = Recorded + 1, n' = n, Recorded < n
  PROVE  FramesInv'
<1>0. /\ {Len(saved), Len(ring), Recorded, n} \subseteq Nat /\ Len(buffer) = 0
      /\ ring = Stretch(Recorded, Len(ring)) /\ Len(ring) <= Recorded
      /\ Len(saved) + Len(ring) + Len(buffer) <= Recorded
      /\ n \in 0 .. MaxFrames /\ RingInv
  BY FramesTypes DEF FramesInv
<1>1. /\ RingInv' /\ ring' = Stretch(Recorded + 1, Len(ring')) /\ Len(ring') \in Nat
      /\ Len(ring') <= Len(ring) + 1
  BY <1>0, RingAppend
<1>2. buffer' = Stretch(Recorded', Len(buffer')) /\ buffer' \in Seq(Frames)
  <2>1. Recorded + 1 \in Nat /\ buffer' = <<>> /\ Len(buffer') = 0
    BY <1>0
  <2> QED
    BY <2>1, StretchEmpty
<1>3. EpisodesComeBefore'
  BY <1>0, <1>1 DEF FramesInv, EpisodesComeBefore, LastFrame
<1>4. EpisodesAreStretches' /\ saved' \in Seq(Seq(Frames))
  BY DEF FramesInv, EpisodesAreStretches
<1>5. Len(saved') + Len(ring') + Len(buffer') <= Recorded' /\ Len(buffer') \in Nat
      /\ Recorded' \in 0 .. n'
  BY <1>0, <1>1
<1> QED
  BY <1>0, <1>1, <1>2, <1>3, <1>4, <1>5 DEF FramesInv

(* The episode under way is saved: it follows the earlier ones.              *)
LEMMA SaveFrames ==
  ASSUME HighlightConstants, FramesInv, recording_live, appended = 0, save_episode,
         UNCHANGED ringVars, Recorded' = Recorded, n' = n
  PROVE  FramesInv'
<1>0. /\ {Len(saved), Len(ring), Recorded, n} \subseteq Nat
      /\ saved \in Seq(Seq(Frames)) /\ buffer \in Seq(Frames) /\ buffer # <<>>
      /\ buffer = Stretch(Recorded, Len(buffer)) /\ Len(buffer) \in 1 .. Recorded
      /\ Len(saved) + Len(ring) + Len(buffer) <= Recorded
      /\ saved' = Append(saved, buffer) /\ buffer' = <<>>
      /\ EpisodesComeBefore /\ EpisodesAreStretches
  <2>1. buffer # <<>> /\ saved' = Append(saved, buffer) /\ buffer' = <<>>
    BY DEF save_episode, CanSave
  <2>2. Len(buffer) \in 0 .. Recorded /\ buffer \in Seq(Frames) /\ Recorded \in Nat
    BY FramesTypes
  <2>3. Len(buffer) \in 1 .. Recorded
    BY <2>1, <2>2
  <2> QED
    BY <2>1, <2>3, FramesTypes DEF FramesInv
<1>1. Len(ring) = 0
  <2>1. 0 \in 0 .. max_frames /\ Capacity \in 1 .. max_frames /\ max_frames \in Nat
    BY RoomAndCapacity DEF HighlightConstants
  <2> QED
    BY <2>1 DEF FramesInv, RingInv, AtMost
<1> DEFINE k == Len(saved) + 1
<1>2. /\ saved' \in Seq(Seq(Frames)) /\ Len(saved') = k /\ k \in Nat \ {0}
      /\ \A e \in 1 .. Len(saved) : saved'[e] = saved[e]
      /\ saved'[k] = buffer
      /\ 1 .. k = 1 .. Len(saved) \cup {k}
  BY <1>0
<1>3. /\ buffer[Len(buffer)] = Recorded /\ buffer[1] = Recorded - Len(buffer) + 1
      /\ Consecutive(buffer)
  <2>1. \A i \in 1 .. Len(buffer) : buffer[i] = Recorded - Len(buffer) + i
    BY <1>0 DEF Stretch
  <2>2. Len(buffer) \in Nat /\ 1 \in 1 .. Len(buffer) /\ Len(buffer) \in 1 .. Len(buffer)
    BY <1>0
  <2>3. Consecutive(Stretch(Recorded, Len(buffer)))
    <3>1. Len(buffer) \in 0 .. Recorded
      BY <1>0
    <3> QED
      BY <1>0, <3>1, StretchIsConsecutive
  <2>4. Consecutive(buffer)
    BY <1>0, <2>3
  <2>5. buffer[Len(buffer)] = Recorded - Len(buffer) + Len(buffer)
        /\ buffer[1] = Recorded - Len(buffer) + 1
    BY <2>1, <2>2
  <2>6. Recorded - Len(buffer) + Len(buffer) = Recorded
    BY <1>0, <2>2
  <2> QED
    BY <2>4, <2>5, <2>6
<1> HIDE DEF k
<1>4. EpisodesComeBefore'
  <2>1. ASSUME NEW e \in 1 .. k
        PROVE  /\ Len(saved'[e]) >= 1 /\ saved'[e][Len(saved'[e])] \in Nat
               /\ saved'[e][Len(saved'[e])] <= Recorded
    <3>1. CASE e \in 1 .. Len(saved)
      <4>1. /\ Len(saved[e]) >= 1 /\ LastFrame(e) \in Nat
            /\ LastFrame(e) + Len(ring) + Len(buffer) <= Recorded
        BY <1>0, <3>1 DEF EpisodesComeBefore
      <4> QED
        BY <1>0, <1>1, <1>2, <3>1, <4>1 DEF LastFrame
    <3>2. CASE e = k
      BY <1>0, <1>2, <1>3, <3>2
    <3> QED
      BY <1>2, <2>1, <3>1, <3>2
  <2>2. Len(ring') = 0 /\ Len(buffer') = 0
    BY <1>0, <1>1 DEF ringVars
  <2> QED
    BY <1>0, <1>2, <2>1, <2>2 DEF EpisodesComeBefore, LastFrame
<1>5. EpisodesAreStretches'
  <2>1. ASSUME NEW e \in 1 .. k
        PROVE  Consecutive(saved'[e])
    BY <1>0, <1>2, <1>3, <2>1 DEF EpisodesAreStretches
  <2>2. ASSUME NEW e \in 1 .. k - 1
        PROVE  saved'[e][Len(saved'[e])] < saved'[e + 1][1]
    <3>1. e \in 1 .. Len(saved) /\ saved'[e] = saved[e]
      BY <1>0, <1>2, <2>2 DEF k
    <3>2. CASE e + 1 \in 1 .. Len(saved)
      <4>1. saved[e][Len(saved[e])] < saved[e + 1][1]
        BY <1>0, <3>1, <3>2 DEF EpisodesAreStretches
      <4> QED
        BY <1>2, <3>1, <3>2, <4>1
    <3>3. CASE e + 1 = k
      <4>1. LastFrame(e) \in Nat /\ LastFrame(e) + Len(ring) + Len(buffer) <= Recorded
        BY <1>0, <3>1 DEF EpisodesComeBefore
      <4>2. LastFrame(e) < Recorded - Len(buffer) + 1
        BY <1>0, <1>1, <4>1
      <4> QED
        BY <1>2, <1>3, <3>1, <3>3, <4>2 DEF LastFrame
    <3> QED
      BY <1>0, <3>1, <3>2, <3>3 DEF k
  <2> QED
    BY <1>2, <2>1, <2>2 DEF EpisodesAreStretches
<1>6. ring' = Stretch(Recorded', Len(ring')) /\ RingInv'
  BY DEF FramesInv, RingInv, EstimateIs, ringVars, Room, Capacity, InBytes
<1>7. /\ buffer' = Stretch(Recorded', Len(buffer')) /\ Len(buffer') = 0
      /\ buffer' \in Seq(Frames)
  BY <1>0, StretchEmpty
<1>8. Len(saved') + Len(ring') + Len(buffer') <= Recorded'
  BY <1>0, <1>1, <1>2, <1>7 DEF ringVars, k
<1> QED
  BY <1>2, <1>4, <1>5, <1>6, <1>7, <1>8 DEF FramesInv


-------------------------------------------------------------------------------
(* The session.                                                              *)
Positions == {"loop", "save?", "toggle", "saving", "push?", "push", "record", "final",
              "exit", "wait", "last", "done", "failed"}

SessionTypes ==
  /\ broken \in BOOLEAN /\ file \in {"none", "open", "closed"}
  /\ queued \in Nat /\ pusher \in {"idle", "upload"} /\ copy \in Copies /\ hub \in Copies
  /\ main \in Positions /\ presses \in [save : 0 .. MaxSaves, push : 0 .. MaxPushes]
  /\ {shutdown, save_requested, push_requested, recording_live, esc} \subseteq BOOLEAN

(* Either an episode is recorded and the ring is empty, or there is no       *)
(* episode, or the ring's drain failed and the session is ending.            *)
Ended == main \in {"final", "exit", "wait", "last", "done", "failed"}

LiveOrRing ==
  /\ recording_live => appended = 0
  /\ ~recording_live => buffer = <<>> \/ (broken /\ Ended)
  /\ main = "saving" => recording_live

(* The end of a session goes through the finally block, finalize() and the   *)
(* wait for the pushes, in this order.                                       *)
EndsInOrder ==
  /\ main \in {"exit", "wait", "last", "done", "failed"} => buffer = <<>> \/ broken
  /\ main \in {"wait", "last", "done", "failed"} => file # "open"
  /\ main \in {"last", "done", "failed"} => PushesDone

SessionInv == FramesInv /\ SessionTypes /\ LiveOrRing /\ EndsInOrder /\ HubIsComplete

LEMMA SessionTypeOK ==
  ASSUME HighlightConstants, SessionInv
  PROVE  TypeOK
<1>1. /\ buffer \in Seq(Frames) /\ ring \in Seq(Frames) /\ saved \in Seq(Seq(Frames))
      /\ Len(ring) <= max_frames /\ current_bytes \in Nat /\ appended \in 0 .. max_frames
  BY FramesTypes DEF SessionInv
<1>2. n \in 0 .. MaxFrames
  BY DEF SessionInv, FramesInv
<1> QED
  BY <1>1, <1>2 DEF SessionInv, SessionTypes, Positions, TypeOK, DataTypeOK

LEMMA SessionRingIsRecent ==
  ASSUME HighlightConstants, SessionInv
  PROVE  RingIsRecent
  BY DEF SessionInv, FramesInv, RingInv, RingIsRecent, RingHoldsNewest, Stretch, Capacity, InBytes

LEMMA NoCopyIsACopy == NoCopy \in Copies
<1>1. 0 \in 0 .. MaxFrames
  BY PushAssumption
<1>2. [episodes |-> 0, readable |-> TRUE] \in Copies
  BY <1>1 DEF Copies
<1> QED
  BY <1>2 DEF NoCopy

LEMMA InitSessionInv ==
  ASSUME HighlightConstants, Init
  PROVE  SessionInv
<1>1. /\ ring = <<>> /\ current_bytes = 0 /\ appended = 0 /\ buffer = <<>> /\ saved = <<>>
      /\ n = 0 /\ main = "loop" /\ Recorded = 0 /\ file = "none" /\ hub = NoCopy /\ copy = NoCopy
      /\ broken = FALSE /\ queued = 0 /\ pusher = "idle"
  BY DEF Init, RingInit, DataInit, Recorded
<1>2. RingInv
  BY <1>1, RingInitInv
<1>3. Stretch(0, 0) = <<>>
  BY StretchEmpty
<1>4. FramesInv
  BY <1>1, <1>2, <1>3, PushAssumption DEF FramesInv, EpisodesComeBefore, EpisodesAreStretches
<1>5. SessionTypes
  <2>1. presses \in [save : 0 .. MaxSaves, push : 0 .. MaxPushes]
    BY DEF Init, HighlightConstants
  <2>2. {shutdown, save_requested, push_requested, recording_live, esc} \subseteq BOOLEAN
    BY DEF Init
  <2> QED
    BY <1>1, <2>1, <2>2, NoCopyIsACopy DEF SessionTypes, Positions
<1>6. LiveOrRing /\ EndsInOrder /\ HubIsComplete
  BY <1>1 DEF LiveOrRing, EndsInOrder, HubIsComplete
<1> QED
  BY <1>4, <1>5, <1>6 DEF SessionInv

LEMMA NextFrames ==
  ASSUME HighlightConstants, SessionInv, [Next]_vars
  PROVE  FramesInv' /\ LiveOrRing'
<1>0. /\ FramesInv /\ LiveOrRing /\ n \in 0 .. MaxFrames /\ n \in Nat /\ MaxFrames \in Nat
      /\ Recorded \in Nat
  BY FramesTypes, PushAssumption DEF SessionInv, FramesInv
<1> DEFINE Between == {"save?", "toggle", "push?", "push", "record"}
<1>1. ASSUME UNCHANGED <<ringVars, buffer, saved, n, recording_live>>,
             main \in Between <=> main' \in Between, main' = "saving" => main = "saving",
             broken => broken', Ended => Ended'
      PROVE  FramesInv' /\ LiveOrRing'
  <2>1. Recorded' = Recorded
    BY <1>1 DEF Recorded
  <2>2. n' \in n .. MaxFrames
    BY <1>0, <1>1
  <2>3. FramesInv'
    BY <1>0, <1>1, <2>1, <2>2, KeepFrames
  <2> QED
    BY <1>0, <1>1, <2>3 DEF LiveOrRing, ringVars
<1>2. CASE \/ Keys \/ Worker \/ UNCHANGED vars
           \/ LeaveLoop \/ SeeSaveKey \/ SaveFails \/ SeePushKey \/ RequestPush
           \/ SaveLiveFails \/ Exit \/ WaitForPushes \/ LastPush \/ LastPushFails
           \/ (SaveLive /\ ~recording_live)
  <2>1. UNCHANGED <<ringVars, buffer, saved, n, recording_live>>
    BY <1>2 DEF Keys, PressSave, PressPush, PressEsc, EscShutdown, Worker, vars, LeaveLoop,
         SeeSaveKey, SaveFails, SeePushKey, RequestPush, SaveLiveFails, Exit, WaitForPushes,
         LastPush, LastPushFails, SaveLive, BeginUpload, SkipUpload, EndUpload, UploadFails,
         SaveRaises, finalize, FinalPush, dataVars, fileVars
  <2>2. (main \in Between <=> main' \in Between) /\ (main' = "saving" => main = "saving")
    BY <1>2 DEF Keys, PressSave, PressPush, PressEsc, EscShutdown, Worker, vars, LeaveLoop,
         SeeSaveKey, SaveFails, SeePushKey, RequestPush, SaveLiveFails, Exit, WaitForPushes,
         LastPush, LastPushFails, SaveLive
  <2>3. (broken => broken') /\ (Ended => Ended')
    BY <1>2 DEF Keys, PressSave, PressPush, PressEsc, EscShutdown, Worker, vars, LeaveLoop,
         SeeSaveKey, SaveFails, SeePushKey, RequestPush, SaveLiveFails, Exit, WaitForPushes,
         LastPush, LastPushFails, SaveLive, BeginUpload, SkipUpload, EndUpload, UploadFails,
         SaveRaises, finalize, FinalPush, dataVars, fileVars, Ended
  <2> QED
    BY <1>1, <2>1, <2>2, <2>3
<1>3. CASE NewFrame
  <2>1. UNCHANGED <<ringVars, buffer, saved, recording_live>> /\ n' = n + 1 /\ n < MaxFrames
        /\ main = "loop" /\ main' = "save?"
    BY <1>3 DEF NewFrame, dataVars, fileVars
  <2>2. Recorded' = Recorded /\ n' \in n .. MaxFrames
    BY <1>0, <2>1 DEF Recorded
  <2>3. FramesInv'
    BY <1>0, <2>1, <2>2, KeepFrames
  <2> QED
    BY <1>0, <2>1, <2>3 DEF LiveOrRing, ringVars, Ended
<1>4. CASE StartRecording
  <2>1. /\ ~recording_live /\ recording_live' = TRUE /\ main = "toggle" /\ main' = "push?"
        /\ buffer' = buffer \o ring /\ drain /\ saved' = saved /\ n' = n
    BY <1>4 DEF StartRecording
  <2>2. buffer = <<>> /\ Recorded' = Recorded
    BY <1>0, <2>1 DEF LiveOrRing, Recorded, Ended
  <2>3. FramesInv'
    BY <1>0, <2>1, <2>2, StartFrames
  <2> QED
    BY <2>1, <2>3 DEF LiveOrRing, drain
<1>8. CASE DrainFails
  <2>1. /\ ~recording_live /\ ~recording_live' /\ main = "toggle" /\ main' = "final"
        /\ drain /\ broken' = TRUE /\ saved' = saved /\ n' = n
    BY <1>8 DEF DrainFails
  <2>2. PICK k \in 0 .. Len(ring) - 1 : buffer' = buffer \o SubSeq(ring, 1, k)
    BY <1>8 DEF DrainFails
  <2>3. buffer = <<>> /\ Recorded' = n
    BY <1>0, <2>1 DEF LiveOrRing, Recorded, Ended
  <2>4. FramesInv'
    BY <1>0, <2>1, <2>2, <2>3, DrainFrames
  <2> QED
    BY <2>1, <2>4 DEF LiveOrRing, Ended
<1>5. CASE StopRecording \/ RecordLive
  <2>1. /\ recording_live /\ recording_live' = recording_live
        /\ main \in {"toggle", "record"} /\ main' \in {"saving", "loop"}
        /\ buffer' = Append(buffer, n) /\ UNCHANGED <<ringVars, saved, n>>
    BY <1>5 DEF StopRecording, RecordLive
  <2>2. Recorded = n - 1 /\ Recorded' = n
    BY <2>1 DEF Recorded
  <2>3. n = Recorded + 1 /\ Recorded' = Recorded + 1 /\ Recorded < n /\ appended = 0
    BY <1>0, <2>1, <2>2 DEF LiveOrRing
  <2>4. FramesInv'
    BY <1>0, <2>1, <2>3, LiveFrames
  <2> QED
    BY <1>0, <2>1, <2>4 DEF LiveOrRing, ringVars
<1>6. CASE RecordRing
  <2>1. /\ ~recording_live /\ UNCHANGED <<buffer, saved, n, recording_live>> /\ append(n)
        /\ main = "record" /\ main' = "loop"
    BY <1>6 DEF RecordRing, dataVars, fileVars
  <2>2. Recorded = n - 1 /\ Recorded' = n
    BY <2>1 DEF Recorded
  <2>3. n = Recorded + 1 /\ Recorded' = Recorded + 1 /\ Recorded < n /\ buffer = <<>>
    BY <1>0, <2>1, <2>2 DEF LiveOrRing, Ended
  <2>4. append(Recorded + 1)
    BY <2>1, <2>3
  <2>5. FramesInv'
    BY <1>0, <2>1, <2>3, <2>4, RingFrames
  <2> QED
    BY <1>0, <2>1, <2>3, <2>5 DEF LiveOrRing
<1>7. CASE SaveEpisode \/ (SaveLive /\ recording_live)
  <2>1. /\ save_episode /\ UNCHANGED <<ringVars, n>> /\ recording_live
        /\ main \in {"saving", "final"} /\ main' \in {"loop", "exit"}
    BY <1>0, <1>7 DEF SaveEpisode, SaveLive, LiveOrRing
  <2>2. Recorded' = Recorded /\ appended = 0 /\ appended' = 0 /\ buffer' = <<>>
    BY <1>0, <2>1 DEF Recorded, LiveOrRing, save_episode, ringVars
  <2>3. FramesInv'
    BY <1>0, <2>1, <2>2, SaveFrames
  <2> QED
    BY <2>1, <2>2, <2>3 DEF LiveOrRing
<1> QED
  BY <1>2, <1>3, <1>4, <1>5, <1>6, <1>7, <1>8 DEF Next, Main, Finished


LEMMA NextSessionTypes ==
  ASSUME HighlightConstants, SessionInv, [Next]_vars
  PROVE  SessionTypes'
<1>0. /\ broken \in BOOLEAN /\ file \in {"none", "open", "closed"}
      /\ queued \in Nat /\ pusher \in {"idle", "upload"} /\ copy \in Copies /\ hub \in Copies
      /\ main \in Positions /\ presses \in [save : 0 .. MaxSaves, push : 0 .. MaxPushes]
      /\ {shutdown, save_requested, push_requested, recording_live, esc} \subseteq BOOLEAN
  BY DEF SessionInv, SessionTypes
<1>1. Len(saved) \in 0 .. MaxFrames
  BY FramesTypes DEF SessionInv
<1>2. ASSUME NEW closed \in BOOLEAN
      PROVE  [episodes |-> Len(saved), readable |-> closed] \in Copies
  BY <1>1, <1>2 DEF Copies
<1>3. CASE Main
  <2>1. broken' \in BOOLEAN /\ file' \in {"none", "open", "closed"}
    BY <1>0, <1>3 DEF Main, NewFrame, LeaveLoop, SeeSaveKey, StartRecording, DrainFails, StopRecording,
         SaveEpisode, SaveFails, SeePushKey, RequestPush, RecordLive, RecordRing, SaveLive,
         SaveLiveFails, Exit, WaitForPushes, LastPush, LastPushFails, save_episode, SaveRaises,
         finalize, FinalPush, dataVars, fileVars
  <2>2. queued' \in Nat /\ pusher' = pusher /\ copy' = copy
    BY <1>0, <1>3 DEF Main, NewFrame, LeaveLoop, SeeSaveKey, StartRecording, DrainFails, StopRecording,
         SaveEpisode, SaveFails, SeePushKey, RequestPush, RecordLive, RecordRing, SaveLive,
         SaveLiveFails, Exit, WaitForPushes, LastPush, LastPushFails, submit, FinalPush,
         dataVars, pushVars
  <2>3. hub' \in Copies
    <3>1. (file # "open") \in BOOLEAN
      OBVIOUS
    <3>2. [episodes |-> Len(saved), readable |-> file # "open"] \in Copies
      BY <1>2, <3>1
    <3>3. CASE LastPush
      BY <1>0, <3>2, <3>3 DEF LastPush, FinalPush, dataVars, pushVars
    <3>4. CASE ~LastPush
      BY <1>0, <1>3, <3>4 DEF Main, NewFrame, LeaveLoop, SeeSaveKey, StartRecording,
           DrainFails, StopRecording, SaveEpisode, SaveFails, SeePushKey, RequestPush, RecordLive,
           RecordRing, SaveLive, SaveLiveFails, Exit, WaitForPushes, LastPushFails, submit,
           dataVars, pushVars
    <3> QED
      BY <3>3, <3>4
  <2>4. main' \in Positions /\ presses' = presses
    BY <1>0, <1>3 DEF Main, NewFrame, LeaveLoop, SeeSaveKey, StartRecording, DrainFails, StopRecording,
         SaveEpisode, SaveFails, SeePushKey, RequestPush, RecordLive, RecordRing, SaveLive,
         SaveLiveFails, Exit, WaitForPushes, LastPush, LastPushFails, keyVars, Positions
  <2>5. {shutdown, save_requested, push_requested, recording_live, esc}' \subseteq BOOLEAN
    BY <1>0, <1>3 DEF Main, NewFrame, LeaveLoop, SeeSaveKey, StartRecording, DrainFails, StopRecording,
         SaveEpisode, SaveFails, SeePushKey, RequestPush, RecordLive, RecordRing, SaveLive,
         SaveLiveFails, Exit, WaitForPushes, LastPush, LastPushFails, keyVars
  <2> QED
    BY <1>0, <2>1, <2>2, <2>3, <2>4, <2>5 DEF SessionTypes
<1>4. CASE Keys
  <2>1. UNCHANGED <<dataVars, main, recording_live>>
    BY <1>4 DEF Keys, PressSave, PressPush, PressEsc, EscShutdown
  <2>2. presses' \in [save : 0 .. MaxSaves, push : 0 .. MaxPushes]
    <3>1. MaxSaves \in Nat /\ MaxPushes \in Nat
      BY DEF HighlightConstants
    <3>2. CASE PressSave
      <4>1. presses.save + 1 \in 0 .. MaxSaves
        BY <1>0, <3>1, <3>2 DEF PressSave
      <4> QED
        BY <1>0, <3>2, <4>1 DEF PressSave
    <3>3. CASE PressPush
      <4>1. presses.push + 1 \in 0 .. MaxPushes
        BY <1>0, <3>1, <3>3 DEF PressPush
      <4> QED
        BY <1>0, <3>3, <4>1 DEF PressPush
    <3>4. CASE PressEsc \/ EscShutdown
      BY <1>0, <3>4 DEF PressEsc, EscShutdown
    <3> QED
      BY <1>4, <3>2, <3>3, <3>4 DEF Keys
  <2>3. {shutdown, save_requested, push_requested, esc}' \subseteq BOOLEAN
    BY <1>0, <1>4 DEF Keys, PressSave, PressPush, PressEsc, EscShutdown
  <2> QED
    BY <1>0, <2>1, <2>2, <2>3 DEF SessionTypes, dataVars, fileVars, pushVars
<1>5. CASE Worker
  <2>1. UNCHANGED <<broken, file, main, recording_live, keyVars>>
    BY <1>5 DEF Worker, BeginUpload, SkipUpload, EndUpload, UploadFails, fileVars
  <2>2. queued' \in Nat /\ pusher' \in {"idle", "upload"}
    BY <1>0, <1>5 DEF Worker, BeginUpload, SkipUpload, EndUpload, UploadFails
  <2>3. copy' \in Copies
    <3>1. (file = "closed") \in BOOLEAN
      OBVIOUS
    <3>2. [episodes |-> Len(saved), readable |-> file = "closed"] \in Copies
      BY <1>2, <3>1
    <3> QED
      BY <1>0, <1>5, <3>2, NoCopyIsACopy DEF Worker, BeginUpload, SkipUpload, EndUpload,
           UploadFails
  <2>4. hub' \in Copies
    <3>1. CASE EndUpload
      <4>1. PICK readable \in {copy.readable, file = "closed"} :
              hub' = [copy EXCEPT !.readable = readable]
        BY <3>1 DEF EndUpload
      <4>2. readable \in BOOLEAN
        BY <1>0, <4>1 DEF Copies
      <4> QED
        BY <1>0, <4>1, <4>2 DEF Copies
    <3>2. CASE ~EndUpload
      BY <1>0, <1>5, <3>2 DEF Worker, BeginUpload, SkipUpload, UploadFails
    <3> QED
      BY <3>1, <3>2
  <2> QED
    BY <1>0, <2>1, <2>2, <2>3, <2>4 DEF SessionTypes, keyVars
<1>6. CASE UNCHANGED vars
  BY <1>0, <1>6 DEF vars, keyVars, dataVars, fileVars, pushVars, SessionTypes
<1> QED
  BY <1>3, <1>4, <1>5, <1>6 DEF Next, Finished

LEMMA NextEnd ==
  ASSUME SessionInv, [Next]_vars
  PROVE  EndsInOrder' /\ HubIsComplete'
<1>0. /\ EndsInOrder /\ HubIsComplete /\ LiveOrRing /\ main \in Positions
      /\ file \in {"none", "open", "closed"}
  BY DEF SessionInv, SessionTypes
<1>1. CASE \/ NewFrame \/ LeaveLoop \/ SeeSaveKey \/ StartRecording \/ DrainFails
           \/ StopRecording \/ SaveEpisode \/ SaveFails \/ SeePushKey \/ RequestPush \/ RecordLive \/ RecordRing
  <2>1. main' \notin {"exit", "wait", "last", "done", "failed"}
    BY <1>1 DEF NewFrame, LeaveLoop, SeeSaveKey, StartRecording, DrainFails, StopRecording, SaveEpisode,
         SaveFails, SeePushKey, RequestPush, RecordLive, RecordRing
  <2> QED
    BY <2>1 DEF EndsInOrder, HubIsComplete
<1>2. CASE SaveLive \/ SaveLiveFails
  <2>1. main' = "exit"
    BY <1>2 DEF SaveLive, SaveLiveFails
  <2>2. buffer' = <<>> \/ broken'
    <3>1. CASE save_episode
      BY <3>1 DEF save_episode
    <3>2. CASE SaveRaises
      BY <3>2 DEF SaveRaises, CanSave
    <3>3. CASE ~recording_live /\ UNCHANGED fileVars
      BY <1>0, <3>3 DEF LiveOrRing, fileVars
    <3> QED
      BY <1>2, <3>1, <3>2, <3>3 DEF SaveLive, SaveLiveFails
  <2> QED
    BY <2>1, <2>2 DEF EndsInOrder, HubIsComplete
<1>3. CASE Exit
  <2>1. /\ main = "exit" /\ main' = "wait" /\ UNCHANGED <<buffer, broken>>
        /\ file' = IF file = "open" THEN "closed" ELSE file
    BY <1>3 DEF Exit, finalize
  <2> QED
    BY <1>0, <2>1 DEF EndsInOrder, HubIsComplete
<1>4. CASE WaitForPushes
  BY <1>0, <1>4 DEF WaitForPushes, PushesDone, EndsInOrder, HubIsComplete, dataVars, fileVars,
     pushVars
<1>5. CASE LastPush
  <2>1. /\ main = "last" /\ main' = "done" /\ UNCHANGED <<fileVars, queued, pusher>>
        /\ PushToHub /\ saved # <<>> =>
             hub' = [episodes |-> Len(saved), readable |-> file # "open"]
    BY <1>5 DEF LastPush, FinalPush, dataVars, fileVars, pushVars
  <2>2. file # "open" /\ PushesDone
    BY <1>0, <2>1 DEF EndsInOrder
  <2>3. (file # "open") = TRUE
    BY <2>2
  <2>4. PushesDone' /\ EndsInOrder'
    BY <1>0, <2>1, <2>2 DEF EndsInOrder, PushesDone, fileVars
  <2>5. PushToHub /\ saved # <<>> => hub' = [episodes |-> Len(saved), readable |-> TRUE]
    BY <2>1, <2>3
  <2> QED
    BY <2>1, <2>4, <2>5 DEF HubIsComplete, fileVars
<1>6. CASE LastPushFails \/ Keys \/ UNCHANGED vars
  <2>1. UNCHANGED dataVars /\ (main' = main \/ (main = "last" /\ main' = "failed"))
    BY <1>6 DEF LastPushFails, Keys, PressSave, PressPush, PressEsc, EscShutdown, vars
  <2> QED
    BY <1>0, <2>1 DEF EndsInOrder, HubIsComplete, PushesDone, dataVars, fileVars, pushVars
<1>7. CASE Worker
  <2>1. UNCHANGED <<fileVars, main>> /\ (queued > 0 \/ pusher = "upload")
    BY <1>7 DEF Worker, BeginUpload, SkipUpload, EndUpload, UploadFails
  <2>2. main \notin {"last", "done", "failed"}
    BY <1>0, <2>1 DEF EndsInOrder, PushesDone
  <2> QED
    BY <1>0, <2>1, <2>2 DEF EndsInOrder, HubIsComplete, fileVars
<1> QED
  BY <1>1, <1>2, <1>3, <1>4, <1>5, <1>6, <1>7 DEF Next, Main, Finished

LEMMA NextSessionInv ==
  ASSUME HighlightConstants, SessionInv, [Next]_vars
  PROVE  SessionInv'
  BY NextFrames, NextSessionTypes, NextEnd DEF SessionInv

================================================================================
