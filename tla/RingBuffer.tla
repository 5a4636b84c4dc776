------------------------------ MODULE RingBuffer ------------------------------
(***************************************************************************)
(* RolloutRingBuffer (rollout/ring_buffer.py): the newest frames of a      *)
(* rollout, bounded in number by deque(maxlen) and in bytes by a running   *)
(* estimate.  The deque's own eviction never tells the estimate.  A frame  *)
(* is its number; all frames of a rollout have the dataset's features, so  *)
(* they have one size.                                                     *)
(***************************************************************************)
EXTENDS Integers, Sequences

CONSTANTS
  max_frames,   (* int(max_seconds * fps)                                   *)
  max_bytes,    (* int(max_memory_mb * 1024 * 1024)                         *)
  frame_bytes   (* _estimate_frame_bytes of a frame, at least 1             *)

VARIABLES
  ring,           (* self._buffer                                           *)
  current_bytes,  (* self._current_bytes                                    *)
  appended        (* frames appended since the ring was last emptied,       *)
                  (* counted up to max_frames                               *)

ringVars == <<ring, current_bytes, appended>>

RingInit == ring = <<>> /\ current_bytes = 0 /\ appended = 0

\* How many frames the loop of append() pops to make room for one more.
Evictions ==
  LET fits(k) == current_bytes - k * frame_bytes + frame_bytes <= max_bytes
  IN  CHOOSE k \in 0 .. Len(ring) :
        /\ fits(k) \/ k = Len(ring)
        /\ \A j \in 0 .. k - 1 : ~fits(j)

\* Faulty variant: the deque has no maxlen.
DequeAppendUnbounded(s, frame) == Append(s, frame)

\* deque.append with a maxlen: the oldest frame silently makes room.
DequeAppend(s, frame) ==
  IF Len(s) = max_frames THEN Append(Tail(s), frame) ELSE Append(s, frame)

\* Faulty variant: one frame too many is evicted.
AppendEvictingMore(frame) ==
  LET k == IF Evictions < Len(ring) /\ Evictions > 0 THEN Evictions + 1 ELSE Evictions
  IN  /\ ring' = DequeAppend(SubSeq(ring, k + 1, Len(ring)), frame)
      /\ current_bytes' = current_bytes - k * frame_bytes + frame_bytes
      /\ appended' = IF appended < max_frames THEN appended + 1 ELSE appended

append(frame) ==
  LET k == Evictions
  IN  /\ ring' = DequeAppend(SubSeq(ring, k + 1, Len(ring)), frame)
      /\ current_bytes' = current_bytes - k * frame_bytes + frame_bytes
      /\ appended' = IF appended < max_frames THEN appended + 1 ELSE appended

\* Faulty variant: the frames are handed out and kept.
DrainKeeping == UNCHANGED ringVars

\* drain(): the caller takes `ring' as it was.
drain == ring' = <<>> /\ current_bytes' = 0 /\ appended' = 0

-------------------------------------------------------------------------------
AtLeast(a, b) == IF a > b THEN a ELSE b
AtMost(a, b)  == IF a < b THEN a ELSE b

(* What the ring is for: it holds the newest frames, as many as were         *)
(* appended and both limits allow (always the newest one), although the      *)
(* estimate that decides about the memory limit drifts away from the frames  *)
(* the ring really holds (ring_buffer.py:28-30, 60-70).                      *)
RingHoldsNewest(newest) ==
  LET capacity == AtLeast(1, AtMost(max_frames, max_bytes \div frame_bytes))
      size     == AtMost(appended, capacity)
  IN  ring = [i \in 1 .. size |-> newest - size + i]

================================================================================
