----------------------------- MODULE ActionQueue -----------------------------
(***************************************************************************)
(* The queue between the inference thread and the control loop             *)
(* (policies/rtc/action_queue.py).  A chunk is kept in two forms, the raw  *)
(* one for the policy's next prefix and the processed one for the robot;   *)
(* last_index counts what the robot has consumed of either.  Every method  *)
(* holds the lock, so each is one step.  None and the empty tensor are the *)
(* same to every method, and both are <<>> here.                           *)
(***************************************************************************)
EXTENDS Integers, Sequences

CONSTANTS Step, Action, Chunks, Delays

ASSUME QueueAssumption ==
  /\ Chunks \subseteq [original : Seq(Step), processed : Seq(Action)]
  /\ \A chunk \in Chunks : Len(chunk.original) = Len(chunk.processed)
  /\ Delays \subseteq Nat

VARIABLES
  queue,            (* processed actions                                    *)
  original_queue,   (* the same actions as the policy output them           *)
  last_index,       (* how many of them were consumed                       *)
  enabled           (* cfg.enabled: a merge replaces instead of appending   *)

queueVars == <<queue, original_queue, last_index, enabled>>

Drop(s, n) == SubSeq(s, n + 1, Len(s))

QueueInit ==
  /\ queue = <<>> /\ original_queue = <<>> /\ last_index = 0
  /\ enabled \in BOOLEAN

qsize == Len(queue) - last_index

\* What get() returns when it returns an action.
NextAction == queue[last_index + 1]

Get ==
  /\ last_index < Len(queue)
  /\ last_index' = last_index + 1
  /\ UNCHANGED <<queue, original_queue, enabled>>

Clear ==
  /\ queue' = <<>> /\ original_queue' = <<>> /\ last_index' = 0
  /\ UNCHANGED enabled

\* Faulty variant: the delay is measured but nothing is discarded for it.
ReplaceAll(chunk, delay) ==
  /\ original_queue' = chunk.original
  /\ queue' = chunk.processed
  /\ last_index' = 0

_replace_actions_queue(chunk, delay) ==
  LET clamped_delay == IF delay < Len(chunk.original) THEN delay ELSE Len(chunk.original)
  IN  /\ original_queue' = Drop(chunk.original, clamped_delay)
      /\ queue' = Drop(chunk.processed, clamped_delay)
      /\ last_index' = 0

\* Faulty variant: the consumed actions stay in the raw queue.
AppendUntruncated(chunk) ==
  /\ original_queue' = original_queue \o chunk.original
  /\ queue' = Drop(queue \o chunk.processed, last_index)
  /\ last_index' = 0

\* Faulty variant: the consumed actions are dropped, but the index is kept.
AppendKeepingIndex(chunk) ==
  /\ original_queue' = Drop(original_queue \o chunk.original, last_index)
  /\ queue' = Drop(queue \o chunk.processed, last_index)
  /\ UNCHANGED last_index

_append_actions_queue(chunk) ==
  /\ original_queue' = Drop(original_queue \o chunk.original, last_index)
  /\ queue' = Drop(queue \o chunk.processed, last_index)
  /\ last_index' = 0

merge(chunk, delay) ==
  /\ \/ enabled /\ _replace_actions_queue(chunk, delay)
     \/ ~enabled /\ _append_actions_queue(chunk)
  /\ UNCHANGED enabled

QueueNext ==
  \/ Get
  \/ Clear
  \/ \E chunk \in Chunks, delay \in Delays : merge(chunk, delay)

QueueSpec == QueueInit /\ [][QueueNext]_queueVars

-------------------------------------------------------------------------------
(* Types of the queue's state.                                               *)
QueueTypeOK ==
  /\ queue \in Seq(Action)
  /\ original_queue \in Seq(Step)
  /\ last_index \in Nat
  /\ enabled \in BOOLEAN

(* The two forms never drift apart, and the index never leaves them: what    *)
(* get_left_over hands the policy as the prefix has one raw action for each  *)
(* action the robot still has to perform.                                    *)
LeftOverMatchesPlan ==
  /\ Len(original_queue) = Len(queue)
  /\ last_index <= Len(queue)

(* get, clear, qsize and merge together are a first-in first-out plan: no    *)
(* action is performed twice, skipped or reordered by the index arithmetic.  *)
Plan == INSTANCE PendingActions WITH plan <- Drop(queue, last_index), replaces <- enabled
ImplementsPlan == Plan!PlanSpec

================================================================================
