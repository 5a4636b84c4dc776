--------------------------- MODULE PendingActions ---------------------------
(***************************************************************************)
(* What ActionQueue (policies/rtc/action_queue.py) promises the control    *)
(* loop: a plain first-in first-out plan of the actions still to perform.  *)
(* There is no consumption index: taking an action removes it, a merge     *)
(* either replaces the plan by a chunk without its first `delay' actions,  *)
(* or puts the chunk behind it.                                            *)
(***************************************************************************)
EXTENDS Integers, Sequences

CONSTANTS
  Step,     (* the raw forms of actions: what the policy outputs            *)
  Action,   (* their processed forms: what the robot is given               *)
  Chunks,   (* what inference may return: both forms of the same actions    *)
  Delays    (* the delays that may be measured, in time steps               *)

VARIABLES plan, replaces

\* s without its first n elements; s[n:] in the code, nothing if n is large.
Drop(s, n) == SubSeq(s, n + 1, Len(s))

PlanInit == plan = <<>> /\ replaces \in BOOLEAN

Take == plan # <<>> /\ plan' = Tail(plan) /\ UNCHANGED replaces

Forget == plan' = <<>> /\ UNCHANGED replaces

Replan(chunk, delay) ==
  replaces /\ plan' = Drop(chunk.processed, delay) /\ UNCHANGED replaces

Extend(chunk) ==
  ~replaces /\ plan' = plan \o chunk.processed /\ UNCHANGED replaces

PlanNext ==
  \/ Take
  \/ Forget
  \/ \E chunk \in Chunks, delay \in Delays : Replan(chunk, delay)
  \/ \E chunk \in Chunks : Extend(chunk)

PlanSpec == PlanInit /\ [][PlanNext]_<<plan, replaces>>

================================================================================
