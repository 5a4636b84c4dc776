------------------------------ MODULE AsyncTypes ------------------------------
(***************************************************************************)
(* Constants and message shapes shared by the two ends of asynchronous     *)
(* inference: RobotClient (robot_client.py) and PolicyServer               *)
(* (policy_server.py).  An action tensor is abstracted to the timestep it  *)
(* is meant for; an observation to the timestep it was captured at, its    *)
(* must_go flag and the client session that captured it.                   *)
(***************************************************************************)
EXTENDS Integers, Sequences

CONSTANTS
  ActionsPerChunk,   (* actions_per_chunk of RobotClientConfig              *)
  ThresholdNum,      (* chunk_size_threshold is                             *)
  ThresholdDen,      (*   ThresholdNum / ThresholdDen                       *)
  Horizon,           (* bound: no action is popped once latest reaches it   *)
  Timesteps          (* timesteps an observation can carry                  *)

\* configs.py:173-180 validates the threshold and actions_per_chunk.
ASSUME AsyncAssumption ==
  /\ ActionsPerChunk \in Nat \ {0}
  /\ ThresholdNum \in Nat
  /\ ThresholdDen \in Nat \ {0}
  /\ ThresholdNum <= ThresholdDen
  /\ Horizon \in Nat
  /\ Timesteps \subseteq Nat

\* The timesteps of the chunk predicted from an observation at t0.
TimeActionChunk(t0) == [i \in 1..ActionsPerChunk |-> t0 + i - 1]

Chunks == { TimeActionChunk(t0) : t0 \in Timesteps }

Ascending(s) == \A i, j \in 1..Len(s) : i < j => s[i] < s[j]

================================================================================
