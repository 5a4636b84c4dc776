----------------------------- MODULE ReplayBuffer -----------------------------
(***************************************************************************)
(* The learner's replay buffer (rl/buffer.py) with optimize_memory: a ring *)
(* of transitions that stores only the state of each; sample takes the     *)
(* next state from the slot behind it.                                     *)
(*                                                                         *)
(* An observation is its number; the next_state of a slot is what the code *)
(* would store without optimize_memory and, with it, throws away.  The     *)
(* producer of transitions is open: process_transitions adds those of an   *)
(* actor one after the other and skips those that contain NaN.             *)
(***************************************************************************)
EXTENDS Integers

CONSTANTS
  capacity,
  MaxRepeats   (* how often what has been added may come again               *)

ASSUME CapacityAssumption == capacity \in Nat \ {0} /\ MaxRepeats \in Nat

VARIABLES
  slots, position, size,
  last,      (* <<>>, or the transition that was added or skipped last      *)
  skipped,   (* the states of the skipped transitions                       *)
  repeats    (* (history) how often the transitions went back               *)

replayVars == <<slots, position, size, last, skipped, repeats>>

Slot == 0 .. capacity - 1
\* ends: done or truncated.
Transition == [state : Nat, next_state : Nat, ends : BOOLEAN]

\* torch.empty: what a slot holds before its first add.
Garbage == [state |-> 0, next_state |-> 0, ends |-> FALSE]

ReplayInit ==
  /\ slots = [i \in Slot |-> Garbage] /\ position = 0 /\ size = 0
  /\ last = <<>> /\ skipped = {} /\ repeats = 0

-------------------------------------------------------------------------------
\* After an episode, t is not of a later one.
GoesBack(t) == last # <<>> /\ last[1].ends /\ t.state <= last[1].next_state

Take(t) == last' = <<t>> /\ repeats' = IF GoesBack(t) THEN repeats + 1 ELSE repeats

add(t) ==
  /\ slots' = [slots EXCEPT ![position] = t]
  /\ position' = (position + 1) % capacity
  /\ size' = IF size < capacity THEN size + 1 ELSE capacity
  /\ Take(t) /\ UNCHANGED skipped

\* "NaN detected in transition, skipping".
skip(t) ==
  /\ Take(t) /\ skipped' = skipped \cup {t.state}
  /\ UNCHANGED <<slots, position, size>>

\* Transitions come in the order of the environment's steps; only a whole
\* episode comes again, and that MaxRepeats times.
Follows(t) ==
  /\ last # <<>> => last[1].ends \/ t.state = last[1].next_state
  /\ GoesBack(t) => repeats < MaxRepeats

Fed(t) == t \in Transition /\ Follows(t) /\ (add(t) \/ skip(t))

ReplayNext == last' # <<>> /\ Fed(last'[1])

ReplaySpec == ReplayInit /\ [][ReplayNext]_replayVars

-------------------------------------------------------------------------------
(* sample.                                                                   *)

\* Faulty variant: the newest transition of a filling buffer is sampled too.
HighWithNewest == size

\* The newest slot of a buffer that is not full yet has nothing behind it.
high == IF size < capacity THEN (IF size > 0 THEN size - 1 ELSE 0) ELSE size

next_idx(i) == (i + 1) % capacity

\* The slot that was written last.
Newest == IF position = 0 THEN capacity - 1 ELSE position - 1

-------------------------------------------------------------------------------
(* What sample pairs with a state is the state that followed it, but for     *)
(* exactly these: the ends of episodes, states whose successor was skipped,  *)
(* and the newest slot of a full buffer, behind which the oldest one lies    *)
(* (buffer.py:192-257).                                                      *)
SampledNextFollows ==
  \A i \in 0 .. high - 1 :
    \/ slots[next_idx(i)].state = slots[i].next_state
    \/ slots[i].ends
    \/ slots[i].next_state \in skipped
    \/ size = capacity /\ i = Newest
================================================================================
