------------------------------ MODULE PolicyServer ------------------------------
(***************************************************************************)
(* The policy side of asynchronous inference (policy_server.py): a gRPC    *)
(* servicer whose handlers run concurrently on a thread pool (Workers) and *)
(* share the one-place observation queue, the set of predicted timesteps   *)
(* and last_processed_obs.  A worker's job is a record: where the handler  *)
(* is, the observation it works on, and the session whose queue object it  *)
(* waits on: _reset_server replaces the queue, and a handler blocked in    *)
(* get or put stays with the object it called.                             *)
(***************************************************************************)
EXTENDS AsyncTypes

CONSTANTS
  Workers,       (* the threads of futures.ThreadPoolExecutor                *)
  PatientGet     (* obs_queue_timeout outlasts the instructions between a    *)
                 (* sender's eviction and its put (0 is a legal timeout)     *)

ASSUME ServerAssumption == PatientGet \in BOOLEAN

VARIABLES
  obsQueue,     (* the objects self.observation_queue has been, last is now  *)
  predicted,    (* self._predicted_timesteps                                 *)
  hasLast,      (* self.last_processed_obs is not None                       *)
  policy,       (* self.policy is loaded                                     *)
  job           (* what each worker is doing                                 *)

serverVars == <<obsQueue, predicted, hasLast, policy, job>>

Observations == [timestep : Nat \cup {-1}, mustGo : BOOLEAN, session : Nat]
NoJob == [pc |-> "free", session |-> 0,
          obs |-> [timestep |-> -1, mustGo |-> FALSE, session |-> 0]]

SendReplies == {"sent", "failed"}
GetReplies  == {"chunk", "empty"}
JobSteps == {"free", "filter", "full", "evict", "put", "blocked",
             "get", "record", "prepare", "infer"}
            \cup SendReplies \cup GetReplies

At(w, pc) == job[w].pc = pc
GoTo(w, pc) == job' = [job EXCEPT ![w].pc = pc]

Session == Len(obsQueue)
Current == obsQueue[Session]
QueueOf(w) == obsQueue[job[w].session]

ServerInit ==
  /\ obsQueue = <<<<>>>> /\ predicted = {} /\ hasLast = FALSE
  /\ policy = FALSE /\ job = [w \in Workers |-> NoJob]

-------------------------------------------------------------------------------
\* Ready: _reset_server.  last_processed_obs survives it.
ResetServer ==
  /\ \E w \in Workers : At(w, "free")
  /\ obsQueue' = Append(obsQueue, <<>>) /\ predicted' = {}
  /\ UNCHANGED <<hasLast, policy, job>>

SendPolicyInstructions ==
  /\ \E w \in Workers : At(w, "free")
  /\ policy' = TRUE
  /\ UNCHANGED <<obsQueue, predicted, hasLast, job>>

\* SendObservations: the observation has been received and unpickled.
AcceptObservation(w, o) ==
  /\ At(w, "free")
  /\ job' = [job EXCEPT ![w] = [pc |-> "filter", session |-> Session, obs |-> o]]
  /\ UNCHANGED <<obsQueue, predicted, hasLast, policy>>

\* _obs_sanity_checks; observations_similar is a choice of the environment.
ObsSanityChecks(o, similar) == o.timestep \notin predicted /\ ~similar

\* Faulty variant: must_go is not looked at.
FilterIgnoringMustGo(w, similar) ==
  /\ At(w, "filter")
  /\ GoTo(w, IF ~hasLast \/ ObsSanityChecks(job[w].obs, similar) THEN "full" ELSE "sent")
  /\ UNCHANGED <<obsQueue, predicted, hasLast, policy>>

FilterObservation(w, similar) ==
  /\ At(w, "filter")
  /\ LET o == job[w].obs
         enqueue == o.mustGo \/ ~hasLast \/ ObsSanityChecks(o, similar)
     IN  GoTo(w, IF enqueue THEN "full" ELSE "sent")
  /\ UNCHANGED <<obsQueue, predicted, hasLast, policy>>

\* Faulty variant: the old observation is not removed.
NeverEvict(w) ==
  /\ At(w, "full")
  /\ GoTo(w, "put")
  /\ UNCHANGED <<obsQueue, predicted, hasLast, policy>>

CheckFull(w) ==
  /\ At(w, "full")
  /\ GoTo(w, IF Current # <<>> THEN "evict" ELSE "put")
  /\ UNCHANGED <<obsQueue, predicted, hasLast, policy>>

\* get_nowait raises Empty, and the RPC fails, when GetActions was faster.
EvictObservation(w) ==
  /\ At(w, "evict")
  /\ obsQueue' = [obsQueue EXCEPT ![Session] = <<>>]
  /\ GoTo(w, IF Current = <<>> THEN "failed" ELSE "put")
  /\ UNCHANGED <<predicted, hasLast, policy>>

\* put finds the queue full and waits, on the object of this moment.
PutBlocks(w) ==
  /\ At(w, "put") /\ Current # <<>>
  /\ job' = [job EXCEPT ![w].pc = "blocked", ![w].session = Session]
  /\ UNCHANGED <<obsQueue, predicted, hasLast, policy>>

\* Faulty variant: the queue has no maxsize.
PutUnbounded(w) ==
  /\ At(w, "put")
  /\ obsQueue' = [obsQueue EXCEPT ![Session] = Append(@, job[w].obs)]
  /\ GoTo(w, "sent")
  /\ UNCHANGED <<predicted, hasLast, policy>>

PutObservation(w) ==
  /\ \/ At(w, "put") /\ Current = <<>>
        /\ obsQueue' = [obsQueue EXCEPT ![Session] = <<job[w].obs>>]
     \/ At(w, "blocked") /\ QueueOf(w) = <<>>
        /\ obsQueue' = [obsQueue EXCEPT ![job[w].session] = <<job[w].obs>>]
  /\ GoTo(w, "sent")
  /\ UNCHANGED <<predicted, hasLast, policy>>

-------------------------------------------------------------------------------
\* GetActions: starts to wait on the queue object of the moment.
AcceptGetActions(w) ==
  /\ At(w, "free")
  /\ job' = [job EXCEPT ![w] = [NoJob EXCEPT !.pc = "get", !.session = Session]]
  /\ UNCHANGED <<obsQueue, predicted, hasLast, policy>>

TakeObservation(w) ==
  /\ At(w, "get") /\ QueueOf(w) # <<>>
  /\ job' = [job EXCEPT ![w].pc = "record", ![w].obs = QueueOf(w)[1]]
  /\ obsQueue' = [obsQueue EXCEPT ![job[w].session] = <<>>]
  /\ UNCHANGED <<predicted, hasLast, policy>>

GetTimeout(w) ==
  /\ At(w, "get") /\ QueueOf(w) = <<>>
  /\ PatientGet => \A v \in Workers : ~At(v, "put")
  /\ GoTo(w, "empty")
  /\ UNCHANGED <<obsQueue, predicted, hasLast, policy>>

\* Faulty variant: the timestep is never recorded.
SkipRecording(w) ==
  /\ At(w, "record")
  /\ GoTo(w, "prepare")
  /\ UNCHANGED <<obsQueue, predicted, hasLast, policy>>

RecordTimestep(w) ==
  /\ At(w, "record")
  /\ predicted' = predicted \cup {job[w].obs.timestep}
  /\ GoTo(w, "prepare")
  /\ UNCHANGED <<obsQueue, hasLast, policy>>

\* Conversion and preprocessing end by setting last_processed_obs.
PrepareObservation(w) ==
  /\ At(w, "prepare") /\ policy
  /\ hasLast' = TRUE
  /\ GoTo(w, "infer")
  /\ UNCHANGED <<obsQueue, predicted, policy>>

InferChunk(w) ==
  /\ At(w, "infer")
  /\ GoTo(w, "chunk")
  /\ UNCHANGED <<obsQueue, predicted, hasLast, policy>>

\* Any exception of _predict_action_chunk is logged and answered with Empty.
PredictionFails(w) ==
  /\ At(w, "prepare") \/ At(w, "infer")
  /\ GoTo(w, "empty")
  /\ UNCHANGED <<obsQueue, predicted, hasLast, policy>>

\* The handler returns and its thread goes back to the pool.
Release(w) ==
  /\ job[w].pc \in SendReplies \cup GetReplies
  /\ job' = [job EXCEPT ![w] = NoJob]
  /\ UNCHANGED <<obsQueue, predicted, hasLast, policy>>

-------------------------------------------------------------------------------
\* The steps a handler takes by itself.
SendStep(w) == CheckFull(w) \/ EvictObservation(w) \/ PutBlocks(w) \/ PutObservation(w)
GetStep(w) == TakeObservation(w) \/ GetTimeout(w) \/ RecordTimestep(w)
              \/ PrepareObservation(w) \/ InferChunk(w)

\* Types of the server's state.
ServerTypeOK ==
  /\ obsQueue \in Seq(Seq(Observations))
  /\ \A n \in 1..Session : Len(obsQueue[n]) <= 1
  /\ predicted \subseteq Nat \cup {-1}
  /\ hasLast \in BOOLEAN /\ policy \in BOOLEAN
  /\ job \in [Workers -> [pc : JobSteps, session : Nat, obs : Observations]]

\* "never blocks as queue is non-full here": no handler ever waits in put
\* (policy_server.py:301-307).
PutNeverBlocks == \A w \in Workers : ~At(w, "blocked")

================================================================================
