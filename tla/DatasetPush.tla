----------------------------- MODULE DatasetPush -----------------------------
(***************************************************************************)
(* What the recording strategies (rollout/strategies) share: the dataset   *)
(* under recording, the lock between saving and pushing, the single-worker *)
(* push executor, and the copy of the dataset on the Hub.                  *)
(*                                                                         *)
(* A frame is its number.  Of the files only those being written matter:   *)
(* finalize() alone writes their footers and the metadata rows still       *)
(* buffered (lerobot_dataset.py:412-425, dataset_metadata.py:465-469).     *)
(* info.json counts an episode as soon as it is saved; a reader finds all  *)
(* it counts only in closed files (readable).                              *)
(***************************************************************************)
EXTENDS Integers, Sequences

CONSTANTS
  MaxFrames,    (* frames the rollout may produce                           *)
  PushToHub     (* cfg.dataset.push_to_hub                                  *)

ASSUME PushAssumption == MaxFrames \in Nat /\ PushToHub \in BOOLEAN

VARIABLES
  buffer,       (* frames of the episode being recorded                     *)
  broken,       (* a save or a drain failed half-way: the buffer is lost    *)
  saved,        (* episodes saved so far                                    *)
  file,         (* the parquet files: "none", or "open" or "closed"         *)
  queued,       (* tasks waiting in the executor                            *)
  pusher,       (* "idle", or "upload": the worker holds _episode_lock      *)
  copy,         (* what the upload under way has read                       *)
  hub           (* the Hub's copy: episodes by its info.json, and readable  *)

fileVars == <<buffer, broken, saved, file>>
pushVars == <<queued, pusher, copy, hub>>
dataVars == <<fileVars, pushVars>>

NoCopy == [episodes |-> 0, readable |-> TRUE]

DataInit ==
  /\ buffer = <<>> /\ broken = FALSE /\ saved = <<>> /\ file = "none"
  /\ queued = 0 /\ pusher = "idle" /\ copy = NoCopy /\ hub = NoCopy

\* _episode_lock is free; the main thread holds it within single steps.
LockFree == pusher # "upload"

-------------------------------------------------------------------------------
(* The dataset.                                                              *)

CanSave == buffer # <<>> /\ ~broken

save_episode ==
  /\ LockFree /\ CanSave
  /\ saved' = Append(saved, buffer) /\ buffer' = <<>> /\ file' = "open"
  /\ UNCHANGED broken

\* validate_episode_buffer refuses the buffer, or something fails after its
\* "size" was popped (data, video, metadata).
SaveRaises ==
  /\ LockFree
  /\ \/ ~CanSave /\ UNCHANGED <<broken, file>>
     \/ CanSave /\ broken' = TRUE /\ file' \in {file, "open"}
  /\ UNCHANGED <<buffer, saved>>

\* VideoEncodingManager.__exit__: nobody asks for the lock.
finalize ==
  /\ file' = IF file = "open" THEN "closed" ELSE file
  /\ UNCHANGED <<buffer, broken, saved>>

-------------------------------------------------------------------------------
(* The executor: _background_push, with one worker.                          *)

submit == queued' = queued + 1 /\ UNCHANGED <<pusher, copy, hub>>

BeginUpload ==
  /\ queued > 0 /\ LockFree /\ saved # <<>>
  /\ queued' = queued - 1 /\ pusher' = "upload"
  /\ copy' = [episodes |-> Len(saved), readable |-> file = "closed"]
  /\ UNCHANGED <<fileVars, hub>>

\* safe_push_to_hub: no episodes yet.
SkipUpload ==
  /\ queued > 0 /\ LockFree /\ saved = <<>>
  /\ queued' = queued - 1
  /\ UNCHANGED <<fileVars, pusher, copy, hub>>

\* A file closed during the upload was read before it, or after.
EndUpload ==
  /\ pusher = "upload" /\ pusher' = "idle" /\ copy' = NoCopy
  /\ \E readable \in {copy.readable, file = "closed"} :
       hub' = [copy EXCEPT !.readable = readable]
  /\ UNCHANGED <<fileVars, queued>>

UploadFails ==
  /\ pusher = "upload" /\ pusher' = "idle" /\ copy' = NoCopy
  /\ UNCHANGED <<fileVars, queued, hub>>

\* teardown's executor.shutdown(wait=True) has returned.
PushesDone == queued = 0 /\ pusher = "idle"

\* teardown's own push, by the main thread.
FinalPush ==
  /\ hub' = [episodes |-> Len(saved), readable |-> file # "open"]
  /\ UNCHANGED <<fileVars, queued, pusher, copy>>

-------------------------------------------------------------------------------
Frames == 1 .. MaxFrames

Copies == [episodes : 0 .. MaxFrames, readable : BOOLEAN]

(* Types of the recording's state.                                           *)
DataTypeOK ==
  /\ buffer \in Seq(Frames) /\ broken \in BOOLEAN
  /\ saved \in Seq(Seq(Frames))
  /\ file \in {"none", "open", "closed"}
  /\ queued \in Nat /\ pusher \in {"idle", "upload"}
  /\ copy \in Copies /\ hub \in Copies

================================================================================
