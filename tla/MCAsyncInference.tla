------------------------------ MODULE MCAsyncInference ------------------------------
(* AsyncInference on small instances. *)
EXTENDS AsyncInference, TLC

\* A gap in a queue can carry latest past Horizon by a chunk.
MCTimesteps == 0 .. Horizon + ActionsPerChunk

WorkerSymmetry == Permutations(Workers)

================================================================================
