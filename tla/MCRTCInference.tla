--------------------------- MODULE MCRTCInference ---------------------------
(* RTCInference on small instances. *)
EXTENDS RTCInference

MCStep == 0 .. ChunkSize - 1

MCAction == [step : MCStep, obs : Observations]

MCChunks == {ChunkFrom(observation) : observation \in {"old", "new"}}

MCDelays == 0 .. ChunkSize + 2

================================================================================
