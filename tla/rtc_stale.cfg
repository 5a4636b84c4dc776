SPECIFICATION RTCSpec
CONSTANTS
  Step <- MCStep
  Action <- MCAction
  Chunks <- MCChunks
  Delays <- MCDelays
  ChunkSize = 6
  queue_threshold = 3
  warmup_required = 2
  MaxErrors = 2
  MaxLatency = 1
  MaxPauses = 0
  Compile = {TRUE}
PROPERTY NoStaleActions
