SPECIFICATION Spec
CONSTANTS
  video_keys = {front, wrist}
  chunks_size = 2
  metadata_buffer_size = 2
  MaxFrames = 4
  MaxSessions = 3
INVARIANT FailureReadsBack
CHECK_DEADLOCK FALSE
