SPECIFICATION DataSpec
CONSTANTS
  online_steps = 2
  capacity = 2
  MaxRepeats = 1
  online_step_before_learning = 1
  save_checkpoint = FALSE
  MaxVersion = 1
  MaxQueued = 2
  MaxRetries = 1
  RetryBuffer = 2
  video_keys = {front}
  chunks_size = 2
  metadata_buffer_size = 2
  queue_maxsize = 2
  MaxFrames = 4
  MaxSessions = 3
  MaxEpisodes = 2
  MaxConnections = 2
  MaxCaptured = 3
  MaxFailures = 1
INVARIANTS
  TypeOK SampledNextFollows ParametersGetNewer
  RecordingTypeOK ListedIsStored SessionsReadBack FailuresLeaveItWhole FinishedIsFed
  ObservationsAreCurrent
PROPERTIES
  ReplayIsFed ActorJoins ListedStays ThreadsEnd
CHECK_DEADLOCK FALSE
