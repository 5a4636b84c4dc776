SPECIFICATION RolloutSpec
CONSTANTS
  Step <- MCStep
  Action <- MCAction
  Chunks <- MCChunks
  Delays <- MCDelays
  ChunkSize = 6
  queue_threshold = 3
  warmup_required = 2
  MaxErrors = 2
  MaxLatency = 1
  MaxPauses = 1
  Compile = {TRUE, FALSE}
  MaxFrames = 6
  PushToHub = TRUE
  upload_every_n_episodes = 2
  max_frames = 2
  max_bytes = 7
  frame_bytes = 2
  MaxSaves = 4
  MaxPushes = 2
  MaxRecorded = 3
  record_stride = 2
  num_episodes = 2
  MaxQueued = 1
  MaxCorrections = 2
INVARIANTS
  RTCTypeOK LeftOverMatchesPlan
  TypeOK NoEpisodeForgotten HubHasAll
  HighlightTypeOK RingIsRecent EpisodesAreStretches NothingUnsaved HubIsComplete
  RequestFitsPhase CorrectionsAreWhole NothingForgotten
PROPERTIES
  ImplementsPlan PlanFollowsTime NeverStarves FailureEndsRollout StopEndsThread
  SessionEnds
