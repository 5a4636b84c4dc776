SPECIFICATION Spec
CONSTANTS
  MaxFrames = 5
  PushToHub = TRUE
  upload_every_n_episodes = 2
INVARIANT HubIsReadable
