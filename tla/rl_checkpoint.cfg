SPECIFICATION RLSpec
CONSTANTS
  online_steps = 2
  capacity = 2
  MaxRepeats = 1
  online_step_before_learning = 2
  save_checkpoint = TRUE
  MaxVersion = 1
  MaxQueued = 1
  MaxRetries = 1
  RetryBuffer = 2
INVARIANT CheckpointKeepsStep
CHECK_DEADLOCK FALSE
