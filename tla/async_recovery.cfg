SPECIFICATION Spec
CONSTANTS
  ActionsPerChunk = 2
  ThresholdNum = 1
  ThresholdDen = 2
  Horizon = 1
  Timesteps <- MCTimesteps
  Workers = {w1, w2}
  PatientGet = FALSE
  NoWorker = NoWorker
  Similar = {FALSE}
  MaxFaults = 1
  MaxSessions = 2
SYMMETRY WorkerSymmetry
INVARIANTS TypeOK QueueIsOneChunk ActionsWerePredicted
