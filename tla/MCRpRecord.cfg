CONSTANTS
  Tables <- MCTables
  NoisyTables <- MCNoisyTables
  NoiseBytes <- MCNoiseBytes
  MaxAttempts = 4
  MaxReads = 1
  MaxEdits = 1
  MaxNoise = 1
SPECIFICATION Spec
CHECK_DEADLOCK FALSE
INVARIANTS
  OneErrorIsSurvived
PROPERTY
  WriteIsMeant
