CONSTANTS
  Threads = {t1, t2}
  BATCH_MAX = 2
  MaxRecords = 4
  MaxFaults = 2
SPECIFICATION Spec
CHECK_DEADLOCK FALSE
INVARIANTS
  ChainSurvives
  AcknowledgedIsHeld
  NoRecordForgotten
PROPERTY
  ComesToRest
