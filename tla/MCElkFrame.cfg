CONSTANTS
  Reports <- MCReports
  Requests <- MCRequests
  Commands <- MCCommands
  NoiseChars <- MCNoiseChars
  ReadSize = 4
  MaxFrame = 9
  MaxSaid = 2
  MaxNoise = 1
SPECIFICATION FrameSpec
CHECK_DEADLOCK FALSE
INVARIANTS
  OneErrorIsDetected
  ErrorCostsOneMessage
  RequestIsFramed
PROPERTY
  ChunksAreInvisible
