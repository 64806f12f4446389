CONSTANTS
  Replies <- MCReplies
  None = "none"
  SyncBatch <- MCSyncBatch
  MaxSends = 4
  MaxSessions = 2
  MaxEvents = 2
  Lossy = TRUE
SPECIFICATION FairSpec
CHECK_DEADLOCK FALSE
INVARIANTS
  PauseTracksPanel
PROPERTIES
  KeepsPromise
  QueueDrains
