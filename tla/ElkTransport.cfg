CONSTANTS
  Tasks = {t1, t2}
  None = None
  InitialRetryDelay = 1
  MaxRetryDelay = 5
  PollThreshold = 2
SPECIFICATION FairSpec
INVARIANTS
  OneConnectTask
  TransportIsSupervised
PROPERTIES
  SilentLinkIsGivenUp
  RecoversAfterOutage
  TeardownEnds
