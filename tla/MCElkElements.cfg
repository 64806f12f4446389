CONSTANTS
  Kinds = {"panel", "zones", "areas", "counters", "users"}
  Size <- MCSize
  Named <- MCNamed
  Analog <- MCAnalog
  Renaming = {0, 1}
  MaxChanges = 1
  MaxPolls = 1
  MaxFaults = 1
SPECIFICATION Spec
CHECK_DEADLOCK FALSE
INVARIANTS
  NamesComplete
  MirrorIsTrue
  EntitiesFollow
  SnapshotLagsOneName
