CONSTANTS
  r115200 = r115200
  r38400 = r38400
  r300 = r300
  Rates <- MCRates
  None = None
  MaxChanges = 2
  MaxEdits = 2
  MaxFaults = 1
SPECIFICATION FairSpec
INVARIANTS
  PortHasAnOwner
  RunsOnItsData
PROPERTIES
  PanelIsFound
CHECK_DEADLOCK FALSE
