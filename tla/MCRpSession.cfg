CONSTANTS
  Web = {w1}
  Items <- MCItems
  Values = {v}
  Books = {b1, b2}
  MaxRequests = 3
  MaxFaults = 2
  Blank = Blank
  Absent = Absent
SPECIFICATION Spec
CHECK_DEADLOCK FALSE
INVARIANTS
  RepliesAreOurs
  ReceiveAccountsForAll
PROPERTIES
  ReceiveKeepsToItsAccount
  EveryRequestEnds
