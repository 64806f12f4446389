CONSTANTS
  Callers = {c1, c2}
  Commands <- MCCommands
  Areas = {1}
  Zones = {1}
  Registers <- MCRegisters
  MaxCalls = 2
  MaxEvents = 2
SPECIFICATION Spec
SYMMETRY MCSymmetry
CHECK_DEADLOCK FALSE
INVARIANTS
  UndisturbedSuccess
  AtMostOnce
