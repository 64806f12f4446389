CONSTANTS
  Asked <- MCAsked
  Reported <- MCReported
  Answers <- MCAnswers
  UtcOffset <- MCUtcOffset
SPECIFICATION Spec
CHECK_DEADLOCK FALSE
INVARIANTS
  CommandsAreTaken
  ReportsAreHeard
