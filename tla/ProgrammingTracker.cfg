CONSTANTS
  Apps = {app1, app2}
  Entries = {e1, e2}
  None = None
  Live = Live
  HISTORY_LIMIT = 2
  MaxSessions = 4
  MaxReports = 3
  MaxRestarts = 1
SPECIFICATION FairSpec
INVARIANTS
  NeverTwice
  IssuesAgree
PROPERTIES
  NothingForgotten
  SavedAtLast
CHECK_DEADLOCK FALSE
