CONSTANTS
  None = None
  Alerts = {"hot"}
  MaxBuffered = 2
  MaxEdits = 1
  MaxSockets = 3
  MaxSessions = 2
  MaxBreaks = 1
SPECIFICATION Spec
INVARIANT ShowsTheForm
CHECK_DEADLOCK FALSE
