CONSTANTS
  INTERVAL = 1
  FUTURE_TOLERANCE = 1
  CHECK_INTERVAL = 1
  CLOCK_JUMP = 2
  CLOCK_ACCEPT = 3
  Metrics = {"temperature"}
  Polled = {"temperature"}
  Values = {"hot", "cool"}
  RuleSets <- MCHotRules
  Targets <- MCHotTargets
  Certificates0 <- MCNoCertificate
  Alerts0 <- MCNoAlerts
  RAW_KEPT = 20
  BUCKET = 2
  Offsets0 <- MCRight
  Offsets <- MCBehind
  Incidents = {}
  MaxTime = 8
  MaxSets = 1
  MaxChanges = 0
  MaxAlerts = 1
SPECIFICATION Spec
CHECK_DEADLOCK FALSE
INVARIANTS
  GapNeverClears
