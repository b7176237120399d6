CONSTANTS
  INTERVAL = 1
  FUTURE_TOLERANCE = 1
  CHECK_INTERVAL = 1
  CLOCK_JUMP = 2
  CLOCK_ACCEPT = 3
  Metrics = {"temperature"}
  Polled = {"temperature"}
  Values = {"hot", "cool"}
  RuleSets <- MCReadingRules
  Targets <- MCReadingTargets
  Certificates0 <- MCNoCertificate
  Alerts0 <- MCNoAlerts
  RAW_KEPT = 1
  BUCKET = 2
  Offsets0 <- MCBehindOrRight
  Offsets <- MCRight
  Incidents = {"crash"}
  MaxTime = 4
  MaxSets = 1
  MaxChanges = 0
  MaxAlerts = 1
SPECIFICATION Spec
CHECK_DEADLOCK FALSE
INVARIANTS
  HysteresisHolds
  SilenceIsElapsed
