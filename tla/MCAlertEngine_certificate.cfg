CONSTANTS
  INTERVAL = 1
  FUTURE_TOLERANCE = 1
  CHECK_INTERVAL = 1
  CLOCK_JUMP = 2
  CLOCK_ACCEPT = 3
  Metrics = {"certificate", "temperature"}
  Polled = {}
  Values = {}
  RuleSets <- MCSavedRules
  Targets <- MCCertificateTargets
  Certificates0 <- MCCertificates
  Alerts0 <- MCOldAlerts
  RAW_KEPT = 20
  BUCKET = 2
  Offsets0 <- MCRight
  Offsets <- MCAheadOrRight
  Incidents = {"crash", "throw", "acknowledge"}
  MaxTime = 4
  MaxSets = 1
  MaxChanges = 1
  MaxAlerts = 2
SPECIFICATION Spec
CHECK_DEADLOCK FALSE
INVARIANTS
  CertificateOnSoundClock
  OpenMatchesRules
  AtMostOneOpen
