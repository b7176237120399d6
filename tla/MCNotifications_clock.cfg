CONSTANTS
  all = all
  urgent = urgent
  Webhooks = {urgent}
  Severities = {"critical"}
  Keys = {cpu}
  Messages = {hot}
  Ids <- MCIds
  AlertIds <- MCOneAlertId
  MinSeverity <- MCMinSeverity
  Events <- MCEvents
  NotifyFiles <- MCNotifyFiles
  FIRST_RETRY = 1
  MAX_RETRY = 2
  GIVE_UP_AFTER = 2
  CHANGED_CLEAR_DELAY = 1
  CLOCK_JUMP = 2
  PRUNE_AFTER = 1
  PRUNE_EVERY = 1
  Steps <- MCMixedSteps
  MaxTime = 2
  MaxSets = 2
  MaxReceived = 1
  Faults = {"end", "lost", "db"}
SPECIFICATION Spec
INVARIANTS
  AgeIsElapsed
