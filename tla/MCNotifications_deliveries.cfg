CONSTANTS
  all = all
  urgent = urgent
  Webhooks = {urgent}
  Severities = {"critical","warning"}
  Keys = {cpu}
  Messages = {hot}
  Ids <- MCIds
  AlertIds <- MCAlertIds
  MinSeverity <- MCMinSeverity
  Events <- MCEvents
  NotifyFiles <- MCMayBeEmpty
  FIRST_RETRY = 1
  MAX_RETRY = 2
  GIVE_UP_AFTER = 2
  CHANGED_CLEAR_DELAY = 1
  CLOCK_JUMP = 2
  PRUNE_AFTER = 1
  PRUNE_EVERY = 1
  Steps <- MCNoSteps
  MaxTime = 2
  MaxSets = 0
  MaxReceived = 2
  Faults = {"end", "stop", "lost"}
SPECIFICATION Spec
INVARIANTS
  ReceiverInStep
  UnchangedReopenIsSilent
  PendingIsServed
PROPERTIES
  KeepsFifo
