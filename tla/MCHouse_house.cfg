CONSTANTS
  None = None
  Ids = {"busy", "expired", "mine"}
  builtinRules <- TwoBuiltIn
  Written <- Three
  Levels <- TwoLevels
  DEFAULT_RETENTION <- Defaults
  Durations = {1, 2, 3}
  Environments <- SixEnvironments
  MAX_SAVED_RULES = 2
SPECIFICATION HouseSpec
INVARIANTS
  CountedOnce
  WholeSeries
  InForceFits
  StartsAgain
  GuessesLimited
  CookieLasts
  InStep
  AnswersAreRecent
  TellsTheTruth
  SavesWhatWasTyped
  ShowsThePresent
CHECK_DEADLOCK FALSE
