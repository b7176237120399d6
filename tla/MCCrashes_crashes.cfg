CONSTANTS
  None = None
  Plugins = {"load", "throttled"}
  MAX_ORPHANED_READS = 3
  CAs = {c1, c2, c3, c4}
  NoCa = none
  BackupNames = {1, 2, 3}
  Ids = {1, 2}
  MaxCrashes = 2
SPECIFICATION CrashesSpec
INVARIANTS
  PublicFollows
  BackupsBounded
  DbClosesLast
  HangingBounded
PROPERTIES
  AtomicChange
  TidiedAgain
  SignalEnds
CHECK_DEADLOCK FALSE
