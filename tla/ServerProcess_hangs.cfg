CONSTANTS
  None = None
  Plugins = {"load", "throttled"}
  MAX_ORPHANED_READS = 3
SPECIFICATION FairSpec
PROPERTIES HungReadsAreNotWaitedFor
CHECK_DEADLOCK FALSE
