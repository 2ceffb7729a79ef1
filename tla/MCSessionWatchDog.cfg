SPECIFICATION FairSpec
CHECK_DEADLOCK FALSE
CONSTANTS
  interval = 30
  Loads = {0, 70, 100}
  Gaps <- AllGaps
INVARIANT BusyMachineIsSpared
PROPERTY CleanupGoesOn
PROPERTY HungServerIsKilled
PROPERTY StopEndsThread
