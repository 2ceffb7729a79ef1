SPECIFICATION FairSpec
CHECK_DEADLOCK FALSE
CONSTANTS
  MaxPlayBackSize = 3
  HasRequest = TRUE
  MaxInputs = 4
  MaxFaults = 2
INVARIANT SessionOnCurrentServer
INVARIANT PlaybackRestores
INVARIANT JournalCoversSession
PROPERTY CallReturns
