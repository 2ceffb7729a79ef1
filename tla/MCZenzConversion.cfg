SPECIFICATION FairSpec
CONSTANTS
  short = short
  long = long
  longer = longer
  Keys = {short, long}
  Length <- LengthDef
  MaxPoll = 2
  zero_query_suggestion = FALSE
  MaxGeneration = 6
  MaxCallbacks = 3
CHECK_DEADLOCK FALSE
INVARIANT ConversionIsOwnAnswer
INVARIANT PendingHasCallback
INVARIANT RequestsFollowState
 
PROPERTY PollingEnds
