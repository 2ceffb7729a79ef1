SPECIFICATION FairSpec
CONSTANTS
  urgent = urgent
  first = first
  second = second
  low = low
  Requests = {urgent, first, second, low}
  Priority <- PriorityDef
  MaxSequence = 5
CHECK_DEADLOCK FALSE
INVARIANT FailedIsGone
INVARIANT EngineFollowsLoader
PROPERTY NoDowngrade
PROPERTY LoaderComesToRest
