SPECIFICATION Spec
CONSTANTS
  e1 = e1
  e2 = e2
  e3 = e3
  Entries = {e1, e2}
  kLruCacheSize = 2
INVARIANT ClearIsBlocking
