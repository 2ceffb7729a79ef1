SPECIFICATION Spec
CONSTANTS
  k1 = k1
  k2 = k2
  k3 = k3
  k4 = k4
  Key = {k1, k2, k3, k4}
  NoKey = NoKey
  Mixed = Mixed
  Capacities = {1, 2, 3}
  MaxBlocks = 2
  SmallLimit = 1
  FirstBlock = 1
SYMMETRY KeySymmetry
INVARIANT ListsAreConsistent
INVARIANT EntryHoldsOwnData
PROPERTY ImplementsLruMap
