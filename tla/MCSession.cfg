SPECIFICATION Spec
CONSTANTS
  kMultipleUndoMaxSize = 1
  MaxLength = 3
  zero_query = TRUE
INVARIANT StatesAgree
 
INVARIANT ChecksHold
INVARIANT ResultIsHandedOut
INVARIANT UndoRestoresDocument
