SPECIFICATION Spec
CONSTANTS
  a = a
  b = b
  c = c
  Values = {a, b, c}
  Private = {c}
  NoValue = NoValue
  MaxUndo = 1
SYMMETRY Symmetry
PROPERTY AcceptedWasKept
PROPERTY RejectedWasReplaced
