SPECIFICATION Spec
CONSTANTS
  a = a
  b = b
  c = c
  Values = {a, b}
  Private = {}
  NoValue = NoValue
  MaxUndo = 1
PROPERTY PunctuationCommitsZenzValue
