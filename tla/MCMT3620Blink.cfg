CONSTANTS
  NULL = NULL
  Arr = Arr
SPECIFICATION Spec
INVARIANT TypeOK
INVARIANT ElementAccessInBounds
INVARIANT SleepsForDeclaredInterval
PROPERTY LedBlinks
PROPERTY ReleasedButtonKeepsInterval
