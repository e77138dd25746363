CONSTANTS
  Values <- MCWideValues
  Texts <- MCNoTexts
SPECIFICATION Spec
INVARIANT ItowWithinBuffer
