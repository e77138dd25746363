CONSTANTS
  Values <- MCSmallValues
  Texts <- MCNoTexts
SPECIFICATION Spec
INVARIANT ItowTwtoiRoundTrip
