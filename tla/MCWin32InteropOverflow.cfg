CONSTANTS
  Values <- MCNoValues
  Texts <- MCInt32LimitTexts
SPECIFICATION Spec
INVARIANT TwtoiWithoutOverflow
