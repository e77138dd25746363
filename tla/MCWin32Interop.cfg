CONSTANTS
  Values <- MCValues
  Texts <- MCTexts
SPECIFICATION Spec
INVARIANT TypeOK
INVARIANT ItowWritesDecimal
INVARIANT TwtoiParsesSignedDecimal
