SPECIFICATION Spec
CONSTANTS
  Texts <- MCShortTexts
  MinValue = 10
  Small <- MCSmall
  Scales <- MCScales
  Decimal <- MCDecimal
  Compounds <- MCCompounds
  Numbers <- MCNumbers
INVARIANT NeverMangled
