SPECIFICATION Spec
CONSTANTS
  Texts <- MCTexts
  MinValue = 10
  Small <- MCSmall
  Scales <- MCScales
  Decimal <- MCDecimal
  Compounds <- MCCompounds
  Numbers <- MCNumbers
INVARIANTS OtherWordsSurvive NumbersAreRead
