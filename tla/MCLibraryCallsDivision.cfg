SPECIFICATION CallsSpec
CONSTANTS
  MantBits = 3
  ExpBits = 4
  WordBits = 5
  DMantBits = 1
  DExpBits = 2
  IntBits = 4
  OperandExps = {0, 1, 6, 7, 8, 13, 15}
  IntRange = 4
  Specials = {9}
  Width = 5
  ScanBits = 3
  Block = 4
  LengthField = 2
  LineCap = 14
  MaxMessage = 18
  MaxArg = 3
INVARIANTS
  QuotientHasItsLeadingBit
CHECK_DEADLOCK FALSE
