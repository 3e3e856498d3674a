SPECIFICATION Spec
CONSTANTS
  NaN = NaN
  NegZero = NegZero
  Line <- MCLine
  ByteSize = 4
  ConsName <- MCConsName
  GammaName <- MCGammaName
  MAX_GLOBALS = 2
  MaxLines = 5
INVARIANTS
  TypeOK
  LoadedAsWritten
  SlotsAreUnique
  OwnRegistersCovered
