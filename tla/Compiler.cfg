SPECIFICATION Spec
CONSTANTS
  NaN = NaN
  NegZero = NegZero
  NumRegisters = 24
  Global <- MCGlobal
  Programs <- MCPrograms
INVARIANTS
  TypeOK
  CollectionsFindValues
  NoFault
  CodeIsCertified
  ComputesWhatItMeans
PROPERTY
  Ends
