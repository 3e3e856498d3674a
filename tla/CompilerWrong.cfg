SPECIFICATION Spec
CONSTANTS
  NaN = NaN
  NegZero = NegZero
  NumRegisters = 24
  Global <- MCGlobal
  Programs <- MiscompiledProgram
INVARIANTS
  ComputesWhatItMeans
