SPECIFICATION Spec
CONSTANTS
  NaN = NaN
  NegZero = NegZero
  NULL = NULL
  s1 = s1
  b1 = b1
  b2 = b2
  Obj <- MCObj
  ObjTag <- MCObjTag
  StringHash <- MCStringHash
  TagHash <- MCTagHash
  NumberHash <- MCNumberHash
  Placed <- MCPlaced
  Bound <- MCBound
  Unboxed <- MCUnboxed
  Hint <- MCHint
  MaxBindings = 3
VIEW MCView
INVARIANTS
  RemovalSucceeds
