SPECIFICATION Spec
CONSTANTS
  Page = {p1, p2, p3, p4}
  PAGESIZE = 8192
  Alignment = 16
  PointerSize = 8
  NotANumber = NotANumber
  Request <- MCRequest
  GammaSetting <- MCGamma
INVARIANTS
  TypeOK
  EachPageOnOneList
  CountsAccurate
  ObjectsInTheirOwnBytes
PROPERTIES
  CollectionEnds
