SPECIFICATION Spec
CONSTANTS
  Addr <- MCAddr
  Fresh <- MCFresh
  MaxObjects = 3
  NRegs = 1
  NRoots = 2
  NSlots = 2
  Bytes = {b1}
  Label = {x, y}
  Nil = Nil
INVARIANTS
  TypeOK
  ColorInvariants
  NoDanglingPointer
  PointerEqualityIsIdentity
PROPERTIES
  CollectionEnds
  ImplementsObjectGraph
