SPECIFICATION Spec
CONSTANTS
  s1 = s1
  s2 = s2
  s3 = s3
  long = long
  NULL = NULL
  Addr <- MCAddr
  Fresh <- MCFresh
  Short <- MCShort
  Long <- MCLong
  HashBytes <- MCHashBytes
  FillCount <- MCFillCount
  MINSTRTABSIZE = 2
  MaxDoubled = 4
  MaxStrings = 4
  MaxPopulation = 5
INVARIANTS
  TypeOK
  ListsIntact
  ShortStringsAreUnique
  TableIsWeak
  EnoughBuckets
