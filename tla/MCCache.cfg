CONSTANTS
  W = 4
  SetBits = 1
  BlockBits = 1
  TagCount = 4
  Addresses <- MCAddresses
  Sets <- MCSets
  Bytes <- MCBytes
  SetOf <- MCSetOf
  TagOf <- MCTagOf
  ByteOf <- MCByteOf
  LineCount = 3
  Garbage <- MCGarbage
  MaxAccesses = 6
SPECIFICATION BothSpec
CHECK_DEADLOCK FALSE
INVARIANTS
  TypeOK
  QueueIsPermutation
  UsedBeforeFree
  NoDuplicateTag
  Inclusion
PROPERTIES
  LruImplemented
