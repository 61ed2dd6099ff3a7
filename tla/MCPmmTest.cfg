CONSTANTS
  kPageSize = 16
  AddrSpace = 512
  kMaxManagedPages = 64
  kBitsPerWord = 64
  ManagedRanges <- TestManaged
  ReservedLists <- TestReserved
  NULL = NULL
SPECIFICATION Spec
INVARIANT InitFreesEveryUnreservedPage
