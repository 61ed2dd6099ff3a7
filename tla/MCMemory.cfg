SPECIFICATION MemSpec
CONSTANTS
  kPageSize = 2
  AddrSpace = 256
  kMaxManagedPages = 32
  kBitsPerWord = 2
  ManagedRanges <- MCManaged
  ReservedLists <- MCReserved
  NULL = NULL
  Fanout = 4
  kDram <- MCDram
  kUart0 <- MCUart0
  kClint <- MCClint
  Images <- MCImages
  Garbage <- MCGarbage
  CallVAs <- MCCallVAs
  CallPAs <- MCCallPAs
  CallSizes <- MCCallSizes
INVARIANTS
  TypeOK OwnedAvoidReserved PoolConserved FreeCountExact
  TablesAccounted KernelReachable
