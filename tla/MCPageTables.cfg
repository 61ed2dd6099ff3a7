SPECIFICATION Spec
CONSTANTS
  kPageSize = 2
  AddrSpace = 256
  Fanout = 4
  kDram <- MCDram
  kUart0 <- MCUart0
  kClint <- MCClint
  Pools <- MCPools
  Garbage <- MCGarbage
  CallVAs <- MCCallVAs
  CallPAs <- MCCallPAs
  CallSizes <- MCCallSizes
INVARIANTS TypeOK FramesAccounted TrueMeansMapped KernelStaysMapped
PROPERTY ImplementsAddressSpace
