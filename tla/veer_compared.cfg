SPECIFICATION TbSpec
CONSTANTS
  Reg <- MCReg
  X0 = "x0"
  Word <- MCWord
  Zero = 0
  Csr <- MCCsr
  Volatile = {}
  Normal <- MCNormal
  Instr <- MCInstr
  NoInstr = "none"
  Ebreak <- MCEbreak
  PcMod = 9
  MemBase = 1
  MemSize = 6
  Fetch <- MCFetch
  Entry = 1
  Effects <- MCEffects
  Reports <- MCReports
  MaxCalls = 10
  Paths <- MCPaths
  StoreAt <- MCStoreAt
  QueueDepth = 2
INVARIANT SuccessCompared
CHECK_DEADLOCK FALSE
