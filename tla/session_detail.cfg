SPECIFICATION Spec
CHECK_DEADLOCK FALSE
CONSTANTS
  Reg <- MCReg
  X0 = "x0"
  Word = {0, 1}
  Zero = 0
  Csr <- MCCsr
  Volatile <- MCVolatile
  Normal <- MCNormal
  Instr <- MCInstr
  NoInstr = "none"
  Ebreak <- MCEbreak
  PcMod = 4
  MemBase = 1
  MemSize = 2
  Fetch <- MCFetch
  Entry = 1
  Effects <- AllEffects
  Reports <- AllReports
  MaxCalls = 4
INVARIANTS
  TypeOK
  RegisterFilesAgree
  VerdictOnce
  VerdictIsFinal
