SPECIFICATION Spec
CONSTANTS
  MemBase = 2
  MemSize = 3
  Byte <- MCBytes
  Files <- MCFiles
  Envs <- MCEnvs
  Unset = "unset"
  Default <- MCDefault
  Unwritable <- MCUnwritable
INVARIANTS TypeOK RamIsImage FailureExplained CompareLogKept
CHECK_DEADLOCK FALSE
