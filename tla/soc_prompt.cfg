SPECIFICATION PromptSpec
CONSTANTS
  c = c
  d = d
  RamAddr <- MCRamAddr
  Word <- MCWord
  Image <- MCImage
  Programs <- AllPrograms
  MaxSteps = 5
  CountCap = 20
  RegWord = "reg"
INVARIANTS
  WritesOnce
  CountersMatch
PROPERTIES
  ResponseIsOwn
  AtomicAccesses
