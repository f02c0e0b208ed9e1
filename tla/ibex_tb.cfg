SPECIFICATION Spec
CONSTANTS
  WordBits = 8
  BufferLen = 3
  Programs <- MCPrograms
INVARIANTS TypeOK ConsoleIsText FirstStatusDecides RetiresAgree
PROPERTIES StatusEndsRun
CHECK_DEADLOCK FALSE
