SPECIFICATION Spec
CONSTANTS
  c = c
  d = d
  RamAddr <- MCRamAddr
  Word <- MCWord
  Image <- MCImage
  Programs <- RegisterPrograms
  MaxSteps = 3
  CountCap = 0
  RegWord = "reg"
PROPERTIES
  RegisterReads
