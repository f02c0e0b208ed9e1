SPECIFICATION FairSpec
CONSTANTS
  c = c
  d = d
  RamAddr <- MCRamAddr
  Word <- MCWord
  Image <- MCImage
  Programs <- FinishPrograms
  MaxSteps = 4
  CountCap = 0
  RegWord = "reg"
INVARIANTS
  TypeOK
  FirstWaitNeverBlocks
  FailureEndsWorker
  WorkerGoneAtExit
  ExitCodeJustified
  NoWriteSuppressed
PROPERTIES
  StatusStoreNotCut
  RequestsEnd
  QuitEndsRun
  FailureEndsRun
  RunEnds
