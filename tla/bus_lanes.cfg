SPECIFICATION Spec
CONSTANTS
  ByteSize = 2
  RamWords = 2
INVARIANT TypeOK
PROPERTY LanesAreBytes
