SPECIFICATION Spec
CONSTANTS
  MaxEdits = 2
  None = None
INVARIANT FirmwareIsCurrent
