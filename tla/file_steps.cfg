SPECIFICATION RefSpec
CONSTANTS
  Key = {1}
  Val = {1, 17}
  None = None
  Torn = Torn
  Contents <- MCContents
  Oversized <- MCOversized
  Retried = {"free"}
  FreeLists <- MCFreeLists
  MaxId = 3
  MaxErrors = 1
  MaxCrashes = 1
  MaxOutages = 1
INVARIANTS
  WholeFiles
  HandedOutOnce
  AcknowledgedKept
PROPERTIES
  ImplementsContract
CHECK_DEADLOCK TRUE
