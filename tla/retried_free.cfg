SPECIFICATION RefSpec
CONSTANTS
  Key = {1}
  Val = {1}
  None = None
  Torn = Torn
  Contents <- MCContents
  Oversized <- MCOversized
  Retried = {"free_all"}
  FreeLists <- MCFreeLists
  MaxId = 3
  MaxErrors = 1
  MaxCrashes = 0
  MaxOutages = 0
INVARIANTS
  HandedOutOnce
CHECK_DEADLOCK TRUE
