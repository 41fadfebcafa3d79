SPECIFICATION ScriptFairSpec
CONSTANTS
  Key = {1, 2, 3, 4, 5, 6, 7, 8, 9, 10, 11, 12}
  Val = {1, 2, 3, 4, 5, 6, 7, 8, 9, 10, 11, 12}
  None = None
  MaxKeys <- MCMaxKeys
  CountWidth = 16
  Ops = {"upsert", "delete", "clear"}
  Fits <- MCFits
  KeySize <- MCSize
  ValueSize <- MCSize
  KeysLength <- MCKeysLength
  ValuesLength <- MCValuesLength
  BlockSize = 368
  SizeWidth = 65536
  HeavyLength = 58
  Requests <- MCRequests
  MaxErrors = 0
  MaxCrashes = 0
  Scripts <- Tall
INVARIANTS
  ValidatesWhenQuiet
  BlocksAccounted
PROPERTIES
  ImplementsOrderedMap
CHECK_DEADLOCK TRUE
