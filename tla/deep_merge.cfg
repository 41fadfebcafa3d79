SPECIFICATION ScriptSpec
CONSTANTS
  Key = {1, 2, 3, 4, 5, 6, 7, 8, 9, 10, 11, 12, 13, 14, 15, 16, 17, 18, 19, 20, 21, 22, 23, 24, 25, 26, 27, 28, 29, 30, 31, 32, 33, 34}
  Val = {1, 2, 3, 4, 5, 6, 7, 8, 9, 10, 11, 12, 13, 14, 15, 16, 17, 18, 19, 20, 21, 22, 23, 24, 25, 26, 27, 28, 29, 30, 31, 32, 33, 34}
  None = None
  MaxKeys <- MCMaxKeys
  CountWidth = 64
  Ops = {"upsert", "delete", "delete_safe"}
  Fits <- MCFits
  KeySize <- MCSize
  ValueSize <- MCSize
  KeysLength <- MCKeysLength
  ValuesLength <- MCValuesLength
  BlockSize = 368
  SizeWidth = 65536
  HeavyLength = 58
  Requests <- MCRequests
  MaxErrors = 1
  MaxCrashes = 0
  Scripts <- Deep
INVARIANTS
  AllocatorSound
CHECK_DEADLOCK FALSE
