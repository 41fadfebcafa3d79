SPECIFICATION ScriptSpec
CONSTANTS
  Key = {1, 2, 3, 4, 5, 6, 7, 8, 9, 10, 11, 12}
  Val = {1, 2, 3, 4, 5, 6, 7, 8, 9, 10, 11, 12, 65, 66, 67}
  None = None
  MaxKeys <- MCMaxKeys
  CountWidth = 16
  Ops = {"upsert", "update", "delete", "delete_safe", "clear"}
  Fits <- MCFits
  KeySize <- MCSize
  ValueSize <- MCSize
  KeysLength <- MCKeysLength
  ValuesLength <- MCValuesLength
  BlockSize = 368
  SizeWidth = 65536
  HeavyLength = 160
  Requests <- MCRequests
  MaxErrors = 1
  MaxCrashes = 1
  Scripts <- Faulty
INVARIANTS
  TypeOK
  TwoLevelsSound
  AllocatorPersisted
  RootKept
  OneLeafDurable
  CountWithinOne
PROPERTIES
  InsertKeepsScan
CHECK_DEADLOCK FALSE
