SPECIFICATION ScriptSpec
CONSTANTS
  Key = {1, 2, 3, 4, 5, 6}
  Val = {1, 2, 3, 4, 5, 6, 65, 66, 67, 68, 69, 70}
  None = None
  MaxKeys <- MCMaxKeys
  CountWidth = 16
  Ops = {"upsert", "delete"}
  Fits <- MCFits
  KeySize <- MCSize
  ValueSize <- MCSize
  KeysLength <- MCKeysLength
  ValuesLength <- MCValuesLength
  BlockSize = 504
  SizeWidth = 65536
  HeavyLength = 230
  Requests <- MCRequests
  MaxErrors = 0
  MaxCrashes = 0
  Scripts <- Wide
INVARIANTS
  Durable
CHECK_DEADLOCK FALSE
