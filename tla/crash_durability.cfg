SPECIFICATION MCSpec
CONSTANTS
  Key = {1, 2, 3, 4, 5}
  Val = {1, 2, 3, 4, 5}
  None = None
  MaxKeys <- MCMaxKeys
  CountWidth = 16
  Ops = {"upsert", "delete"}
  Fits <- MCFits
  KeySize <- MCSize
  ValueSize <- MCSize
  KeysLength <- MCKeysLength
  ValuesLength <- MCValuesLength
  BlockSize = 368
  SizeWidth = 65536
  HeavyLength = 58
  Requests <- MCRequests
  MaxErrors = 0
  MaxCrashes = 1
INVARIANTS
  Durable
CHECK_DEADLOCK FALSE
