SPECIFICATION MCFairSpec
CONSTANTS
  Key = {1, 2, 3, 4}
  Val = {1, 2, 3, 4}
  None = None
  MaxKeys <- MCMaxKeys
  CountWidth = 16
  Ops = {"upsert", "delete_safe", "clear", "range"}
  Fits <- MCFits
  KeySize <- MCSize
  ValueSize <- MCSize
  KeysLength <- MCKeysLength
  ValuesLength <- MCValuesLength
  BlockSize = 300
  SizeWidth = 65536
  HeavyLength = 58
  Requests <- MCRequests
  MaxErrors = 0
  MaxCrashes = 0
INVARIANTS
  ValidatesWhenQuiet
  ChainMatchesTree
  BlocksAccounted
PROPERTIES
  ImplementsOrderedMap
CHECK_DEADLOCK TRUE
