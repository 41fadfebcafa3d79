SPECIFICATION MCSpec
CONSTANTS
  Key = {1, 2, 3, 4, 5, 6, 7}
  Val = {1, 2, 3, 4, 5, 6, 7}
  None = None
  MaxKeys <- MCMaxKeys
  CountWidth = 16
  Ops = {"upsert", "delete"}
  Fits <- MCFits
  KeySize <- MCSize
  ValueSize <- MCSize
  KeysLength <- MCKeysLength
  ValuesLength <- MCValuesLength
  BlockSize = 504
  SizeWidth = 65536
  HeavyLength = 58
  Requests <- MCRequests
  MaxErrors = 0
  MaxCrashes = 0
INVARIANTS
  ValidatesWhenQuiet
  Balanced
  NeverRefused
PROPERTIES
  ActsAsOrderedMap
CHECK_DEADLOCK TRUE
