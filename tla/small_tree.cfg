SPECIFICATION MCFairSpec
CONSTANTS
  Key = {1, 2, 3, 4, 5}
  Val = {1, 2, 3, 4, 5, 65}
  None = None
  MaxKeys <- MCMaxKeys
  CountWidth = 16
  Ops = {"upsert", "update", "delete", "clear", "get"}
  Fits <- MCFits
  KeySize <- MCSize
  ValueSize <- MCSize
  KeysLength <- MCKeysLength
  ValuesLength <- MCValuesLength
  BlockSize = 368
  SizeWidth = 65536
  HeavyLength = 58
  Requests <- MCRequests
  MaxErrors = 0
  MaxCrashes = 0
INVARIANTS
  TypeOK
  ValidatesWhenQuiet
  ChainMatchesTree
  BlocksAccounted
  Balanced
  EmptyTreeHasNoRoot
  HandleMatchesDisk
  FramesFresh
  NothingDangles
PROPERTIES
  ImplementsOrderedMap
CHECK_DEADLOCK TRUE
