------------------------------- MODULE MCBPTree -------------------------------
(***************************************************************************)
(* The tree with its history variables, for TLC: a client that makes any   *)
(* number of calls of the operations in Ops, in any order, on a tree from  *)
(* strings to strings in blocks of BlockSize bytes.                        *)
(***************************************************************************)
EXTENDS BPTreeRefinement, NodeSizes

CONSTANTS
  Ops,          \* the operations the client calls
  HeavyLength   \* the bytes that a heavy value is encoded in

(* size_of String, twice.  A key's 10 bytes and the 58 of a light value    *)
(* are together the whole share that an entry has of a block.              *)
MCSize      == 24
KeyLength   == 10
LightLength == 58

(* Every key has values of its own, so that a value that has come under    *)
(* another key is noticed.  A key k has the light value k and, where Val   *)
(* has it, k + 64, which may be heavy.                                     *)
ValuesOf(k) == { v \in Val : v % 64 = k }
IsHeavy(v)  == v > 64

MCKeysLength(keys) == KeyLength * Len(keys)

MCValuesLength(values) ==
  FoldLeft(LAMBDA sum, v : sum + IF IsHeavy(v) THEN HeavyLength ELSE LightLength, 0, values)

MCMaxKeys      == EstimateMaxKeys
MCFits(id, n)  == FitsBlock(id, n)

Writes == UNION { [ op : {"upsert", "update"} \cap Ops, key : {k}, val : ValuesOf(k) ] : k \in Key }

MCRequests ==
  Writes \cup [ op : {"get", "delete", "delete_safe"} \cap Ops, key : Key ]
         \cup [ op : {"range"} \cap Ops, start : Bound, end : Bound ]
         \cup [ op : {"clear"} \cap Ops ]

MCInit == Init /\ HistoryInit

MCNext == Searchable /\ Next /\ HistoryNext

MCSpec == MCInit /\ [][MCNext]_allvars

MCFairSpec == MCSpec /\ WF_allvars(MCNext /\ CallStep)
=============================================================================
