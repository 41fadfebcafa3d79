------------------------------ MODULE NodeSizes ------------------------------
(***************************************************************************)
(* How many bytes a node takes in its block, and how many keys a tree      *)
(* therefore lets a node have.  Keys and values are of any length: what    *)
(* bincode makes of them is left to two constants.  In a debug build the   *)
(* subtraction in EstimateMaxKeys panics where it wraps around here.       *)
(***************************************************************************)
EXTENDS UniversalNode

CONSTANTS
  KeySize, ValueSize,   \* size_of K and V: what they take in memory
  KeysLength(_),        \* the bytes that a sequence of keys is encoded in,
  ValuesLength(_),      \* and one of values, without the counts before them
  BlockSize,            \* block_size of the storage
  SizeWidth             \* a usize is an integer modulo this (2^64 in the code)

ASSUME SizesAssumption == KeySize \in Nat /\ ValueSize \in Nat
ASSUME BlockSizeAssumption ==
  SizeWidth \in Nat \ {0} /\ BlockSize \in 0..(SizeWidth - 1)

-----------------------------------------------------------------------------
(* The estimate, from the sizes in memory: an entry's share of a block is  *)
(* PairSize, and 20 bytes of it are for what the encoding adds.            *)

Overhead == 100 + (32 + 32)         \* size_of BPTreeMetadata is 32

PairSize == KeySize + ValueSize + 20

AtLeastTwo(n) == IF n < 2 THEN 2 ELSE n

(* Mutant: nothing is set aside for the metadata and the node's own        *)
(* fields.                                                                 *)
EstimateMaxKeysBare == AtLeastTwo(BlockSize \div PairSize)

EstimateMaxKeys == AtLeastTwo(((BlockSize - Overhead) % SizeWidth) \div PairSize)

-----------------------------------------------------------------------------
(* The encoding: key_count in 4 bytes, three lengths in 8 each, the tag of *)
(* next_leaf in 1, node_type in 4; 8 for each block id.  The root's node   *)
(* comes after the tree's metadata.                                        *)

FixedLength == 4 + 3 * 8 + 1 + 4

NextLength(n) == IF n.next_leaf = NoBlock THEN 0 ELSE 8

NodeLength(n) ==
  FixedLength + KeysLength(n.keys) + ValuesLength(n.values)
              + 8 * Len(n.child_ids) + NextLength(n)

MetadataLength == 1 + 8 + 8 + 8 + 1

EncodedLength(id, n) == NodeLength(n) + IF id = 1 THEN MetadataLength ELSE 0

(* What is shorter than a block is padded, what is longer is refused.      *)
FitsBlock(id, n) == EncodedLength(id, n) <= BlockSize
=============================================================================
