---------------------------- MODULE UniversalNode ----------------------------
(***************************************************************************)
(* The nodes of the B+ tree (src/src/bptree/node.rs) and the operations a  *)
(* tree performs on a node it has loaded.  A node is a value: an operation *)
(* that the code performs on &mut self is an operator returning the new    *)
(* node.  The flag is_dirty is left out, nothing reads it.                 *)
(* A comment "Mutant:" marks a version of the definition that follows with *)
(* a mistake in it; no other definition uses it.                           *)
(***************************************************************************)
EXTENDS Integers, Sequences, FiniteSets, SequencesExt

CONSTANTS Key,     \* the keys, ordered by <
          Val,     \* the values
          None     \* Option::None where a value is expected

ASSUME KeyAssumption  == Key \subseteq Int
ASSUME NoneAssumption == None \notin Val

(* Blocks 0 and 1 are reserved: block 1 is the tree's root, and block 0 is *)
(* never used, so that 0 is free to stand for Option<BlockId>::None.       *)
NoBlock       == 0
BlockId       == Nat \ {0}
OptionBlockId == Nat
Allotted      == Nat \ {0, 1}        \* the ids a tree may be handed

Node == [ node_type : {"Leaf", "Internal"},
          key_count : Nat,
          keys      : Seq(Key),
          child_ids : Seq(Allotted),
          values    : Seq(Val),
          next_leaf : OptionBlockId ]

(* Also what a block of zeros deserialises to.                             *)
NewLeaf ==
  [ node_type |-> "Leaf", key_count |-> 0, keys |-> <<>>, child_ids |-> <<>>,
    values |-> <<>>, next_leaf |-> NoBlock ]

NewInternal == [ NewLeaf EXCEPT !.node_type = "Internal" ]

IsLeaf(n)     == n.node_type = "Leaf"
IsInternal(n) == n.node_type = "Internal"

-----------------------------------------------------------------------------
(* Consistency of one node.                                                *)

ShapeOK(n) ==
  /\ n.key_count = Len(n.keys)
  /\ IsInternal(n) => /\ Len(n.child_ids) = Len(n.keys) + 1
                      /\ n.values = <<>>
                      /\ n.next_leaf = NoBlock
  /\ IsLeaf(n) => /\ n.child_ids = <<>>
                  /\ Len(n.values) = Len(n.keys)

WellShaped == { n \in Node : ShapeOK(n) }

(* What is left of it when a node has lent a key to one of the other kind: *)
(* a key without its value or its child.  No key is ever without.          *)
KeysServed(n) ==
  /\ n.key_count = Len(n.keys)
  /\ IsInternal(n) => /\ Len(n.child_ids) > Len(n.keys)
                      /\ n.values = <<>>
                      /\ n.next_leaf = NoBlock
  /\ IsLeaf(n) => /\ n.child_ids = <<>>
                  /\ Len(n.values) >= Len(n.keys)

Usable == { n \in Node : KeysServed(n) }

Sorted(keys) == \A i \in 2..Len(keys) : keys[i-1] < keys[i]

ValidNode(n) == ShapeOK(n) /\ Sorted(n.keys)

-----------------------------------------------------------------------------
(* Searching.  Positions are the code's, from 0; TLA+ sequences count      *)
(* from 1.  Binary search on sorted keys is counting the smaller ones.     *)

HasKey(n, k) == \E i \in DOMAIN n.keys : n.keys[i] = k

(* Mutant: in an inner node an equal key leads left.                       *)
FindKeyIndexLeft(n, k) == Cardinality({ i \in DOMAIN n.keys : n.keys[i] < k })

FindKeyIndex(n, k) ==
  Cardinality({ i \in DOMAIN n.keys :
                  n.keys[i] < k \/ (IsInternal(n) /\ n.keys[i] = k) })

Get(n, k) == IF HasKey(n, k) THEN n.values[FindKeyIndex(n, k) + 1] ELSE None

-----------------------------------------------------------------------------
(* Adding and removing one key.                                            *)

InsertLeaf(n, k, v) ==
  LET p == FindKeyIndex(n, k) + 1
  IN IF HasKey(n, k)
     THEN [ n EXCEPT !.values[p] = v ]
     ELSE [ n EXCEPT !.keys = InsertAt(@, p, k),
                     !.values = InsertAt(@, p, v),
                     !.key_count = @ + 1 ]

InsertInternal(n, k, left, right) ==
  LET p == FindKeyIndex(n, k) + 1
  IN [ n EXCEPT !.keys = InsertAt(@, p, k),
                !.key_count = @ + 1,
                !.child_ids =
                   IF @ = <<>> THEN <<left, right>>
                   ELSE ReplaceAt(InsertAt(@, p + 1, right), p, left) ]

(* Mutant: key_count is not maintained.                                    *)
RemoveLeafUncounted(n, k) ==
  LET p == FindKeyIndex(n, k) + 1
  IN [ n EXCEPT !.keys = RemoveAt(@, p), !.values = RemoveAt(@, p) ]

RemoveLeaf(n, k) ==
  LET p == FindKeyIndex(n, k) + 1
  IN [ n EXCEPT !.keys = RemoveAt(@, p),
                !.values = RemoveAt(@, p),
                !.key_count = @ - 1 ]

-----------------------------------------------------------------------------
(* Splitting a node in two: the left half keeps the node's block, a leaf   *)
(* copies the separator up, an internal node moves it up.                  *)

Prefix(s, m) == SubSeq(s, 1, m)
Suffix(s, m) == SubSeq(s, m + 1, Len(s))

Split(n) ==
  LET m    == Len(n.keys) \div 2
      kept == IF IsLeaf(n) THEN m ELSE m + 1      \* keys that leave the right half
  IN [ key   |-> n.keys[m + 1],
       left  |-> [ n EXCEPT !.keys = Prefix(@, m),
                            !.key_count = m,
                            !.values = IF IsLeaf(n) THEN Prefix(@, m) ELSE @,
                            !.child_ids = IF IsLeaf(n) THEN @ ELSE Prefix(@, m + 1) ],
       right |-> [ n EXCEPT !.keys = Suffix(@, kept),
                            !.key_count = Len(n.keys) - kept,
                            !.values = IF IsLeaf(n) THEN Suffix(@, m) ELSE @,
                            !.child_ids = IF IsLeaf(n) THEN @ ELSE Suffix(@, m + 1) ] ]

-----------------------------------------------------------------------------
(* Rebalancing.  "sep" is the separator between the two nodes in their     *)
(* parent; the borrowing operations return its new value.                  *)

(* Mutant: the chain of leaves is not mended.                              *)
MergedNextStale(n, other)     == n.next_leaf

MergedKeys(n, other, sep) ==
  IF IsInternal(n) THEN Append(n.keys, sep) \o other.keys ELSE n.keys \o other.keys

MergedNext(n, other) == IF IsLeaf(n) THEN other.next_leaf ELSE n.next_leaf

Merge(n, other, sep) ==
  [ n EXCEPT !.keys = MergedKeys(n, other, sep),
             !.key_count = Len(MergedKeys(n, other, sep)),
             !.child_ids = @ \o other.child_ids,
             !.values = @ \o other.values,
             !.next_leaf = MergedNext(n, other) ]

(* The key a node receives: the sibling's own between leaves, the          *)
(* separator between inner nodes.                                          *)
(* Mutant: the sibling's own, always.                                      *)
ReceivedKeyRaw(n, k, sep) == k

ReceivedKey(n, k, sep) == IF IsLeaf(n) THEN k ELSE sep

(* Mutant: the last key the sibling keeps.                                 *)
LeftSeparatorKept(sibling) ==
  IF Len(sibling.keys) > 1 THEN sibling.keys[Len(sibling.keys) - 1] ELSE Last(sibling.keys)

LeftSeparator(sibling) == Last(sibling.keys)

(* What the node takes from its sibling with a key: a value, or a child.   *)
(* It goes by its own kind, and a sibling of the other kind has none.      *)
Lendable(n, sibling) == IF IsLeaf(n) THEN sibling.values ELSE sibling.child_ids

(* The key is popped first; when nothing can be taken it is lost.          *)
BorrowFromLeft(n, sibling, sep) ==
  IF Lendable(n, sibling) = <<>>
  THEN [ separator |-> sep,
         node      |-> n,
         sibling   |-> [ sibling EXCEPT !.keys = Front(@), !.key_count = @ - 1 ] ]
  ELSE [ separator |-> LeftSeparator(sibling),
         node |-> [ n EXCEPT !.keys = <<ReceivedKey(n, Last(sibling.keys), sep)>> \o @,
                             !.key_count = @ + 1,
                             !.values = IF IsLeaf(n) THEN <<Last(sibling.values)>> \o @ ELSE @,
                             !.child_ids = IF IsLeaf(n) THEN @
                                           ELSE <<Last(sibling.child_ids)>> \o @ ],
         sibling |-> [ sibling EXCEPT !.keys = Front(@), !.key_count = @ - 1,
                                      !.values = IF IsLeaf(n) THEN Front(@) ELSE @,
                                      !.child_ids = IF IsLeaf(n) THEN @ ELSE Front(@) ] ]

(* Mutant: the separator between leaves is left as it was.                 *)
RightSeparatorStale(n, sibling, sep) == IF IsLeaf(n) THEN sep ELSE Head(sibling.keys)

RightSeparator(n, sibling, sep) ==
  IF ~IsLeaf(n) THEN Head(sibling.keys)
  ELSE IF Len(sibling.keys) > 1 THEN sibling.keys[2] ELSE sep

(* Removing the first of no values or no children panics: a caller knows   *)
(* that there is one.                                                      *)
BorrowFromRight(n, sibling, sep) ==
  [ separator |-> RightSeparator(n, sibling, sep),
    node |-> [ n EXCEPT !.keys = Append(@, ReceivedKey(n, Head(sibling.keys), sep)),
                        !.key_count = @ + 1,
                        !.values = IF IsLeaf(n) THEN Append(@, Head(sibling.values)) ELSE @,
                        !.child_ids = IF IsLeaf(n) THEN @
                                      ELSE Append(@, Head(sibling.child_ids)) ],
    sibling |-> [ sibling EXCEPT !.keys = Tail(@), !.key_count = @ - 1,
                                 !.values = IF IsLeaf(n) THEN Tail(@) ELSE @,
                                 !.child_ids = IF IsLeaf(n) THEN @ ELSE Tail(@) ] ]
=============================================================================
