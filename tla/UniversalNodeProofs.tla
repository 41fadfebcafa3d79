-------------------------- MODULE UniversalNodeProofs --------------------------
(***************************************************************************)
(* Facts about the operations on nodes that hold for every set of keys and *)
(* values.  The first section is about the sequence operators the          *)
(* operations are built from; the rest shows what every operation does to  *)
(* the lengths of a node's parts, whatever the keys are: where they match  *)
(* (WellShaped) they go on to do so, and where there are only enough of    *)
(* them (Usable) there still are.  The one exception is a borrow between a *)
(* leaf and an inner node.                                                 *)
(***************************************************************************)
EXTENDS UniversalNode, FiniteSetTheorems, SequenceTheorems, TLAPS

-----------------------------------------------------------------------------
(* Sequences.                                                              *)

(* A subsequence within the bounds of a sequence has elements of the same  *)
(* set and the length of the interval.                                     *)
LEMMA SubSeqInside ==
  ASSUME NEW S, NEW s \in Seq(S), NEW m \in 1..(Len(s) + 1), NEW n \in (m-1)..Len(s)
  PROVE  SubSeq(s, m, n) \in Seq(S) /\ Len(SubSeq(s, m, n)) = n - m + 1
<1>1. /\ Len(s) \in Nat /\ m \in Int /\ n \in Int
      /\ \A i \in m..n : s[i] \in S
  BY LenProperties, ElementOfSeq
<1> QED BY <1>1, SubSeqProperties

(* Prefix and Suffix cut a sequence in two (node.rs, split).               *)
LEMMA PrefixType ==
  ASSUME NEW S, NEW s \in Seq(S), NEW m \in 0..Len(s)
  PROVE  Prefix(s, m) \in Seq(S) /\ Len(Prefix(s, m)) = m
<1>1. Len(s) \in Nat BY LenProperties
<1> QED BY <1>1, SubSeqInside DEF Prefix

(* What split_off returns has the rest of the length.                      *)
LEMMA SuffixType ==
  ASSUME NEW S, NEW s \in Seq(S), NEW m \in 0..Len(s)
  PROVE  Suffix(s, m) \in Seq(S) /\ Len(Suffix(s, m)) = Len(s) - m
<1>1. Len(s) \in Nat BY LenProperties
<1>2. m + 1 \in 1..(Len(s) + 1) /\ Len(s) \in ((m + 1) - 1)..Len(s) BY <1>1
<1>3. Suffix(s, m) \in Seq(S) /\ Len(Suffix(s, m)) = Len(s) - (m + 1) + 1
  BY <1>2, SubSeqInside DEF Suffix
<1> QED BY <1>1, <1>3

(* The length of two pieces put together (\o in one step of a proof).      *)
LEMMA ConcatType ==
  ASSUME NEW S, NEW s \in Seq(S), NEW t \in Seq(S)
  PROVE  s \o t \in Seq(S) /\ Len(s \o t) = Len(s) + Len(t)
BY ConcatProperties

(* Vec::insert makes a sequence one longer.                                *)
LEMMA InsertAtType ==
  ASSUME NEW S, NEW s \in Seq(S), NEW i \in 1..(Len(s) + 1), NEW e \in S
  PROVE  InsertAt(s, i, e) \in Seq(S) /\ Len(InsertAt(s, i, e)) = Len(s) + 1
<1> DEFINE a == SubSeq(s, 1, i-1)
           b == SubSeq(s, i, Len(s))
<1>1. Len(s) \in Nat BY LenProperties
<1>2. /\ 1 \in 1..(Len(s) + 1) /\ i - 1 \in (1-1)..Len(s) /\ Len(s) \in (i-1)..Len(s)
  BY <1>1
<1>3. a \in Seq(S) /\ Len(a) = i - 1
  BY <1>1, <1>2, SubSeqInside
<1>4. b \in Seq(S) /\ Len(b) = Len(s) - i + 1
  BY <1>2, SubSeqInside
<1>5. InsertAt(s, i, e) = (a \o <<e>>) \o b
  BY DEF InsertAt
<1> HIDE DEF a, b
<1>6. <<e>> \in Seq(S) /\ Len(<<e>>) = 1 OBVIOUS
<1>7. a \o <<e>> \in Seq(S) /\ Len(a \o <<e>>) = Len(a) + 1
  BY <1>3, <1>6, ConcatType
<1>8. /\ (a \o <<e>>) \o b \in Seq(S)
      /\ Len((a \o <<e>>) \o b) = (Len(a) + 1) + Len(b)
  BY <1>4, <1>7, ConcatType
<1> QED BY <1>1, <1>3, <1>4, <1>5, <1>8

(* Vec::remove makes a sequence one shorter.                               *)
LEMMA RemoveAtType ==
  ASSUME NEW S, NEW s \in Seq(S), NEW i \in 1..Len(s)
  PROVE  RemoveAt(s, i) \in Seq(S) /\ Len(RemoveAt(s, i)) = Len(s) - 1
<1> DEFINE a == SubSeq(s, 1, i-1)
           b == SubSeq(s, i+1, Len(s))
<1>1. Len(s) \in Nat BY LenProperties
<1>2. /\ 1 \in 1..(Len(s) + 1) /\ i - 1 \in (1-1)..Len(s)
      /\ i + 1 \in 1..(Len(s) + 1) /\ Len(s) \in ((i+1)-1)..Len(s)
  BY <1>1
<1>3. a \in Seq(S) /\ Len(a) = i - 1
  BY <1>1, <1>2, SubSeqInside
<1>4. b \in Seq(S) /\ Len(b) = Len(s) - i
  BY <1>1, <1>2, SubSeqInside
<1>5. RemoveAt(s, i) = a \o b
  BY DEF RemoveAt
<1> HIDE DEF a, b
<1>6. a \o b \in Seq(S) /\ Len(a \o b) = Len(a) + Len(b)
  BY <1>3, <1>4, ConcatType
<1> QED BY <1>1, <1>3, <1>4, <1>5, <1>6

(* Vec::pop makes a sequence that is not empty one shorter.                *)
LEMMA FrontType ==
  ASSUME NEW S, NEW s \in Seq(S)
  PROVE  /\ Front(s) \in Seq(S)
         /\ s # <<>> => Len(Front(s)) = Len(s) - 1 /\ Last(s) \in S
<1>1. Len(s) \in Nat BY LenProperties
<1>2. Front(s) = SubSeq(s, 1, Len(s) - 1) BY DEF Front
<1>3. CASE s = <<>>
  <2>1. SubSeq(s, 1, Len(s) - 1) = <<>> BY <1>3, SubSeqEmpty
  <2> QED BY <1>2, <1>3, <2>1
<1>4. CASE s # <<>>
  <2>1. Len(s) \in Nat \ {0} BY <1>4, EmptySeq
  <2>2. /\ 1 \in 1..(Len(s) + 1) /\ Len(s) - 1 \in (1-1)..Len(s) BY <2>1
  <2>3. /\ SubSeq(s, 1, Len(s) - 1) \in Seq(S)
        /\ Len(SubSeq(s, 1, Len(s) - 1)) = (Len(s) - 1) - 1 + 1
    BY <2>2, SubSeqInside
  <2>4. Last(s) \in S BY <2>1, ElementOfSeq DEF Last
  <2> QED BY <1>2, <2>1, <2>3, <2>4
<1> QED BY <1>3, <1>4

-----------------------------------------------------------------------------
(* The two sets of nodes, told apart by how many more values than keys a   *)
(* leaf may have, and how many children too many an inner node.            *)

Shapes(S) == S \in {WellShaped, Usable}

Spares(S) == IF S = WellShaped THEN {0} ELSE Nat

(* The sets are two: a node may have a child too many.                     *)
LEMMA TwoShapes == Usable # WellShaped
<1> DEFINE m == [ NewInternal EXCEPT !.child_ids = <<2, 2>> ]
<1>1. /\ m.node_type = "Internal" /\ m.key_count = 0 /\ m.keys = <<>> /\ m.values = <<>>
      /\ m.child_ids = <<2, 2>> /\ m.next_leaf = NoBlock
  BY DEF NewInternal, NewLeaf
<1>2. m \in Node
  <2>1. /\ <<2, 2>> \in Seq(Allotted) /\ <<>> \in Seq(Key) /\ <<>> \in Seq(Val)
        /\ <<>> \in Seq(Allotted)
    BY DEF Allotted
  <2>2. NewLeaf \in Node BY <2>1 DEF NewLeaf, NoBlock, Node, OptionBlockId
  <2>3. NewInternal \in Node BY <2>2 DEF NewInternal, Node
  <2> QED BY <2>1, <2>3 DEF Node
<1> HIDE DEF m
<1>3. Len(m.keys) = 0 /\ Len(m.child_ids) = 2
  <2>1. Len(<<>>) = 0 /\ Len(<<2, 2>>) = 2 OBVIOUS
  <2> QED BY <1>1, <2>1
<1>4. m \in Usable BY <1>1, <1>2, <1>3 DEF Usable, KeysServed, IsLeaf, IsInternal
<1>5. m \notin WellShaped
  <2>1. ~ShapeOK(m) BY <1>1, <1>3 DEF ShapeOK, IsInternal
  <2> QED BY <2>1 DEF WellShaped
<1> QED BY <1>4, <1>5

(* What is spare counts from 0, and two nodes' worth may be put together.  *)
LEMMA SparesAdd ==
  ASSUME NEW S, Shapes(S)
  PROVE  /\ Spares(S) \subseteq Nat /\ 0 \in Spares(S)
         /\ \A a, b \in Spares(S) : a + b \in Spares(S)
<1>1. CASE S = WellShaped BY <1>1 DEF Spares
<1>2. CASE S = Usable BY <1>2, TwoShapes DEF Spares
<1> QED BY <1>1, <1>2 DEF Shapes

(* A node of either shape is one of the looser.                            *)
LEMMA ShapesUsable ==
  ASSUME NEW S, Shapes(S)
  PROVE  S \subseteq Usable /\ S \subseteq Node
<1>1. \A n \in WellShaped : n \in Usable
  <2> SUFFICES ASSUME NEW n \in WellShaped PROVE n \in Usable OBVIOUS
  <2>1. n \in Node /\ ShapeOK(n) BY DEF WellShaped
  <2>2. Len(n.keys) \in Nat BY <2>1, LenProperties DEF Node
  <2> QED BY <2>1, <2>2 DEF ShapeOK, Usable, KeysServed
<1> QED BY <1>1 DEF Shapes, Usable

-----------------------------------------------------------------------------
(* Searching.                                                              *)

(* The lengths of a node's parts.                                          *)
LEMMA LengthsIn ==
  ASSUME NEW S, Shapes(S), NEW n \in S
  PROVE  /\ Len(n.keys) \in Nat /\ n.key_count = Len(n.keys)
         /\ DOMAIN n.keys = 1..Len(n.keys)
         /\ IsLeaf(n) => /\ Len(n.values) \in Nat /\ Len(n.values) >= Len(n.keys)
                         /\ Len(n.values) - Len(n.keys) \in Spares(S)
                         /\ DOMAIN n.values = 1..Len(n.values)
                         /\ n.child_ids = <<>>
         /\ IsInternal(n) => /\ Len(n.child_ids) \in Nat
                             /\ Len(n.child_ids) >= Len(n.keys) + 1
                             /\ Len(n.child_ids) - (Len(n.keys) + 1) \in Spares(S)
                             /\ DOMAIN n.child_ids = 1..Len(n.child_ids)
                             /\ n.values = <<>>
         /\ IsLeaf(n) <=> ~IsInternal(n)
<1>1. n \in Usable /\ n \in Node BY ShapesUsable
<1>2. /\ n.keys \in Seq(Key) /\ n.values \in Seq(Val) /\ n.child_ids \in Seq(Allotted)
      /\ n.node_type \in {"Leaf", "Internal"} /\ KeysServed(n)
  BY <1>1 DEF Usable, Node
<1>3. Len(n.keys) \in Nat /\ Len(n.values) \in Nat /\ Len(n.child_ids) \in Nat
  BY <1>2, LenProperties
<1>4. /\ DOMAIN n.keys = 1..Len(n.keys)
      /\ DOMAIN n.values = 1..Len(n.values)
      /\ DOMAIN n.child_ids = 1..Len(n.child_ids)
  BY <1>2, LenProperties
<1>5. IsLeaf(n) <=> ~IsInternal(n) BY <1>2 DEF IsLeaf, IsInternal
<1>6. ASSUME IsLeaf(n)
      PROVE  Len(n.values) >= Len(n.keys) /\ Len(n.values) - Len(n.keys) \in Spares(S)
  <2>1. Len(n.values) >= Len(n.keys) BY <1>2, <1>6 DEF KeysServed
  <2>2. CASE S = WellShaped
    <3>1. Len(n.values) = Len(n.keys) BY <1>6, <2>2 DEF WellShaped, ShapeOK
    <3> QED BY <1>3, <2>2, <3>1 DEF Spares
  <2>3. CASE S # WellShaped BY <1>3, <2>1, <2>3 DEF Spares
  <2> QED BY <2>1, <2>2, <2>3
<1>7. ASSUME IsInternal(n)
      PROVE  /\ Len(n.child_ids) >= Len(n.keys) + 1
             /\ Len(n.child_ids) - (Len(n.keys) + 1) \in Spares(S)
  <2>1. Len(n.child_ids) >= Len(n.keys) + 1 BY <1>2, <1>3, <1>7 DEF KeysServed
  <2>2. CASE S = WellShaped
    <3>1. Len(n.child_ids) = Len(n.keys) + 1 BY <1>7, <2>2 DEF WellShaped, ShapeOK
    <3> QED BY <1>3, <2>2, <3>1 DEF Spares
  <2>3. CASE S # WellShaped BY <1>3, <2>1, <2>3 DEF Spares
  <2> QED BY <2>1, <2>2, <2>3
<1> QED BY <1>2, <1>3, <1>4, <1>5, <1>6, <1>7 DEF KeysServed

(* The same where they match.                                              *)
LEMMA Lengths ==
  ASSUME NEW n \in WellShaped
  PROVE  /\ Len(n.keys) \in Nat /\ n.key_count = Len(n.keys)
         /\ DOMAIN n.keys = 1..Len(n.keys)
         /\ IsLeaf(n) => /\ Len(n.values) = Len(n.keys)
                         /\ DOMAIN n.values = 1..Len(n.keys)
                         /\ n.child_ids = <<>>
         /\ IsInternal(n) => /\ Len(n.child_ids) = Len(n.keys) + 1
                             /\ DOMAIN n.child_ids = 1..(Len(n.keys) + 1)
                             /\ n.values = <<>>
         /\ IsLeaf(n) <=> ~IsInternal(n)
<1>1. /\ n.keys \in Seq(Key) /\ n.values \in Seq(Val) /\ n.child_ids \in Seq(Allotted)
      /\ n.node_type \in {"Leaf", "Internal"} /\ ShapeOK(n)
  BY DEF WellShaped, Node
<1>2. Len(n.keys) \in Nat BY <1>1, LenProperties
<1>3. /\ DOMAIN n.keys = 1..Len(n.keys)
      /\ DOMAIN n.values = 1..Len(n.values)
      /\ DOMAIN n.child_ids = 1..Len(n.child_ids)
  BY <1>1, LenProperties
<1> QED BY <1>1, <1>2, <1>3 DEF ShapeOK, IsLeaf, IsInternal

(* Counting some of the positions of a sequence.                           *)
LEMMA CountInside ==
  ASSUME NEW x \in Nat, NEW T \in SUBSET (1..x)
  PROVE  Cardinality(T) \in 0..x
<1>1. IsFiniteSet(1..x) /\ Cardinality(1..x) = x BY FS_Interval
<1>2. IsFiniteSet(T) /\ Cardinality(T) <= x BY <1>1, FS_Subset
<1>3. Cardinality(T) \in Nat BY <1>2, FS_CardinalityType
<1> QED BY <1>2, <1>3

(* find_key_index is a position between the keys of the node.              *)
LEMMA FindKeyIndexTypeIn ==
  ASSUME NEW S, Shapes(S), NEW n \in S, NEW k
  PROVE  FindKeyIndex(n, k) \in 0..Len(n.keys)
<1> DEFINE T == { i \in DOMAIN n.keys :
                    n.keys[i] < k \/ (IsInternal(n) /\ n.keys[i] = k) }
<1>1. Len(n.keys) \in Nat /\ DOMAIN n.keys = 1..Len(n.keys) BY LengthsIn
<1>2. T \in SUBSET (1..Len(n.keys)) BY <1>1
<1>3. FindKeyIndex(n, k) = Cardinality(T) BY DEF FindKeyIndex
<1> HIDE DEF T
<1> QED BY <1>1, <1>2, <1>3, CountInside

(* In a leaf that has the key, it is a position of a key: get, insert_leaf *)
(* and remove_leaf never index past the values.                            *)
LEMMA FindKeyIndexFoundIn ==
  ASSUME NEW S, Shapes(S), NEW n \in S, IsLeaf(n), NEW k \in Key, HasKey(n, k)
  PROVE  FindKeyIndex(n, k) + 1 \in 1..Len(n.keys)
<1> DEFINE T == { i \in DOMAIN n.keys :
                    n.keys[i] < k \/ (IsInternal(n) /\ n.keys[i] = k) }
<1>1. /\ Len(n.keys) \in Nat /\ DOMAIN n.keys = 1..Len(n.keys) /\ ~IsInternal(n)
  BY LengthsIn
<1>2. PICK j \in 1..Len(n.keys) : n.keys[j] = k
  BY <1>1 DEF HasKey
<1>3. j \notin T
  BY <1>1, <1>2, KeyAssumption
<1>4. IsFiniteSet(1..Len(n.keys)) /\ Cardinality(1..Len(n.keys)) = Len(n.keys)
  BY <1>1, FS_Interval
<1>5. /\ IsFiniteSet((1..Len(n.keys)) \ {j})
      /\ Cardinality((1..Len(n.keys)) \ {j}) = Len(n.keys) - 1
  BY <1>4, FS_RemoveElement
<1>6. T \in SUBSET ((1..Len(n.keys)) \ {j}) BY <1>1, <1>3
<1>7. IsFiniteSet(T) /\ Cardinality(T) <= Len(n.keys) - 1
  BY <1>5, <1>6, FS_Subset
<1>8. Cardinality(T) \in Nat BY <1>7, FS_CardinalityType
<1>9. FindKeyIndex(n, k) = Cardinality(T) BY DEF FindKeyIndex
<1> QED BY <1>1, <1>7, <1>8, <1>9

(* get answers a value or None.                                            *)
LEMMA GetTypeIn ==
  ASSUME NEW S, Shapes(S), NEW n \in S, IsLeaf(n), NEW k \in Key
  PROVE  Get(n, k) \in Val \cup {None}
<1>1. CASE HasKey(n, k)
  <2>1. FindKeyIndex(n, k) + 1 \in 1..Len(n.keys)
    BY <1>1, FindKeyIndexFoundIn
  <2>2. /\ Len(n.keys) \in Nat /\ Len(n.values) \in Nat /\ Len(n.values) >= Len(n.keys)
    BY LengthsIn
  <2>3. n.values \in Seq(Val) BY ShapesUsable DEF Node
  <2>4. n.values[FindKeyIndex(n, k) + 1] \in Val BY <2>1, <2>2, <2>3, ElementOfSeq
  <2> QED BY <1>1, <2>4 DEF Get
<1>2. CASE ~HasKey(n, k) BY <1>2 DEF Get
<1> QED BY <1>1, <1>2

(* The same for nodes whose parts match.                                   *)
LEMMA FindKeyIndexType ==
  ASSUME NEW n \in WellShaped, NEW k
  PROVE  FindKeyIndex(n, k) \in 0..Len(n.keys)
BY FindKeyIndexTypeIn DEF Shapes

(* The position of a key that the leaf has.                                *)
LEMMA FindKeyIndexFound ==
  ASSUME NEW n \in WellShaped, IsLeaf(n), NEW k \in Key, HasKey(n, k)
  PROVE  FindKeyIndex(n, k) + 1 \in 1..Len(n.keys)
BY FindKeyIndexFoundIn DEF Shapes

(* The answer of get.                                                      *)
LEMMA GetType ==
  ASSUME NEW n \in WellShaped, IsLeaf(n), NEW k \in Key
  PROVE  Get(n, k) \in Val \cup {None}
BY GetTypeIn DEF Shapes

-----------------------------------------------------------------------------
(* Adding and removing one key.                                            *)

(* What is needed of a node to know that it is a leaf of a shape, or an    *)
(* inner node of it; and what is known then.                               *)
LEMMA LeafIn ==
  ASSUME NEW S, Shapes(S), NEW m \in Node, m.node_type = "Leaf", m.child_ids = <<>>,
         m.key_count = Len(m.keys), Len(m.values) - Len(m.keys) \in Spares(S)
  PROVE  m \in S /\ IsLeaf(m)
<1>1. Len(m.keys) \in Nat /\ Len(m.values) \in Nat BY LenProperties DEF Node
<1>2. IsLeaf(m) /\ ~IsInternal(m) BY DEF IsLeaf, IsInternal
<1>3. CASE S = WellShaped
  <2>1. Len(m.values) = Len(m.keys) BY <1>1, <1>3 DEF Spares
  <2> QED BY <1>2, <1>3, <2>1 DEF WellShaped, ShapeOK
<1>4. CASE S = Usable
  <2>1. Len(m.values) - Len(m.keys) \in Nat BY SparesAdd
  <2>2. Len(m.values) >= Len(m.keys) BY <1>1, <2>1
  <2> QED BY <1>2, <1>4, <2>2 DEF Usable, KeysServed
<1> QED BY <1>3, <1>4 DEF Shapes

(* The same for an inner node.                                             *)
LEMMA InternalIn ==
  ASSUME NEW S, Shapes(S), NEW m \in Node, m.node_type = "Internal", m.values = <<>>,
         m.next_leaf = NoBlock, m.key_count = Len(m.keys),
         Len(m.child_ids) - (Len(m.keys) + 1) \in Spares(S)
  PROVE  m \in S /\ IsInternal(m)
<1>1. Len(m.keys) \in Nat /\ Len(m.child_ids) \in Nat BY LenProperties DEF Node
<1>2. IsInternal(m) /\ ~IsLeaf(m) BY DEF IsLeaf, IsInternal
<1>3. CASE S = WellShaped
  <2>1. Len(m.child_ids) = Len(m.keys) + 1 BY <1>1, <1>3 DEF Spares
  <2> QED BY <1>2, <1>3, <2>1 DEF WellShaped, ShapeOK
<1>4. CASE S = Usable
  <2>1. Len(m.child_ids) - (Len(m.keys) + 1) \in Nat BY SparesAdd
  <2>2. Len(m.child_ids) > Len(m.keys) BY <1>1, <2>1
  <2> QED BY <1>2, <1>4, <2>2 DEF Usable, KeysServed
<1> QED BY <1>3, <1>4 DEF Shapes

(* The parts of a leaf.                                                    *)
LEMMA LeafPartsIn ==
  ASSUME NEW S, Shapes(S), NEW n \in S, IsLeaf(n)
  PROVE  /\ n \in Node /\ n.node_type = "Leaf" /\ n.child_ids = <<>>
         /\ n.keys \in Seq(Key) /\ n.values \in Seq(Val)
         /\ Len(n.keys) \in Nat /\ n.key_count = Len(n.keys)
         /\ Len(n.values) \in Nat /\ Len(n.values) >= Len(n.keys)
         /\ Len(n.values) - Len(n.keys) \in Spares(S)
<1>1. n \in Node /\ n.node_type = "Leaf" BY ShapesUsable DEF IsLeaf
<1> QED BY <1>1, LengthsIn DEF Node

(* The parts of an inner node.                                             *)
LEMMA InternalPartsIn ==
  ASSUME NEW S, Shapes(S), NEW n \in S, IsInternal(n)
  PROVE  /\ n \in Node /\ n.node_type = "Internal" /\ n.values = <<>> /\ n.next_leaf = NoBlock
         /\ n.keys \in Seq(Key) /\ n.child_ids \in Seq(Allotted)
         /\ Len(n.keys) \in Nat /\ n.key_count = Len(n.keys)
         /\ Len(n.child_ids) \in Nat /\ Len(n.child_ids) >= Len(n.keys) + 1
         /\ Len(n.child_ids) - (Len(n.keys) + 1) \in Spares(S)
<1>1. n \in Node /\ n.node_type = "Internal" BY ShapesUsable DEF IsInternal
<1>2. n.next_leaf = NoBlock BY ShapesUsable DEF Usable, KeysServed
<1> QED BY <1>1, <1>2, LengthsIn DEF Node

(* A leaf has as many values as keys where the parts match.                *)
LEMMA LeafShaped ==
  ASSUME NEW m \in Node, m.node_type = "Leaf", m.child_ids = <<>>,
         m.key_count = Len(m.keys), Len(m.values) = Len(m.keys)
  PROVE  m \in WellShaped /\ IsLeaf(m)
BY DEF WellShaped, ShapeOK, IsLeaf, IsInternal

(* An inner node has one child more than keys.                             *)
LEMMA InternalShaped ==
  ASSUME NEW m \in Node, m.node_type = "Internal", m.values = <<>>, m.next_leaf = NoBlock,
         m.key_count = Len(m.keys), Len(m.child_ids) = Len(m.keys) + 1
  PROVE  m \in WellShaped /\ IsInternal(m)
BY DEF WellShaped, ShapeOK, IsLeaf, IsInternal

(* The parts of a leaf have the lengths its keys say.                      *)
LEMMA LeafParts ==
  ASSUME NEW n \in WellShaped, IsLeaf(n)
  PROVE  /\ n \in Node /\ n.node_type = "Leaf" /\ n.child_ids = <<>>
         /\ n.keys \in Seq(Key) /\ n.values \in Seq(Val)
         /\ Len(n.keys) \in Nat /\ n.key_count = Len(n.keys) /\ Len(n.values) = Len(n.keys)
<1>1. n \in Node /\ n.node_type = "Leaf" BY DEF WellShaped, IsLeaf
<1> QED BY <1>1, Lengths DEF Node

(* An inner node has one child more than keys, and no values.              *)
LEMMA InternalParts ==
  ASSUME NEW n \in WellShaped, IsInternal(n)
  PROVE  /\ n \in Node /\ n.node_type = "Internal" /\ n.values = <<>> /\ n.next_leaf = NoBlock
         /\ n.keys \in Seq(Key) /\ n.child_ids \in Seq(Allotted)
         /\ Len(n.keys) \in Nat /\ n.key_count = Len(n.keys)
         /\ Len(n.child_ids) = Len(n.keys) + 1
<1>1. n \in Node /\ n.node_type = "Internal" /\ n.next_leaf = NoBlock
  BY DEF WellShaped, ShapeOK, IsInternal
<1> QED BY <1>1, Lengths DEF Node

(* A new leaf has no keys to serve.                                        *)
LEMMA NewLeafShaped == NewLeaf \in WellShaped /\ IsLeaf(NewLeaf)
BY DEF NewLeaf, NoBlock, WellShaped, Node, OptionBlockId, ShapeOK, IsLeaf, IsInternal

(* It is of either shape.                                                  *)
LEMMA NewLeafIn ==
  ASSUME NEW S, Shapes(S)
  PROVE  NewLeaf \in S /\ IsLeaf(NewLeaf)
<1>1. NewLeaf \in Usable BY NewLeafShaped, ShapesUsable DEF Shapes
<1> QED BY <1>1, NewLeafShaped DEF Shapes

(* insert_leaf                                                             *)
LEMMA InsertLeafIn ==
  ASSUME NEW S, Shapes(S), NEW n \in S, IsLeaf(n), NEW k \in Key, NEW v \in Val
  PROVE  InsertLeaf(n, k, v) \in S /\ IsLeaf(InsertLeaf(n, k, v))
<1> DEFINE p == FindKeyIndex(n, k) + 1
<1>p. /\ n \in Node /\ n.node_type = "Leaf" /\ n.child_ids = <<>>
      /\ n.keys \in Seq(Key) /\ n.values \in Seq(Val)
      /\ Len(n.keys) \in Nat /\ n.key_count = Len(n.keys)
      /\ Len(n.values) \in Nat /\ Len(n.values) >= Len(n.keys)
      /\ Len(n.values) - Len(n.keys) \in Spares(S)
  BY LeafPartsIn
<1>1. SUFFICES ASSUME NEW m, m = InsertLeaf(n, k, v)
               PROVE  m \in S /\ IsLeaf(m)
  OBVIOUS
<1>2. FindKeyIndex(n, k) \in 0..Len(n.keys) BY FindKeyIndexTypeIn
<1>3. CASE HasKey(n, k)
  <2> DEFINE vs == [ n.values EXCEPT ![p] = v ]
  <2>1. p \in 1..Len(n.values) BY <1>3, FindKeyIndexFoundIn, <1>p
  <2>2. vs \in Seq(Val) /\ Len(vs) = Len(n.values) BY <2>1, ExceptSeq, <1>p
  <2>3. m = [ n EXCEPT !.values = vs ] BY <1>1, <1>3 DEF InsertLeaf
  <2> HIDE DEF p, vs
  <2>4. /\ m \in Node /\ m.keys = n.keys /\ m.values = vs /\ m.key_count = n.key_count
        /\ m.node_type = n.node_type /\ m.child_ids = n.child_ids
    BY <2>2, <2>3, <1>p DEF Node
  <2> QED BY <2>2, <2>4, <1>p, LeafIn
<1>4. CASE ~HasKey(n, k)
  <2> DEFINE ks == InsertAt(n.keys, p, k)
             vs == InsertAt(n.values, p, v)
  <2>1. p \in 1..(Len(n.keys) + 1) /\ p \in 1..(Len(n.values) + 1) BY <1>2, <1>p
  <2>2. ks \in Seq(Key) /\ Len(ks) = Len(n.keys) + 1 BY <2>1, InsertAtType, <1>p
  <2>3. vs \in Seq(Val) /\ Len(vs) = Len(n.values) + 1 BY <2>1, InsertAtType, <1>p
  <2>4. m = [ n EXCEPT !.keys = ks, !.values = vs, !.key_count = n.key_count + 1 ]
    BY <1>1, <1>4 DEF InsertLeaf
  <2>5. n.key_count + 1 \in Nat BY <1>p
  <2> HIDE DEF p, ks, vs
  <2>6. /\ m \in Node /\ m.keys = ks /\ m.values = vs /\ m.key_count = n.key_count + 1
        /\ m.node_type = n.node_type /\ m.child_ids = n.child_ids
    BY <2>2, <2>3, <2>4, <2>5, <1>p DEF Node
  <2>7. Len(vs) - Len(ks) = Len(n.values) - Len(n.keys) BY <2>2, <2>3, <1>p
  <2> QED BY <2>2, <2>6, <2>7, <1>p, LeafIn
<1> QED BY <1>3, <1>4

(* remove_leaf, of a key that the leaf has                                 *)
LEMMA RemoveLeafIn ==
  ASSUME NEW S, Shapes(S), NEW n \in S, IsLeaf(n), NEW k \in Key, HasKey(n, k)
  PROVE  RemoveLeaf(n, k) \in S
<1> DEFINE p  == FindKeyIndex(n, k) + 1
           ks == RemoveAt(n.keys, p)
           vs == RemoveAt(n.values, p)
<1>p. /\ n \in Node /\ n.node_type = "Leaf" /\ n.child_ids = <<>>
      /\ n.keys \in Seq(Key) /\ n.values \in Seq(Val)
      /\ Len(n.keys) \in Nat /\ n.key_count = Len(n.keys)
      /\ Len(n.values) \in Nat /\ Len(n.values) >= Len(n.keys)
      /\ Len(n.values) - Len(n.keys) \in Spares(S)
  BY LeafPartsIn
<1>1. SUFFICES ASSUME NEW m, m = RemoveLeaf(n, k) PROVE m \in S
  OBVIOUS
<1>2. p \in 1..Len(n.keys) /\ p \in 1..Len(n.values) BY FindKeyIndexFoundIn, <1>p
<1>3. ks \in Seq(Key) /\ Len(ks) = Len(n.keys) - 1 BY <1>2, RemoveAtType, <1>p
<1>4. vs \in Seq(Val) /\ Len(vs) = Len(n.values) - 1 BY <1>2, RemoveAtType, <1>p
<1>5. m = [ n EXCEPT !.keys = ks, !.values = vs, !.key_count = n.key_count - 1 ]
  BY <1>1 DEF RemoveLeaf
<1>6. n.key_count - 1 \in Nat BY <1>2, <1>p
<1> HIDE DEF p, ks, vs
<1>7. /\ m \in Node /\ m.keys = ks /\ m.values = vs /\ m.key_count = n.key_count - 1
      /\ m.node_type = n.node_type /\ m.child_ids = n.child_ids
  BY <1>3, <1>4, <1>5, <1>6, <1>p DEF Node
<1>8. Len(vs) - Len(ks) = Len(n.values) - Len(n.keys) BY <1>3, <1>4, <1>p
<1> QED BY <1>3, <1>7, <1>8, <1>p, LeafIn

(* insert_internal, into an inner node with children                       *)
LEMMA InsertInternalIn ==
  ASSUME NEW S, Shapes(S), NEW n \in S, IsInternal(n), NEW k \in Key,
         NEW left \in Allotted, NEW right \in Allotted
  PROVE  InsertInternal(n, k, left, right) \in S
<1> DEFINE p  == FindKeyIndex(n, k) + 1
           ks == InsertAt(n.keys, p, k)
           ds == InsertAt(n.child_ids, p + 1, right)
           cs == ReplaceAt(ds, p, left)
<1>p. /\ n \in Node /\ n.node_type = "Internal" /\ n.values = <<>> /\ n.next_leaf = NoBlock
      /\ n.keys \in Seq(Key) /\ n.child_ids \in Seq(Allotted)
      /\ Len(n.keys) \in Nat /\ n.key_count = Len(n.keys)
      /\ Len(n.child_ids) \in Nat /\ Len(n.child_ids) >= Len(n.keys) + 1
      /\ Len(n.child_ids) - (Len(n.keys) + 1) \in Spares(S)
  BY InternalPartsIn
<1>1. SUFFICES ASSUME NEW m, m = InsertInternal(n, k, left, right) PROVE m \in S
  OBVIOUS
<1>2. FindKeyIndex(n, k) \in 0..Len(n.keys) BY FindKeyIndexTypeIn
<1>3. /\ p \in 1..(Len(n.keys) + 1) /\ p + 1 \in 1..(Len(n.child_ids) + 1)
      /\ n.child_ids # <<>>
  <2>1. Len(n.child_ids) # 0 BY <1>p
  <2> QED BY <1>2, <1>p, <2>1, EmptySeq
<1>4. ks \in Seq(Key) /\ Len(ks) = Len(n.keys) + 1 BY <1>3, InsertAtType, <1>p
<1>5. m = [ n EXCEPT !.keys = ks, !.key_count = n.key_count + 1, !.child_ids = cs ]
  BY <1>1, <1>3 DEF InsertInternal
<1>6. ds \in Seq(Allotted) /\ Len(ds) = Len(n.child_ids) + 1
  <2> DEFINE q == p + 1
  <2>1. q \in 1..(Len(n.child_ids) + 1) BY <1>3
  <2> HIDE DEF q
  <2>2. /\ InsertAt(n.child_ids, q, right) \in Seq(Allotted)
        /\ Len(InsertAt(n.child_ids, q, right)) = Len(n.child_ids) + 1
    BY <2>1, InsertAtType, <1>p
  <2> QED BY <2>2 DEF q
<1> HIDE DEF ds
<1>7. p \in 1..Len(ds) BY <1>3, <1>6, <1>p
<1>8. cs \in Seq(Allotted) /\ Len(cs) = Len(ds) BY <1>6, <1>7, ExceptSeq DEF ReplaceAt
<1>9. n.key_count + 1 \in Nat BY <1>p
<1> HIDE DEF p, ks, cs
<1>10. /\ m \in Node /\ m.keys = ks /\ m.key_count = n.key_count + 1 /\ m.child_ids = cs
       /\ m.node_type = n.node_type /\ m.values = n.values /\ m.next_leaf = n.next_leaf
  BY <1>4, <1>5, <1>8, <1>9, <1>p DEF Node
<1>11. Len(cs) - (Len(ks) + 1) = Len(n.child_ids) - (Len(n.keys) + 1)
  BY <1>4, <1>6, <1>8, <1>p
<1> QED BY <1>4, <1>10, <1>11, <1>p, InternalIn

(* insert_internal, into the new root a split of the root makes            *)
LEMMA NewRootShaped ==
  ASSUME NEW k \in Key, NEW left \in Allotted, NEW right \in Allotted
  PROVE  InsertInternal(NewInternal, k, left, right) \in WellShaped
<1> DEFINE n  == NewInternal
           p  == FindKeyIndex(n, k) + 1
           T  == { i \in DOMAIN n.keys : n.keys[i] < k \/ (IsInternal(n) /\ n.keys[i] = k) }
           ks == InsertAt(<<>>, p, k)
           cs == <<left, right>>
<1>1. SUFFICES ASSUME NEW m, m = InsertInternal(n, k, left, right) PROVE m \in WellShaped
  OBVIOUS
<1>2. /\ n \in Node /\ n.node_type = "Internal" /\ n.keys = <<>> /\ n.child_ids = <<>>
      /\ n.key_count = 0 /\ n.values = <<>> /\ n.next_leaf = NoBlock
  BY NewLeafShaped DEF NewInternal, NewLeaf, NoBlock, OptionBlockId, Node, WellShaped
<1>3. T = {} BY <1>2
<1>4. p = 1 BY <1>3, FS_EmptySet DEF FindKeyIndex
<1>5. <<>> \in Seq(Key) /\ Len(<<>>) = 0 BY EmptySeq
<1>6. ks \in Seq(Key) /\ Len(ks) = 1
  <2>1. 1 \in 1..(Len(<<>>) + 1) BY <1>5
  <2>2. InsertAt(<<>>, 1, k) \in Seq(Key) /\ Len(InsertAt(<<>>, 1, k)) = Len(<<>>) + 1
    BY <1>5, <2>1, InsertAtType
  <2> QED BY <1>4, <1>5, <2>2
<1>7. m = [ n EXCEPT !.keys = ks, !.key_count = n.key_count + 1, !.child_ids = cs ]
  BY <1>1, <1>2 DEF InsertInternal
<1>8. cs \in Seq(Allotted) /\ Len(cs) = 2 OBVIOUS
<1> HIDE DEF n, p, ks, cs, T
<1>9. n.key_count + 1 = 1 /\ n.key_count + 1 \in Nat BY <1>2
<1>10. /\ m \in Node /\ m.keys = ks /\ m.key_count = n.key_count + 1 /\ m.child_ids = cs
       /\ m.node_type = n.node_type /\ m.values = n.values /\ m.next_leaf = n.next_leaf
  BY <1>2, <1>6, <1>7, <1>8, <1>9 DEF Node
<1>11. /\ m.node_type = "Internal" /\ m.values = <<>> /\ m.next_leaf = NoBlock
       /\ m.key_count = Len(m.keys) /\ Len(m.child_ids) = Len(m.keys) + 1
  <2>1. m.key_count = 1 /\ Len(m.keys) = 1 /\ Len(m.child_ids) = 1 + 1
    BY <1>6, <1>8, <1>9, <1>10
  <2> QED BY <1>2, <1>10, <2>1
<1> QED BY <1>10, <1>11, InternalShaped

(* The new root is of either shape.                                        *)
LEMMA NewRootIn ==
  ASSUME NEW S, Shapes(S), NEW k \in Key, NEW left \in Allotted, NEW right \in Allotted
  PROVE  InsertInternal(NewInternal, k, left, right) \in S
BY NewRootShaped, ShapesUsable DEF Shapes

-----------------------------------------------------------------------------
(* Splitting and rebalancing.                                              *)

(* The middle of a sequence of more than two leaves keys on both sides.    *)
LEMMA HalfInside ==
  ASSUME NEW x \in Nat, x > 2
  PROVE  x \div 2 \in 0..x /\ (x \div 2) + 1 \in 1..x
OBVIOUS

(* Both halves of a node with more than two keys are of its shape and its  *)
(* kind, and the separator is one of its keys.                             *)
LEMMA SplitIn ==
  ASSUME NEW S, Shapes(S), NEW n \in S, Len(n.keys) > 2
  PROVE  /\ Split(n).key \in Key
         /\ Split(n).left \in S /\ Split(n).left.node_type = n.node_type
         /\ Split(n).right \in S /\ Split(n).right.node_type = n.node_type
<1> DEFINE m == Len(n.keys) \div 2
<1>1. /\ n.keys \in Seq(Key) /\ n.values \in Seq(Val) /\ n.child_ids \in Seq(Allotted)
      /\ n \in Node /\ Len(n.keys) \in Nat
  BY LengthsIn, ShapesUsable DEF Node
<1>2. m \in 0..Len(n.keys) /\ m + 1 \in 1..Len(n.keys) /\ m \in Nat
  <2>1. \A x \in Nat : x > 2 => x \div 2 \in 0..x /\ (x \div 2) + 1 \in 1..x
    BY HalfInside
  <2>2. m \in 0..Len(n.keys) /\ m + 1 \in 1..Len(n.keys) BY Zenon, <1>1, <2>1
  <2> HIDE DEF m
  <2> QED BY <1>1, <2>2
<1>3. Split(n).key = n.keys[m + 1] BY DEF Split
<1> HIDE DEF m
<1>4. Split(n).key \in Key BY <1>1, <1>2, <1>3, ElementOfSeq
<1>5. CASE IsLeaf(n)
  <2>p. /\ n \in Node /\ n.node_type = "Leaf" /\ n.child_ids = <<>>
        /\ n.keys \in Seq(Key) /\ n.values \in Seq(Val)
        /\ Len(n.keys) \in Nat /\ n.key_count = Len(n.keys)
        /\ Len(n.values) \in Nat /\ Len(n.values) >= Len(n.keys)
        /\ Len(n.values) - Len(n.keys) \in Spares(S)
    BY <1>5, LeafPartsIn
  <2>1. /\ Prefix(n.keys, m) \in Seq(Key) /\ Len(Prefix(n.keys, m)) = m
        /\ Suffix(n.keys, m) \in Seq(Key) /\ Len(Suffix(n.keys, m)) = Len(n.keys) - m
    BY <1>1, <1>2, PrefixType, SuffixType
  <2>2. /\ Prefix(n.values, m) \in Seq(Val) /\ Len(Prefix(n.values, m)) = m
        /\ Suffix(n.values, m) \in Seq(Val)
        /\ Len(Suffix(n.values, m)) = Len(n.values) - m
    <3>1. Len(n.values) \in Nat /\ Len(n.values) >= Len(n.keys) BY <1>5, <2>p
    <3>2. m \in 0..Len(n.values) BY <1>1, <1>2, <3>1
    <3> QED BY <1>1, <3>2, PrefixType, SuffixType
  <2>3. ASSUME NEW l, l = Split(n).left PROVE l \in S /\ l.node_type = n.node_type
    <3>1. l = [ n EXCEPT !.keys = Prefix(n.keys, m), !.key_count = m,
                         !.values = Prefix(n.values, m), !.child_ids = n.child_ids ]
      BY <1>5, <2>3 DEF Split, m
    <3>2. /\ l \in Node /\ l.keys = Prefix(n.keys, m) /\ l.key_count = m
          /\ l.values = Prefix(n.values, m) /\ l.child_ids = n.child_ids
          /\ l.node_type = n.node_type
      BY <1>1, <1>2, <2>1, <2>2, <3>1 DEF Node
    <3>3. Len(l.values) - Len(l.keys) = 0 BY <1>2, <2>1, <2>2, <3>2
    <3> QED BY <1>5, <2>1, <3>2, <3>3, SparesAdd, <2>p, LeafIn
  <2>4. ASSUME NEW r, r = Split(n).right PROVE r \in S /\ r.node_type = n.node_type
    <3>1. r = [ n EXCEPT !.keys = Suffix(n.keys, m), !.key_count = Len(n.keys) - m,
                         !.values = Suffix(n.values, m), !.child_ids = n.child_ids ]
      BY <1>5, <2>4 DEF Split, m
    <3>2. Len(n.keys) - m \in Nat BY <1>1, <1>2
    <3>3. /\ r \in Node /\ r.keys = Suffix(n.keys, m) /\ r.key_count = Len(n.keys) - m
          /\ r.values = Suffix(n.values, m) /\ r.child_ids = n.child_ids
          /\ r.node_type = n.node_type
      BY <1>1, <2>1, <2>2, <3>1, <3>2 DEF Node
    <3>4. Len(r.values) - Len(r.keys) = Len(n.values) - Len(n.keys)
      <4>1. Len(r.values) = Len(n.values) - m /\ Len(r.keys) = Len(n.keys) - m
        BY <2>1, <2>2, <3>3
      <4>2. m \in Nat /\ Len(n.values) \in Nat /\ Len(n.keys) \in Nat BY <1>2, <2>p
      <4> QED BY <4>1, <4>2
    <3> QED BY <1>5, <2>1, <3>3, <3>4, <2>p, LeafIn
  <2> QED BY <1>4, <2>3, <2>4
<1>6. CASE IsInternal(n)
  <2>p. /\ n \in Node /\ n.node_type = "Internal" /\ n.values = <<>> /\ n.next_leaf = NoBlock
        /\ n.keys \in Seq(Key) /\ n.child_ids \in Seq(Allotted)
        /\ Len(n.keys) \in Nat /\ n.key_count = Len(n.keys)
        /\ Len(n.child_ids) \in Nat /\ Len(n.child_ids) >= Len(n.keys) + 1
        /\ Len(n.child_ids) - (Len(n.keys) + 1) \in Spares(S)
    BY <1>6, InternalPartsIn
  <2> DEFINE q == m + 1
  <2>1. /\ ~IsLeaf(n) /\ Len(n.child_ids) \in Nat /\ Len(n.child_ids) >= Len(n.keys) + 1
    BY <1>6, LengthsIn
  <2>2. /\ m \in 0..Len(n.keys) /\ q \in 0..Len(n.keys) /\ q \in 0..Len(n.child_ids)
        /\ q = m + 1 /\ q \in Nat
    BY <1>1, <1>2, <2>1
  <2> HIDE DEF q
  <2>3. /\ Prefix(n.keys, m) \in Seq(Key) /\ Len(Prefix(n.keys, m)) = m
        /\ Suffix(n.keys, q) \in Seq(Key) /\ Len(Suffix(n.keys, q)) = Len(n.keys) - q
    BY <1>1, <2>2, PrefixType, SuffixType
  <2>4. /\ Prefix(n.child_ids, q) \in Seq(Allotted) /\ Len(Prefix(n.child_ids, q)) = q
        /\ Suffix(n.child_ids, q) \in Seq(Allotted)
        /\ Len(Suffix(n.child_ids, q)) = Len(n.child_ids) - q
    BY <1>1, <2>2, PrefixType, SuffixType
  <2>5. ASSUME NEW l, l = Split(n).left PROVE l \in S /\ l.node_type = n.node_type
    <3>1. l = [ n EXCEPT !.keys = Prefix(n.keys, m), !.key_count = m,
                         !.values = n.values, !.child_ids = Prefix(n.child_ids, q) ]
      BY <2>1, <2>5 DEF Split, m, q
    <3>2. /\ l \in Node /\ l.keys = Prefix(n.keys, m) /\ l.key_count = m
          /\ l.values = n.values /\ l.child_ids = Prefix(n.child_ids, q)
          /\ l.node_type = n.node_type /\ l.next_leaf = n.next_leaf
      BY <1>1, <1>2, <2>3, <2>4, <3>1 DEF Node
    <3>3. Len(l.child_ids) - (Len(l.keys) + 1) = 0 BY <2>2, <2>3, <2>4, <3>2
    <3> QED BY <1>6, <2>3, <3>2, <3>3, SparesAdd, <2>p, InternalIn
  <2>6. ASSUME NEW r, r = Split(n).right PROVE r \in S /\ r.node_type = n.node_type
    <3>1. r = [ n EXCEPT !.keys = Suffix(n.keys, q), !.key_count = Len(n.keys) - q,
                         !.values = n.values, !.child_ids = Suffix(n.child_ids, q) ]
      BY <2>1, <2>6 DEF Split, m, q
    <3>2. Len(n.keys) - q \in Nat BY <1>1, <2>2
    <3>3. /\ r \in Node /\ r.keys = Suffix(n.keys, q) /\ r.key_count = Len(n.keys) - q
          /\ r.values = n.values /\ r.child_ids = Suffix(n.child_ids, q)
          /\ r.node_type = n.node_type /\ r.next_leaf = n.next_leaf
      BY <1>1, <2>3, <2>4, <3>1, <3>2 DEF Node
    <3>4. Len(r.child_ids) - (Len(r.keys) + 1) = Len(n.child_ids) - (Len(n.keys) + 1)
      <4>1. Len(r.child_ids) = Len(n.child_ids) - q /\ Len(r.keys) = Len(n.keys) - q
        BY <2>3, <2>4, <3>3
      <4>2. q \in Nat /\ Len(n.child_ids) \in Nat /\ Len(n.keys) \in Nat BY <2>2, <2>p
      <4> QED BY <4>1, <4>2
    <3> QED BY <1>6, <2>3, <3>3, <3>4, <2>p, InternalIn
  <2> QED BY <1>4, <2>5, <2>6
<1> QED BY <1>5, <1>6, LengthsIn

(* A merged node is of the shape of the two if they are of one kind.       *)
LEMMA MergeIn ==
  ASSUME NEW S, Shapes(S), NEW n \in S, NEW other \in S, IsLeaf(n) = IsLeaf(other),
         NEW sep \in Key
  PROVE  Merge(n, other, sep) \in S
<1> DEFINE ks == MergedKeys(n, other, sep)
           cs == n.child_ids \o other.child_ids
           vs == n.values \o other.values
           nx == MergedNext(n, other)
<1>1. SUFFICES ASSUME NEW m, m = Merge(n, other, sep) PROVE m \in S
  OBVIOUS
<1>2. /\ n \in Node /\ n.keys \in Seq(Key) /\ n.values \in Seq(Val)
      /\ n.child_ids \in Seq(Allotted) /\ n.next_leaf \in OptionBlockId
      /\ Len(n.keys) \in Nat
      /\ other.keys \in Seq(Key) /\ other.values \in Seq(Val)
      /\ other.child_ids \in Seq(Allotted) /\ other.next_leaf \in OptionBlockId
      /\ Len(other.keys) \in Nat
  BY LengthsIn, ShapesUsable DEF Node
<1>3. m = [ n EXCEPT !.keys = ks, !.key_count = Len(ks), !.child_ids = cs,
                     !.values = vs, !.next_leaf = nx ]
  BY <1>1 DEF Merge
<1>4. cs \in Seq(Allotted) /\ Len(cs) = Len(n.child_ids) + Len(other.child_ids)
  BY <1>2, ConcatType
<1>5. vs \in Seq(Val) /\ Len(vs) = Len(n.values) + Len(other.values)
  BY <1>2, ConcatType
<1>6. nx \in OptionBlockId BY <1>2 DEF MergedNext
<1>7. Append(n.keys, sep) \in Seq(Key) /\ Len(Append(n.keys, sep)) = Len(n.keys) + 1
  BY <1>2
<1>8. CASE IsLeaf(n)
  <2>1. ~IsInternal(n) /\ IsLeaf(other) BY <1>8, LengthsIn
  <2>2. ks \in Seq(Key) /\ Len(ks) = Len(n.keys) + Len(other.keys)
    BY <1>2, <2>1, ConcatType DEF MergedKeys
  <2>3. n.child_ids = <<>> /\ other.child_ids = <<>> BY <1>8, <2>1, LeafPartsIn
  <2>4. cs = <<>> BY <2>3
  <2>5. Len(ks) \in Nat BY <2>2, LenProperties
  <2> HIDE DEF ks, cs, vs, nx
  <2>6. /\ m \in Node /\ m.keys = ks /\ m.key_count = Len(ks) /\ m.child_ids = cs
        /\ m.values = vs /\ m.node_type = n.node_type
    BY <1>2, <1>3, <1>4, <1>5, <1>6, <2>2, <2>5 DEF Node
  <2>7. /\ Len(n.values) \in Nat /\ Len(n.values) - Len(n.keys) \in Spares(S)
        /\ Len(other.values) \in Nat /\ Len(other.values) - Len(other.keys) \in Spares(S)
    BY <1>8, <2>1, LeafPartsIn
  <2>8. (Len(n.values) - Len(n.keys)) + (Len(other.values) - Len(other.keys)) \in Spares(S)
    BY <2>7, SparesAdd
  <2>9. Len(m.values) - Len(m.keys)
          = (Len(n.values) - Len(n.keys)) + (Len(other.values) - Len(other.keys))
    <3>1. /\ Len(m.values) = Len(n.values) + Len(other.values)
          /\ Len(m.keys) = Len(n.keys) + Len(other.keys)
      BY <1>5, <2>2, <2>6
    <3>2. /\ Len(n.keys) \in Nat /\ Len(n.values) \in Nat
          /\ Len(other.keys) \in Nat /\ Len(other.values) \in Nat
      BY <1>2, <2>7
    <3> QED BY <3>1, <3>2
  <2> QED BY <1>8, <2>4, <2>6, <2>8, <2>9, LeafPartsIn, LeafIn
<1>9. CASE IsInternal(n)
  <2>1. ~IsLeaf(n) /\ IsInternal(other) BY <1>9, LengthsIn
  <2>2. ks \in Seq(Key) /\ Len(ks) = (Len(n.keys) + 1) + Len(other.keys)
    <3>1. ks = Append(n.keys, sep) \o other.keys BY <1>9 DEF MergedKeys
    <3> HIDE DEF ks
    <3> QED BY <1>2, <1>7, <3>1, ConcatType
  <2>3. n.values = <<>> /\ other.values = <<>> BY <1>9, <2>1, InternalPartsIn
  <2>4. vs = <<>> /\ nx = n.next_leaf BY <2>1, <2>3 DEF MergedNext
  <2>5. Len(ks) \in Nat BY <2>2, LenProperties
  <2> HIDE DEF ks, cs, vs, nx
  <2>6. /\ m \in Node /\ m.keys = ks /\ m.key_count = Len(ks) /\ m.child_ids = cs
        /\ m.values = vs /\ m.node_type = n.node_type /\ m.next_leaf = nx
    BY <1>2, <1>3, <1>4, <1>5, <1>6, <2>2, <2>5 DEF Node
  <2>7. /\ Len(n.child_ids) \in Nat /\ Len(n.child_ids) - (Len(n.keys) + 1) \in Spares(S)
        /\ Len(other.child_ids) \in Nat
        /\ Len(other.child_ids) - (Len(other.keys) + 1) \in Spares(S)
    BY <1>9, <2>1, InternalPartsIn
  <2>8. (Len(n.child_ids) - (Len(n.keys) + 1)) + (Len(other.child_ids) - (Len(other.keys) + 1))
          \in Spares(S)
    BY <2>7, SparesAdd
  <2>9. Len(m.child_ids) - (Len(m.keys) + 1)
          = (Len(n.child_ids) - (Len(n.keys) + 1))
            + (Len(other.child_ids) - (Len(other.keys) + 1))
    <3>1. /\ Len(m.child_ids) = Len(n.child_ids) + Len(other.child_ids)
          /\ Len(m.keys) = (Len(n.keys) + 1) + Len(other.keys)
      BY <1>4, <2>2, <2>6
    <3>2. /\ Len(n.keys) \in Nat /\ Len(n.child_ids) \in Nat
          /\ Len(other.keys) \in Nat /\ Len(other.child_ids) \in Nat
      BY <1>2, <2>7
    <3> QED BY <3>1, <3>2
  <2> QED BY <1>9, <2>4, <2>6, <2>8, <2>9, InternalPartsIn, InternalIn
<1> QED BY <1>8, <1>9, LengthsIn

(* A sequence with one element put in front (Vec::insert(0, ..)).          *)
LEMMA ConsType ==
  ASSUME NEW S, NEW s \in Seq(S), NEW e \in S
  PROVE  <<e>> \o s \in Seq(S) /\ Len(<<e>> \o s) = Len(s) + 1
<1>1. <<e>> \in Seq(S) /\ Len(<<e>>) = 1 OBVIOUS
<1>2. <<e>> \o s \in Seq(S) /\ Len(<<e>> \o s) = Len(<<e>>) + Len(s)
  BY <1>1, ConcatType
<1>3. Len(s) \in Nat BY LenProperties
<1> QED BY <1>1, <1>2, <1>3

(* A sequence with one element put at its end (Vec::push).                 *)
LEMMA SnocType ==
  ASSUME NEW S, NEW s \in Seq(S), NEW e \in S
  PROVE  Append(s, e) \in Seq(S) /\ Len(Append(s, e)) = Len(s) + 1
OBVIOUS

(* The two ends of a sequence that is not empty.                           *)
LEMMA EndsType ==
  ASSUME NEW S, NEW s \in Seq(S), Len(s) # 0
  PROVE  /\ Front(s) \in Seq(S) /\ Len(Front(s)) = Len(s) - 1 /\ Last(s) \in S
         /\ Tail(s) \in Seq(S) /\ Len(Tail(s)) = Len(s) - 1 /\ Head(s) \in S
<1>1. s # <<>> BY EmptySeq
<1> QED BY <1>1, FrontType, HeadTailProperties

(* Two nodes of one kind have what to take from each other, and two of     *)
(* different kinds have not.                                               *)
LEMMA LendableToKind ==
  ASSUME NEW S, Shapes(S), NEW n \in S, NEW sibling \in S, sibling.key_count > 0
  PROVE  Lendable(n, sibling) # <<>> <=> IsLeaf(n) = IsLeaf(sibling)
<1>1. /\ Len(sibling.keys) \in Nat /\ Len(sibling.keys) # 0
      /\ IsLeaf(sibling) => Len(sibling.values) >= Len(sibling.keys)
                            /\ Len(sibling.values) \in Nat /\ sibling.child_ids = <<>>
      /\ ~IsLeaf(sibling) => Len(sibling.child_ids) >= Len(sibling.keys) + 1
                             /\ Len(sibling.child_ids) \in Nat /\ sibling.values = <<>>
  <2>1. /\ Len(sibling.keys) \in Nat /\ sibling.key_count = Len(sibling.keys)
        /\ IsLeaf(sibling) <=> ~IsInternal(sibling)
    BY LengthsIn
  <2>2. IsLeaf(sibling) => /\ Len(sibling.values) >= Len(sibling.keys)
                           /\ Len(sibling.values) \in Nat /\ sibling.child_ids = <<>>
    BY LengthsIn
  <2>3. IsInternal(sibling) => /\ Len(sibling.child_ids) >= Len(sibling.keys) + 1
                               /\ Len(sibling.child_ids) \in Nat /\ sibling.values = <<>>
    BY LengthsIn
  <2> QED BY <2>1, <2>2, <2>3
<1>2. /\ IsLeaf(sibling) => sibling.values # <<>> /\ sibling.child_ids = <<>>
      /\ ~IsLeaf(sibling) => sibling.child_ids # <<>> /\ sibling.values = <<>>
  <2>1. Len(<<>>) = 0 OBVIOUS
  <2> QED BY <1>1, <2>1
<1>3. IsLeaf(n) \in BOOLEAN /\ IsLeaf(sibling) \in BOOLEAN BY DEF IsLeaf
<1> QED BY <1>2, <1>3 DEF Lendable

(* borrow_from_left, from a sibling that has a key.  If the two are of one *)
(* kind, both keep their shape.  If they are not, it does not fail either: *)
(* the node gets nothing, and the sibling has lost a key but not what      *)
(* belongs to it, so that validate() refuses it, whatever it was.          *)
LEMMA BorrowFromLeftShaped ==
  ASSUME NEW S, Shapes(S), NEW n \in S, NEW sibling \in S, sibling.key_count > 0,
         NEW sep \in Key
  PROVE  LET b == BorrowFromLeft(n, sibling, sep)
         IN /\ b.separator \in Key /\ b.node \in S /\ b.sibling \in Usable
            /\ IsLeaf(n) = IsLeaf(sibling) => b.sibling \in S
            /\ IsLeaf(n) # IsLeaf(sibling) =>
                 b.separator = sep /\ b.node = n /\ b.sibling \notin WellShaped
<1> DEFINE b == BorrowFromLeft(n, sibling, sep)
<1>1. /\ n.keys \in Seq(Key) /\ n.values \in Seq(Val) /\ n.child_ids \in Seq(Allotted)
      /\ n \in Node /\ Len(n.keys) \in Nat /\ n.key_count = Len(n.keys)
      /\ n.key_count + 1 \in Nat
  <2>1. n \in Node BY ShapesUsable
  <2>2. Len(n.keys) \in Nat /\ n.key_count = Len(n.keys) BY LengthsIn
  <2> QED BY <2>1, <2>2 DEF Node
<1>2. /\ sibling.keys \in Seq(Key) /\ sibling.values \in Seq(Val)
      /\ sibling.child_ids \in Seq(Allotted)
      /\ sibling \in Node /\ Len(sibling.keys) \in Nat /\ sibling.key_count = Len(sibling.keys)
      /\ sibling.key_count - 1 \in Nat /\ Len(sibling.keys) # 0
  <2>1. sibling \in Node BY ShapesUsable
  <2>2. Len(sibling.keys) \in Nat /\ sibling.key_count = Len(sibling.keys) BY LengthsIn
  <2> QED BY <2>1, <2>2 DEF Node
<1>3. /\ Last(sibling.keys) \in Key /\ Front(sibling.keys) \in Seq(Key)
      /\ Len(Front(sibling.keys)) = Len(sibling.keys) - 1
  BY <1>2, EndsType
<1>4. b.separator \in Key BY <1>3 DEF BorrowFromLeft, LeftSeparator
<1>7. IsLeaf(n) = IsLeaf(sibling) <=> Lendable(n, sibling) # <<>> BY LendableToKind
<1>5. CASE IsLeaf(n) /\ IsLeaf(sibling)
  <2> DEFINE ks == <<Last(sibling.keys)>> \o n.keys
             vs == <<Last(sibling.values)>> \o n.values
  <2>1. /\ n.node_type = "Leaf" /\ n.child_ids = <<>>
        /\ Len(n.values) \in Nat /\ Len(n.values) - Len(n.keys) \in Spares(S)
        /\ sibling.node_type = "Leaf" /\ sibling.child_ids = <<>>
        /\ Len(sibling.values) \in Nat /\ Len(sibling.values) >= Len(sibling.keys)
        /\ Len(sibling.values) - Len(sibling.keys) \in Spares(S)
    BY <1>5, LeafPartsIn
  <2>2. Len(sibling.values) # 0 BY <1>2, <2>1
  <2>3. /\ Last(sibling.values) \in Val /\ Front(sibling.values) \in Seq(Val)
        /\ Len(Front(sibling.values)) = Len(sibling.values) - 1
    BY <1>2, <2>2, EndsType
  <2>4. ks \in Seq(Key) /\ Len(ks) = Len(n.keys) + 1 BY <1>1, <1>3, ConsType
  <2>5. vs \in Seq(Val) /\ Len(vs) = Len(n.values) + 1 BY <1>1, <2>3, ConsType
  <2>6. ASSUME NEW m, m = b.node PROVE m \in S
    <3>1. m = [ n EXCEPT !.keys = ks, !.key_count = n.key_count + 1, !.values = vs,
                         !.child_ids = n.child_ids ]
      BY <1>5, <1>7, <2>6 DEF BorrowFromLeft, ReceivedKey
    <3> HIDE DEF ks, vs
    <3>2. /\ m \in Node /\ m.keys = ks /\ m.key_count = n.key_count + 1 /\ m.values = vs
          /\ m.node_type = n.node_type /\ m.child_ids = n.child_ids
      BY <1>1, <2>4, <2>5, <3>1 DEF Node
    <3>3. Len(m.values) - Len(m.keys) = Len(n.values) - Len(n.keys)
      <4>1. Len(m.values) = Len(n.values) + 1 /\ Len(m.keys) = Len(n.keys) + 1
        BY <2>4, <2>5, <3>2
      <4>2. Len(n.values) \in Nat /\ Len(n.keys) \in Nat BY <1>1, <2>1
      <4> QED BY <4>1, <4>2
    <3> QED BY <1>1, <2>1, <2>4, <3>2, <3>3, LeafIn
  <2>7. ASSUME NEW s, s = b.sibling PROVE s \in S
    <3>1. s = [ sibling EXCEPT !.keys = Front(sibling.keys),
                               !.key_count = sibling.key_count - 1,
                               !.values = Front(sibling.values),
                               !.child_ids = sibling.child_ids ]
      BY <1>5, <1>7, <2>7 DEF BorrowFromLeft
    <3>2. /\ s \in Node /\ s.keys = Front(sibling.keys) /\ s.key_count = sibling.key_count - 1
          /\ s.values = Front(sibling.values)
          /\ s.node_type = sibling.node_type /\ s.child_ids = sibling.child_ids
      BY <1>2, <1>3, <2>3, <3>1 DEF Node
    <3>3. Len(s.values) - Len(s.keys) = Len(sibling.values) - Len(sibling.keys)
      <4>1. Len(s.values) = Len(sibling.values) - 1 /\ Len(s.keys) = Len(sibling.keys) - 1
        BY <1>3, <2>3, <3>2
      <4>2. Len(sibling.values) \in Nat /\ Len(sibling.keys) \in Nat BY <1>2, <2>1
      <4> QED BY <4>1, <4>2
    <3> QED BY <1>2, <1>3, <2>1, <3>2, <3>3, LeafIn
  <2> QED BY <1>4, <1>5, <2>6, <2>7, ShapesUsable
<1>6. CASE IsInternal(n) /\ IsInternal(sibling)
  <2> DEFINE ks == <<sep>> \o n.keys
             cs == <<Last(sibling.child_ids)>> \o n.child_ids
  <2>1. /\ ~IsLeaf(n)
        /\ n.node_type = "Internal" /\ n.values = <<>> /\ n.next_leaf = NoBlock
        /\ Len(n.child_ids) \in Nat /\ Len(n.child_ids) - (Len(n.keys) + 1) \in Spares(S)
        /\ sibling.node_type = "Internal" /\ sibling.values = <<>>
        /\ sibling.next_leaf = NoBlock
        /\ Len(sibling.child_ids) \in Nat /\ Len(sibling.child_ids) >= Len(sibling.keys) + 1
        /\ Len(sibling.child_ids) - (Len(sibling.keys) + 1) \in Spares(S)
    BY <1>6, LengthsIn, InternalPartsIn
  <2>9. ~IsLeaf(sibling) /\ Lendable(n, sibling) # <<>>
    <3>1. ~IsLeaf(sibling) BY <1>6, LengthsIn
    <3>2. IsLeaf(n) = IsLeaf(sibling) BY <2>1 DEF IsLeaf
    <3> QED BY <1>7, <3>1, <3>2
  <2>2. Len(sibling.child_ids) # 0 BY <1>2, <2>1
  <2>3. /\ Last(sibling.child_ids) \in Allotted /\ Front(sibling.child_ids) \in Seq(Allotted)
        /\ Len(Front(sibling.child_ids)) = Len(sibling.child_ids) - 1
    BY <1>2, <2>2, EndsType
  <2>4. ks \in Seq(Key) /\ Len(ks) = Len(n.keys) + 1 BY <1>1, ConsType
  <2>5. cs \in Seq(Allotted) /\ Len(cs) = Len(n.child_ids) + 1 BY <1>1, <2>3, ConsType
  <2>6. ASSUME NEW m, m = b.node PROVE m \in S
    <3>1. m = [ n EXCEPT !.keys = ks, !.key_count = n.key_count + 1, !.values = n.values,
                         !.child_ids = cs ]
      BY <2>1, <2>9, <2>6 DEF BorrowFromLeft, ReceivedKey
    <3> HIDE DEF ks, cs
    <3>2. /\ m \in Node /\ m.keys = ks /\ m.key_count = n.key_count + 1 /\ m.values = n.values
          /\ m.node_type = n.node_type /\ m.child_ids = cs /\ m.next_leaf = n.next_leaf
      BY <1>1, <2>4, <2>5, <3>1 DEF Node
    <3>3. Len(m.child_ids) - (Len(m.keys) + 1) = Len(n.child_ids) - (Len(n.keys) + 1)
      <4>1. Len(m.child_ids) = Len(n.child_ids) + 1 /\ Len(m.keys) = Len(n.keys) + 1
        BY <2>4, <2>5, <3>2
      <4>2. Len(n.child_ids) \in Nat /\ Len(n.keys) \in Nat BY <1>1, <2>1
      <4> QED BY <4>1, <4>2
    <3> QED BY <1>1, <2>1, <2>4, <3>2, <3>3, InternalIn
  <2>7. ASSUME NEW s, s = b.sibling PROVE s \in S
    <3>1. s = [ sibling EXCEPT !.keys = Front(sibling.keys),
                               !.key_count = sibling.key_count - 1,
                               !.values = sibling.values,
                               !.child_ids = Front(sibling.child_ids) ]
      BY <2>1, <2>9, <2>7 DEF BorrowFromLeft
    <3>2. /\ s \in Node /\ s.keys = Front(sibling.keys) /\ s.key_count = sibling.key_count - 1
          /\ s.values = sibling.values /\ s.next_leaf = sibling.next_leaf
          /\ s.node_type = sibling.node_type /\ s.child_ids = Front(sibling.child_ids)
      BY <1>2, <1>3, <2>3, <3>1 DEF Node
    <3>3. Len(s.child_ids) - (Len(s.keys) + 1)
            = Len(sibling.child_ids) - (Len(sibling.keys) + 1)
      <4>1. /\ Len(s.child_ids) = Len(sibling.child_ids) - 1
            /\ Len(s.keys) = Len(sibling.keys) - 1
        BY <1>3, <2>3, <3>2
      <4>2. Len(sibling.child_ids) \in Nat /\ Len(sibling.keys) \in Nat BY <1>2, <2>1
      <4> QED BY <4>1, <4>2
    <3> QED BY <1>2, <1>3, <2>1, <3>2, <3>3, InternalIn
  <2>8. IsLeaf(n) = IsLeaf(sibling) BY <2>1 DEF IsLeaf
  <2> QED BY <1>4, <2>6, <2>7, <2>8, ShapesUsable
<1>8. CASE IsLeaf(n) # IsLeaf(sibling)
  <2>1. b = [ separator |-> sep, node |-> n,
              sibling |-> [ sibling EXCEPT !.keys = Front(sibling.keys),
                                           !.key_count = sibling.key_count - 1 ] ]
    BY <1>7, <1>8 DEF BorrowFromLeft
  <2>2. ASSUME NEW s, s = b.sibling PROVE s \in Usable /\ s \notin WellShaped
    <3>1. s = [ sibling EXCEPT !.keys = Front(sibling.keys),
                               !.key_count = sibling.key_count - 1 ]
      BY <2>1, <2>2
    <3>2. /\ s \in Node /\ s.keys = Front(sibling.keys) /\ s.key_count = sibling.key_count - 1
          /\ s.values = sibling.values /\ s.next_leaf = sibling.next_leaf
          /\ s.node_type = sibling.node_type /\ s.child_ids = sibling.child_ids
      BY <1>2, <1>3, <3>1 DEF Node
    <3>3. sibling \in Usable BY ShapesUsable
    <3>4. /\ s.key_count = Len(s.keys) /\ Len(s.keys) = Len(sibling.keys) - 1
      BY <1>2, <1>3, <3>2
    <3>5. CASE IsLeaf(sibling)
      <4>1. /\ sibling.child_ids = <<>>
            /\ Len(sibling.values) \in Nat /\ Len(sibling.values) >= Len(sibling.keys)
        BY <3>5, LengthsIn
      <4>2. Len(s.values) > Len(s.keys) BY <1>2, <3>2, <3>4, <4>1
      <4>3. IsLeaf(s) /\ ~IsInternal(s) /\ s.child_ids = <<>>
        BY <3>2, <3>5, <4>1 DEF IsLeaf, IsInternal
      <4>4. KeysServed(s) BY <1>2, <1>3, <3>2, <3>4, <4>1, <4>2, <4>3 DEF KeysServed
      <4>5. ~ShapeOK(s) BY <1>2, <1>3, <3>2, <3>4, <4>1, <4>2, <4>3 DEF ShapeOK
      <4> QED BY <3>2, <4>4, <4>5 DEF Usable, WellShaped
    <3>6. CASE ~IsLeaf(sibling)
      <4>1. /\ IsInternal(sibling) /\ sibling.values = <<>>
            /\ Len(sibling.child_ids) \in Nat
            /\ Len(sibling.child_ids) >= Len(sibling.keys) + 1
        BY <3>6, LengthsIn
      <4>2. Len(s.child_ids) > Len(s.keys) + 1 /\ Len(s.child_ids) > Len(s.keys)
        BY <1>2, <3>2, <3>4, <4>1
      <4>3. IsInternal(s) /\ ~IsLeaf(s) BY <3>2, <4>1 DEF IsLeaf, IsInternal
      <4>4. s.values = <<>> /\ s.next_leaf = NoBlock
        BY <3>2, <3>3, <4>1 DEF Usable, KeysServed
      <4>5. KeysServed(s) BY <3>4, <4>2, <4>3, <4>4 DEF KeysServed
      <4>6. ~ShapeOK(s) BY <1>2, <3>2, <3>4, <4>1, <4>2, <4>3 DEF ShapeOK
      <4> QED BY <3>2, <4>5, <4>6 DEF Usable, WellShaped
    <3> QED BY <3>5, <3>6
  <2>3. b.separator = sep /\ b.node = n BY <2>1
  <2> QED BY <1>8, <2>2, <2>3
<1>9. IsLeaf(n) \in BOOLEAN /\ IsLeaf(sibling) \in BOOLEAN BY DEF IsLeaf
<1> QED BY <1>5, <1>6, <1>8, <1>9, LengthsIn

(* borrow_from_right, from a sibling that has a key, where it does not     *)
(* panic: then there is something to take, so that the two are of one      *)
(* kind, and both keep their shape.                                        *)
LEMMA BorrowFromRightShaped ==
  ASSUME NEW S, Shapes(S), NEW n \in S, NEW sibling \in S, sibling.key_count > 0,
         Lendable(n, sibling) # <<>>, NEW sep \in Key
  PROVE  LET b == BorrowFromRight(n, sibling, sep)
         IN b.separator \in Key /\ b.node \in S /\ b.sibling \in S
<1> DEFINE b == BorrowFromRight(n, sibling, sep)
<1>1. /\ n.keys \in Seq(Key) /\ n.values \in Seq(Val) /\ n.child_ids \in Seq(Allotted)
      /\ n \in Node /\ Len(n.keys) \in Nat /\ n.key_count = Len(n.keys)
      /\ n.key_count + 1 \in Nat
  <2>1. n \in Node BY ShapesUsable
  <2>2. Len(n.keys) \in Nat /\ n.key_count = Len(n.keys) BY LengthsIn
  <2> QED BY <2>1, <2>2 DEF Node
<1>2. /\ sibling.keys \in Seq(Key) /\ sibling.values \in Seq(Val)
      /\ sibling.child_ids \in Seq(Allotted)
      /\ sibling \in Node /\ Len(sibling.keys) \in Nat /\ sibling.key_count = Len(sibling.keys)
      /\ sibling.key_count - 1 \in Nat /\ Len(sibling.keys) # 0
  <2>1. sibling \in Node BY ShapesUsable
  <2>2. Len(sibling.keys) \in Nat /\ sibling.key_count = Len(sibling.keys) BY LengthsIn
  <2> QED BY <2>1, <2>2 DEF Node
<1>3. /\ Head(sibling.keys) \in Key /\ Tail(sibling.keys) \in Seq(Key)
      /\ Len(Tail(sibling.keys)) = Len(sibling.keys) - 1
  BY <1>2, EndsType
<1>4. b.separator \in Key
  <2>1. b.separator = RightSeparator(n, sibling, sep) BY DEF BorrowFromRight
  <2>2. Len(sibling.keys) > 1 => sibling.keys[2] \in Key BY <1>2, ElementOfSeq
  <2> QED BY <1>3, <2>1, <2>2 DEF RightSeparator
<1>5. CASE IsLeaf(n) /\ IsLeaf(sibling)
  <2> DEFINE ks == Append(n.keys, Head(sibling.keys))
             vs == Append(n.values, Head(sibling.values))
  <2>1. /\ n.node_type = "Leaf" /\ n.child_ids = <<>>
        /\ Len(n.values) \in Nat /\ Len(n.values) - Len(n.keys) \in Spares(S)
        /\ sibling.node_type = "Leaf" /\ sibling.child_ids = <<>>
        /\ Len(sibling.values) \in Nat /\ Len(sibling.values) >= Len(sibling.keys)
        /\ Len(sibling.values) - Len(sibling.keys) \in Spares(S)
    BY <1>5, LeafPartsIn
  <2>2. Len(sibling.values) # 0 BY <1>2, <2>1
  <2>3. /\ Head(sibling.values) \in Val /\ Tail(sibling.values) \in Seq(Val)
        /\ Len(Tail(sibling.values)) = Len(sibling.values) - 1
    BY <1>2, <2>2, EndsType
  <2>4. ks \in Seq(Key) /\ Len(ks) = Len(n.keys) + 1 BY <1>1, <1>3, SnocType
  <2>5. vs \in Seq(Val) /\ Len(vs) = Len(n.values) + 1 BY <1>1, <2>3, SnocType
  <2>6. ASSUME NEW m, m = b.node PROVE m \in S
    <3>1. m = [ n EXCEPT !.keys = ks, !.key_count = n.key_count + 1, !.values = vs,
                         !.child_ids = n.child_ids ]
      BY <1>5, <2>6 DEF BorrowFromRight, ReceivedKey
    <3> HIDE DEF ks, vs
    <3>2. /\ m \in Node /\ m.keys = ks /\ m.key_count = n.key_count + 1 /\ m.values = vs
          /\ m.node_type = n.node_type /\ m.child_ids = n.child_ids
      BY <1>1, <2>4, <2>5, <3>1 DEF Node
    <3>3. Len(m.values) - Len(m.keys) = Len(n.values) - Len(n.keys)
      <4>1. Len(m.values) = Len(n.values) + 1 /\ Len(m.keys) = Len(n.keys) + 1
        BY <2>4, <2>5, <3>2
      <4>2. Len(n.values) \in Nat /\ Len(n.keys) \in Nat BY <1>1, <2>1
      <4> QED BY <4>1, <4>2
    <3> QED BY <1>1, <2>1, <2>4, <3>2, <3>3, LeafIn
  <2>7. ASSUME NEW s, s = b.sibling PROVE s \in S
    <3>1. s = [ sibling EXCEPT !.keys = Tail(sibling.keys),
                               !.key_count = sibling.key_count - 1,
                               !.values = Tail(sibling.values),
                               !.child_ids = sibling.child_ids ]
      BY <1>5, <2>7 DEF BorrowFromRight
    <3>2. /\ s \in Node /\ s.keys = Tail(sibling.keys) /\ s.key_count = sibling.key_count - 1
          /\ s.values = Tail(sibling.values)
          /\ s.node_type = sibling.node_type /\ s.child_ids = sibling.child_ids
      BY <1>2, <1>3, <2>3, <3>1 DEF Node
    <3>3. Len(s.values) - Len(s.keys) = Len(sibling.values) - Len(sibling.keys)
      <4>1. Len(s.values) = Len(sibling.values) - 1 /\ Len(s.keys) = Len(sibling.keys) - 1
        BY <1>3, <2>3, <3>2
      <4>2. Len(sibling.values) \in Nat /\ Len(sibling.keys) \in Nat BY <1>2, <2>1
      <4> QED BY <4>1, <4>2
    <3> QED BY <1>2, <1>3, <2>1, <3>2, <3>3, LeafIn
  <2> QED BY <1>4, <2>6, <2>7
<1>6. CASE IsInternal(n) /\ IsInternal(sibling)
  <2> DEFINE ks == Append(n.keys, sep)
             cs == Append(n.child_ids, Head(sibling.child_ids))
  <2>1. /\ ~IsLeaf(n)
        /\ n.node_type = "Internal" /\ n.values = <<>> /\ n.next_leaf = NoBlock
        /\ Len(n.child_ids) \in Nat /\ Len(n.child_ids) - (Len(n.keys) + 1) \in Spares(S)
        /\ sibling.node_type = "Internal" /\ sibling.values = <<>>
        /\ sibling.next_leaf = NoBlock
        /\ Len(sibling.child_ids) \in Nat /\ Len(sibling.child_ids) >= Len(sibling.keys) + 1
        /\ Len(sibling.child_ids) - (Len(sibling.keys) + 1) \in Spares(S)
    BY <1>6, LengthsIn, InternalPartsIn
  <2>2. Len(sibling.child_ids) # 0 BY <1>2, <2>1
  <2>3. /\ Head(sibling.child_ids) \in Allotted /\ Tail(sibling.child_ids) \in Seq(Allotted)
        /\ Len(Tail(sibling.child_ids)) = Len(sibling.child_ids) - 1
    BY <1>2, <2>2, EndsType
  <2>4. ks \in Seq(Key) /\ Len(ks) = Len(n.keys) + 1 BY <1>1, SnocType
  <2>5. cs \in Seq(Allotted) /\ Len(cs) = Len(n.child_ids) + 1 BY <1>1, <2>3, SnocType
  <2>6. ASSUME NEW m, m = b.node PROVE m \in S
    <3>1. m = [ n EXCEPT !.keys = ks, !.key_count = n.key_count + 1, !.values = n.values,
                         !.child_ids = cs ]
      BY <2>1, <2>6 DEF BorrowFromRight, ReceivedKey
    <3> HIDE DEF ks, cs
    <3>2. /\ m \in Node /\ m.keys = ks /\ m.key_count = n.key_count + 1 /\ m.values = n.values
          /\ m.node_type = n.node_type /\ m.child_ids = cs /\ m.next_leaf = n.next_leaf
      BY <1>1, <2>4, <2>5, <3>1 DEF Node
    <3>3. Len(m.child_ids) - (Len(m.keys) + 1) = Len(n.child_ids) - (Len(n.keys) + 1)
      <4>1. Len(m.child_ids) = Len(n.child_ids) + 1 /\ Len(m.keys) = Len(n.keys) + 1
        BY <2>4, <2>5, <3>2
      <4>2. Len(n.child_ids) \in Nat /\ Len(n.keys) \in Nat BY <1>1, <2>1
      <4> QED BY <4>1, <4>2
    <3> QED BY <1>1, <2>1, <2>4, <3>2, <3>3, InternalIn
  <2>7. ASSUME NEW s, s = b.sibling PROVE s \in S
    <3>1. s = [ sibling EXCEPT !.keys = Tail(sibling.keys),
                               !.key_count = sibling.key_count - 1,
                               !.values = sibling.values,
                               !.child_ids = Tail(sibling.child_ids) ]
      BY <2>1, <2>7 DEF BorrowFromRight
    <3>2. /\ s \in Node /\ s.keys = Tail(sibling.keys) /\ s.key_count = sibling.key_count - 1
          /\ s.values = sibling.values /\ s.next_leaf = sibling.next_leaf
          /\ s.node_type = sibling.node_type /\ s.child_ids = Tail(sibling.child_ids)
      BY <1>2, <1>3, <2>3, <3>1 DEF Node
    <3>3. Len(s.child_ids) - (Len(s.keys) + 1)
            = Len(sibling.child_ids) - (Len(sibling.keys) + 1)
      <4>1. /\ Len(s.child_ids) = Len(sibling.child_ids) - 1
            /\ Len(s.keys) = Len(sibling.keys) - 1
        BY <1>3, <2>3, <3>2
      <4>2. Len(sibling.child_ids) \in Nat /\ Len(sibling.keys) \in Nat BY <1>2, <2>1
      <4> QED BY <4>1, <4>2
    <3> QED BY <1>2, <1>3, <2>1, <3>2, <3>3, InternalIn
  <2> QED BY <1>4, <2>6, <2>7
<1>7. IsLeaf(n) = IsLeaf(sibling) BY LendableToKind
<1> QED BY <1>5, <1>6, <1>7, LengthsIn

(* An inner node keeps its shape when one of its separators changes.       *)
LEMMA SeparatorChangedIn ==
  ASSUME NEW S, Shapes(S), NEW n \in S, IsInternal(n), NEW i \in 1..Len(n.keys), NEW k \in Key
  PROVE  [ n EXCEPT !.keys[i] = k ] \in S
<1> DEFINE ks == [ n.keys EXCEPT ![i] = k ]
<1>p. /\ n \in Node /\ n.node_type = "Internal" /\ n.values = <<>> /\ n.next_leaf = NoBlock
      /\ n.keys \in Seq(Key) /\ n.child_ids \in Seq(Allotted)
      /\ Len(n.keys) \in Nat /\ n.key_count = Len(n.keys)
      /\ Len(n.child_ids) \in Nat /\ Len(n.child_ids) >= Len(n.keys) + 1
      /\ Len(n.child_ids) - (Len(n.keys) + 1) \in Spares(S)
  BY InternalPartsIn
<1>1. SUFFICES ASSUME NEW m, m = [ n EXCEPT !.keys[i] = k ] PROVE m \in S
  OBVIOUS
<1>2. m = [ n EXCEPT !.keys = ks ] BY <1>1
<1>3. ks \in Seq(Key) /\ Len(ks) = Len(n.keys) BY <1>p, ExceptSeq
<1> HIDE DEF ks
<1>4. /\ m \in Node /\ m.keys = ks /\ m.key_count = n.key_count
      /\ m.child_ids = n.child_ids /\ m.values = n.values /\ m.node_type = n.node_type
      /\ m.next_leaf = n.next_leaf
  BY <1>2, <1>3, <1>p DEF Node
<1> QED BY <1>3, <1>4, <1>p, InternalIn

(* It also does when it loses a child and the separator before it.         *)
LEMMA ChildRemovedIn ==
  ASSUME NEW S, Shapes(S), NEW n \in S, IsInternal(n), NEW i \in 1..Len(n.keys)
  PROVE  [ n EXCEPT !.keys = RemoveAt(n.keys, i),
                    !.child_ids = RemoveAt(n.child_ids, i + 1),
                    !.key_count = n.key_count - 1 ] \in S
<1> DEFINE ks == RemoveAt(n.keys, i)
           j  == i + 1
           cs == RemoveAt(n.child_ids, j)
<1>p. /\ n \in Node /\ n.node_type = "Internal" /\ n.values = <<>> /\ n.next_leaf = NoBlock
      /\ n.keys \in Seq(Key) /\ n.child_ids \in Seq(Allotted)
      /\ Len(n.keys) \in Nat /\ n.key_count = Len(n.keys)
      /\ Len(n.child_ids) \in Nat /\ Len(n.child_ids) >= Len(n.keys) + 1
      /\ Len(n.child_ids) - (Len(n.keys) + 1) \in Spares(S)
  BY InternalPartsIn
<1>1. SUFFICES ASSUME NEW m, m = [ n EXCEPT !.keys = ks, !.child_ids = cs,
                                            !.key_count = n.key_count - 1 ]
               PROVE  m \in S
  OBVIOUS
<1>2. /\ n.keys \in Seq(Key) /\ n.child_ids \in Seq(Allotted) /\ Len(n.keys) \in Nat
      /\ Len(n.child_ids) \in Nat /\ Len(n.child_ids) >= Len(n.keys) + 1
      /\ n.key_count = Len(n.keys)
  BY <1>p
<1>3. ks \in Seq(Key) /\ Len(ks) = Len(n.keys) - 1 BY <1>2, RemoveAtType
<1>4. j \in 1..Len(n.child_ids) /\ n.key_count - 1 \in Nat BY <1>2
<1> HIDE DEF j
<1>5. cs \in Seq(Allotted) /\ Len(cs) = Len(n.child_ids) - 1 BY <1>2, <1>4, RemoveAtType
<1> HIDE DEF ks, cs
<1>6. /\ m \in Node /\ m.keys = ks /\ m.key_count = n.key_count - 1
      /\ m.child_ids = cs /\ m.values = n.values /\ m.node_type = n.node_type
      /\ m.next_leaf = n.next_leaf
  BY <1>1, <1>3, <1>4, <1>5, <1>p DEF Node
<1>7. m.key_count = Len(m.keys) BY <1>2, <1>3, <1>6
<1>8. Len(m.child_ids) - (Len(m.keys) + 1) = Len(n.child_ids) - (Len(n.keys) + 1)
  <2>1. Len(m.child_ids) = Len(n.child_ids) - 1 /\ Len(m.keys) = Len(n.keys) - 1
    BY <1>3, <1>5, <1>6
  <2>2. Len(n.child_ids) \in Nat /\ Len(n.keys) \in Nat BY <1>2
  <2> QED BY <2>1, <2>2
<1> QED BY <1>6, <1>7, <1>8, <1>p, InternalIn

-----------------------------------------------------------------------------
(* The operations on nodes whose parts match, as they are when nothing has *)
(* failed.                                                                 *)

(* insert_leaf                                                             *)
LEMMA InsertLeafShaped ==
  ASSUME NEW n \in WellShaped, IsLeaf(n), NEW k \in Key, NEW v \in Val
  PROVE  InsertLeaf(n, k, v) \in WellShaped /\ IsLeaf(InsertLeaf(n, k, v))
BY InsertLeafIn DEF Shapes

(* remove_leaf                                                             *)
LEMMA RemoveLeafShaped ==
  ASSUME NEW n \in WellShaped, IsLeaf(n), NEW k \in Key, HasKey(n, k)
  PROVE  RemoveLeaf(n, k) \in WellShaped
BY RemoveLeafIn DEF Shapes

(* insert_internal                                                         *)
LEMMA InsertInternalShaped ==
  ASSUME NEW n \in WellShaped, IsInternal(n), NEW k \in Key,
         NEW left \in Allotted, NEW right \in Allotted
  PROVE  InsertInternal(n, k, left, right) \in WellShaped
BY InsertInternalIn DEF Shapes

(* split                                                                   *)
LEMMA SplitShaped ==
  ASSUME NEW n \in WellShaped, Len(n.keys) > 2
  PROVE  /\ Split(n).key \in Key
         /\ Split(n).left \in WellShaped /\ Split(n).left.node_type = n.node_type
         /\ Split(n).right \in WellShaped /\ Split(n).right.node_type = n.node_type
BY SplitIn DEF Shapes

(* merge                                                                   *)
LEMMA MergeShaped ==
  ASSUME NEW n \in WellShaped, NEW other \in WellShaped, IsLeaf(n) = IsLeaf(other),
         NEW sep \in Key
  PROVE  Merge(n, other, sep) \in WellShaped
BY MergeIn DEF Shapes

(* A separator changes.                                                    *)
LEMMA SeparatorChanged ==
  ASSUME NEW n \in WellShaped, IsInternal(n), NEW i \in 1..Len(n.keys), NEW k \in Key
  PROVE  [ n EXCEPT !.keys[i] = k ] \in WellShaped
BY SeparatorChangedIn DEF Shapes

(* A child and the separator before it go.                                 *)
LEMMA ChildRemoved ==
  ASSUME NEW n \in WellShaped, IsInternal(n), NEW i \in 1..Len(n.keys)
  PROVE  [ n EXCEPT !.keys = RemoveAt(n.keys, i),
                    !.child_ids = RemoveAt(n.child_ids, i + 1),
                    !.key_count = n.key_count - 1 ] \in WellShaped
BY ChildRemovedIn DEF Shapes
=============================================================================
