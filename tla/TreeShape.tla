------------------------------- MODULE TreeShape -------------------------------
(***************************************************************************)
(* What it is for a set of blocks to be a B+ tree, said of each node and   *)
(* its neighbours, so that it can be reasoned about without walking the    *)
(* tree.  B is a function from block ids to nodes, root the id of the      *)
(* root.  The place of every block in the tree is given by s: its height   *)
(* above the leaves, its parent, and the bounds that the separators above  *)
(* it set for its keys, each a set of at most one key.                     *)
(***************************************************************************)
EXTENDS UniversalNode

Bounds == { {} } \cup { {k} : k \in Key }

AtLeast(lo, k) == \A m \in lo : m <= k
Above(lo, k)   == \A m \in lo : m < k
Below(k, hi)   == \A m \in hi : k < m

(* No key is below a bound m \in hi and at or above a bound in lo.         *)
EndsBefore(hi, lo) == \E m \in hi : \E l \in lo : m <= l

Places(B) == [ ht  : [ DOMAIN B -> Nat ],
               par : [ DOMAIN B -> Nat ],
               lo  : [ DOMAIN B -> Bounds ],
               hi  : [ DOMAIN B -> Bounds ] ]

Ordered(keys) == \A i, j \in DOMAIN keys : i < j => keys[i] < keys[j]

(* The bounds of the i-th child of a node with bounds lo and hi.           *)
LowOf(n, lo, i)  == IF i = 1 THEN lo ELSE { n.keys[i-1] }
HighOf(n, hi, i) == IF i = Len(n.keys) + 1 THEN hi ELSE { n.keys[i] }

-----------------------------------------------------------------------------
(* A leaf, and the leaf that its next_leaf leads to.                       *)
LeafOK(B, s, b) ==
  /\ s.ht[b] = 0
  /\ \A i \in DOMAIN B[b].keys : AtLeast(s.lo[b], B[b].keys[i])
  /\ IF s.hi[b] = {} THEN B[b].next_leaf = NoBlock
     ELSE /\ B[b].next_leaf \in DOMAIN B
          /\ s.ht[B[b].next_leaf] = 0
          /\ s.lo[B[b].next_leaf] = s.hi[b]

(* An inner node and its i-th child.                                       *)
ChildOK(B, s, b, i) ==
  LET c == B[b].child_ids[i]
  IN /\ c \in DOMAIN B
     /\ s.par[c] = b
     /\ s.ht[c] + 1 = s.ht[b]
     /\ s.lo[c] = LowOf(B[b], s.lo[b], i)
     /\ s.hi[c] = HighOf(B[b], s.hi[b], i)

InnerOK(B, s, b) ==
  /\ s.ht[b] > 0
  /\ \A i \in DOMAIN B[b].keys : Above(s.lo[b], B[b].keys[i])
  /\ \A i \in DOMAIN B[b].child_ids : ChildOK(B, s, b, i)

NodeOK(B, s, b) ==
  /\ B[b] \in WellShaped
  /\ Ordered(B[b].keys)
  /\ \A i \in DOMAIN B[b].keys : Below(B[b].keys[i], s.hi[b])
  /\ \A m \in s.lo[b] : Below(m, s.hi[b])
  /\ IsLeaf(B[b]) => LeafOK(B, s, b)
  /\ IsInternal(B[b]) => InnerOK(B, s, b)

(* Every block but the root is the child of its parent.                    *)
HasParent(B, s, root, b) ==
  IF b = root THEN s.par[b] = NoBlock /\ s.lo[b] = {} /\ s.hi[b] = {}
  ELSE /\ s.par[b] \in DOMAIN B
       /\ IsInternal(B[s.par[b]])
       /\ \E i \in DOMAIN B[s.par[b]].child_ids : B[s.par[b]].child_ids[i] = b
       /\ s.ht[b] < s.ht[root]

(* No two leaves have a key in common.                                     *)
LeavesApart(B, s) ==
  \A b, c \in DOMAIN B :
    b # c /\ s.ht[b] = 0 /\ s.ht[c] = 0 =>
      EndsBefore(s.hi[b], s.lo[c]) \/ EndsBefore(s.hi[c], s.lo[b])

Tree(B, s, root) ==
  /\ DOMAIN B \subseteq BlockId
  /\ root \in DOMAIN B
  /\ s \in Places(B)
  /\ \A b \in DOMAIN B : NodeOK(B, s, b) /\ HasParent(B, s, root, b)
  /\ LeavesApart(B, s)

-----------------------------------------------------------------------------
(* How nodes are cut in two and put together again.                        *)

(* The sequence n is l followed by r.                                      *)
Joined(n, l, r) ==
  /\ Len(n) = Len(l) + Len(r)
  /\ \A i \in 1..Len(l) : l[i] = n[i]
  /\ \A i \in 1..Len(r) : r[i] = n[Len(l) + i]

(* The sequence n is l, then k, then r.                                    *)
JoinedAt(n, l, r, k) ==
  /\ Len(n) = Len(l) + 1 + Len(r)
  /\ n[Len(l) + 1] = k
  /\ \A i \in 1..Len(l) : l[i] = n[i]
  /\ \A i \in 1..Len(r) : r[i] = n[Len(l) + 1 + i]

(* The sequence t is s with e put in at position i.                        *)
Inserted(t, s, i, e) ==
  /\ Len(t) = Len(s) + 1
  /\ t[i] = e
  /\ \A j \in 1..Len(s) : s[j] = IF j < i THEN t[j] ELSE t[j + 1]

(* The node n is what its halves l and r, cut at key k, are of.            *)
Halves(n, l, r, k) ==
  /\ l \in WellShaped /\ r \in WellShaped
  /\ l.node_type = n.node_type /\ r.node_type = n.node_type
  /\ IsLeaf(n) => /\ Joined(n.keys, l.keys, r.keys)
                  /\ Joined(n.values, l.values, r.values)
                  /\ n.next_leaf = r.next_leaf
                  /\ \A i \in DOMAIN l.keys : l.keys[i] < k
                  /\ \A i \in DOMAIN r.keys : k <= r.keys[i]
  /\ IsInternal(n) => /\ JoinedAt(n.keys, l.keys, r.keys, k)
                      /\ Joined(n.child_ids, l.child_ids, r.child_ids)

(* The inner node m is n with the child q more, to the right of the i-th   *)
(* and separated from it by k.                                             *)
ChildAdded(n, i, k, q, m) ==
  /\ m \in WellShaped /\ n \in WellShaped /\ IsInternal(n) /\ IsInternal(m)
  /\ Inserted(m.keys, n.keys, i, k)
  /\ Inserted(m.child_ids, n.child_ids, i + 1, q)

-----------------------------------------------------------------------------
(* What is stored: the entries of all leaves.                              *)
Has(n, k, v) == \E i \in DOMAIN n.keys : n.keys[i] = k /\ n.values[i] = v

Stores(B, k, v) == \E b \in DOMAIN B : IsLeaf(B[b]) /\ Has(B[b], k, v)

SameEntries(B, C) == \A k \in Key, v \in Val : Stores(B, k, v) <=> Stores(C, k, v)
=============================================================================
