---------------------------- MODULE BPTreeMapProofs ----------------------------
(***************************************************************************)
(* As long as nothing fails the tree acts as the ordered map of            *)
(* OrderedMap: the invariant MapKept of BPTreeMap, and from it every step  *)
(* of the tree as a step of the map or none.                               *)
(***************************************************************************)
EXTENDS BPTreeMap, BPTreeIntactProofs

-----------------------------------------------------------------------------
(* Counting up.                                                            *)

(* A set of natural numbers that has 0 and with every number the next one  *)
(* has all of them.                                                        *)
LEMMA CountUp ==
  ASSUME NEW S, S \subseteq Nat, 0 \in S, \A n \in S : n + 1 \in S
  PROVE  S = Nat
<1> SUFFICES ASSUME S # Nat PROVE FALSE OBVIOUS
<1> DEFINE T == Nat \ S
           R == { ss \in Nat \X Nat : ss[1] < ss[2] }
<1>1. T \subseteq Nat /\ T # {} OBVIOUS
<1>2. PICK x \in T : \A y \in T : ~(<<y, x>> \in R)
  <2>1. IsWellFoundedOn(R, Nat) BY NatLessThanWellFounded DEF OpToRel
  <2> HIDE DEF T, R
  <2> QED BY <1>1, <2>1, WFMin
<1>3. x \in Nat /\ x \notin S /\ x # 0 OBVIOUS
<1>4. x - 1 \in Nat /\ x - 1 < x /\ (x - 1) + 1 = x BY <1>3
<1>5. <<x - 1, x>> \in R BY <1>3, <1>4
<1>6. x - 1 \in S BY <1>2, <1>4, <1>5
<1> QED BY <1>3, <1>4, <1>6

(* The values a walk has had after n of its steps.                         *)
Walked(W, w, g, n, a) ==
  /\ a \in [ 0..n -> W ] /\ a[0] = w
  /\ \A i \in 0..(n - 1) : a[i + 1] = g[a[i]]

(* Two walks of the same steps agree as far as both go.                    *)
LEMMA WalkedOnce ==
  ASSUME NEW W, NEW w, NEW g, NEW m \in Nat, NEW n \in Nat, m <= n, NEW a, NEW b,
         Walked(W, w, g, m, a), Walked(W, w, g, n, b)
  PROVE  a[m] = b[m]
<1> DEFINE S == { i \in Nat : i <= m => a[i] = b[i] }
<1>1. 0 \in S BY DEF Walked
<1>2. ASSUME NEW i \in S PROVE i + 1 \in S
  <2> SUFFICES ASSUME i + 1 <= m PROVE a[i + 1] = b[i + 1] OBVIOUS
  <2>1. i \in Nat /\ i <= m /\ i \in 0..(m - 1) /\ i \in 0..(n - 1) OBVIOUS
  <2>2. a[i] = b[i] BY <2>1
  <2> QED BY <2>1, <2>2 DEF Walked
<1>3. S = Nat
  <2>1. S \subseteq Nat OBVIOUS
  <2> HIDE DEF S
  <2> QED BY <1>1, <1>2, <2>1, CountUp
<1> QED BY <1>3

(* A walk of so many steps.                                                *)
LEMMA WalkOf ==
  ASSUME NEW W, NEW w \in W, NEW g \in [ W -> W ]
  PROVE  \A n \in Nat : \E a : Walked(W, w, g, n, a)
<1> DEFINE S == { n \in Nat : \E a : Walked(W, w, g, n, a) }
<1>1. 0 \in S
  <2>1. Walked(W, w, g, 0, [ i \in 0..0 |-> w ]) BY DEF Walked
  <2> QED BY <2>1
<1>2. ASSUME NEW n \in S PROVE n + 1 \in S
  <2>1. n \in Nat /\ n + 1 \in Nat OBVIOUS
  <2>2. PICK a : Walked(W, w, g, n, a) OBVIOUS
  <2> DEFINE b == [ i \in 0..(n + 1) |-> IF i = n + 1 THEN g[a[n]] ELSE a[i] ]
  <2>3. a[n] \in W BY <2>1, <2>2 DEF Walked
  <2>4. \A i \in 0..(n + 1) : i # n + 1 => i \in 0..n /\ a[i] \in W BY <2>1, <2>2 DEF Walked
  <2>5. b \in [ 0..(n + 1) -> W ] BY <2>3, <2>4
  <2>6. b[0] = w BY <2>1, <2>2 DEF Walked
  <2>7. ASSUME NEW i \in 0..((n + 1) - 1) PROVE b[i + 1] = g[b[i]]
    <3>1. i \in 0..n /\ b[i] = a[i] BY <2>1
    <3>2. CASE i = n BY <2>1, <3>1, <3>2
    <3>3. CASE i # n
      <4>1. i \in 0..(n - 1) /\ b[i + 1] = a[i + 1] BY <2>1, <3>1, <3>3
      <4> QED BY <2>2, <3>1, <4>1 DEF Walked
    <3> QED BY <3>2, <3>3
  <2> HIDE DEF b
  <2>8. Walked(W, w, g, n + 1, b) BY <2>5, <2>6, <2>7 DEF Walked
  <2> QED BY <2>1, <2>8
<1>3. S = Nat
  <2>1. S \subseteq Nat OBVIOUS
  <2> HIDE DEF S
  <2> QED BY <1>1, <1>2, <2>1, CountUp
<1> QED BY <1>3

(* A walk without an end.                                                  *)
LEMMA WalkOn ==
  ASSUME NEW W, NEW w \in W, NEW g \in [ W -> W ]
  PROVE  \E f \in [ Nat -> W ] : f[0] = w /\ \A n \in Nat : f[n + 1] = g[f[n]]
<1> DEFINE a(n) == CHOOSE x : Walked(W, w, g, n, x)
           f == [ n \in Nat |-> a(n)[n] ]
<1>1. \A n \in Nat : Walked(W, w, g, n, a(n)) BY WalkOf
<1> HIDE DEF a
<1>2. f \in [ Nat -> W ] BY <1>1 DEF Walked
<1>3. f[0] = w BY <1>1 DEF Walked
<1>4. ASSUME NEW n \in Nat PROVE f[n + 1] = g[f[n]]
  <2>1. n + 1 \in Nat /\ n \in 0..((n + 1) - 1) /\ n <= n + 1 OBVIOUS
  <2>2. a(n + 1)[n + 1] = g[a(n + 1)[n]] BY <1>1, <2>1 DEF Walked
  <2>3. a(n)[n] = a(n + 1)[n]
    <3>1. Walked(W, w, g, n, a(n)) /\ Walked(W, w, g, n + 1, a(n + 1)) BY <1>1, <2>1
    <3> QED BY <2>1, <3>1, WalkedOnce
  <2> QED BY <2>1, <2>2, <2>3
<1> QED BY <1>2, <1>3, <1>4


-----------------------------------------------------------------------------
(* What get finds.                                                         *)

Lookups == [ BlockId -> [ Key -> Val \cup {None} ] ]

(* get with one level more to go down than it takes to get the values w.   *)
LevelMore(w) ==
  [ id \in BlockId |-> [ k \in Key |->
    IF id \notin DOMAIN blocks THEN None
    ELSE IF IsLeaf(blocks[id]) THEN Get(blocks[id], k)
    ELSE w[blocks[id].child_ids[FindKeyIndex(blocks[id], k) + 1]][k] ] ]

(* The child that a key leads to.                                          *)
LEMMA ChildFor ==
  ASSUME NEW s, Tree(blocks, s, ROOT_ID), NEW b \in DOMAIN blocks, IsInternal(blocks[b]),
         NEW k \in Key
  PROVE  LET i == FindKeyIndex(blocks[b], k) + 1
             c == blocks[b].child_ids[i]
         IN /\ i \in 1..(Len(blocks[b].keys) + 1)
            /\ c \in DOMAIN blocks /\ c \in BlockId /\ s.ht[c] + 1 = s.ht[b]
            /\ AtLeast(s.lo[b], k) => AtLeast(s.lo[c], k)
            /\ Below(k, s.hi[b]) => Below(k, s.hi[c])
<1> DEFINE n == blocks[b]
           p == FindKeyIndex(n, k)
           i == p + 1
           c == n.child_ids[i]
<1>1. n \in WellShaped /\ Ordered(n.keys) BY TreeNode
<1>2. p \in 0..Len(n.keys) /\ Len(n.keys) \in Nat BY <1>1, FindKeyIndexType, Lengths
<1>3. i \in 1..(Len(n.keys) + 1) /\ p \in Nat BY <1>2
<1>4. \A j \in 1..Len(n.keys) : j <= p <=> n.keys[j] < k \/ n.keys[j] = k
  BY <1>1, KeyPosition
<1> HIDE DEF p
<1>5. /\ c \in DOMAIN blocks /\ s.ht[c] + 1 = s.ht[b]
      /\ s.lo[c] = LowOf(n, s.lo[b], i) /\ s.hi[c] = HighOf(n, s.hi[b], i)
  BY <1>3, TreeChild
<1>6. c \in BlockId BY <1>5, TreeNode
<1>7. k \in Int /\ \A j \in 1..Len(n.keys) : n.keys[j] \in Int
  BY <1>1, NodeParts, KeyAssumption
<1>8. ASSUME AtLeast(s.lo[b], k) PROVE AtLeast(s.lo[c], k)
  <2> HIDE DEF n, c
  <2>1. CASE i = 1 BY <1>5, <1>8, <2>1 DEF LowOf
  <2>2. CASE i # 1
    <3> DEFINE a == n.keys[i-1]
    <3>1. i - 1 \in 1..Len(n.keys) /\ i - 1 <= p BY <1>2, <1>3, <2>2
    <3>2. a \in Int /\ (a < k \/ a = k) BY <1>4, <1>7, <3>1
    <3>3. s.lo[c] = {a} BY <1>5, <2>2 DEF LowOf
    <3> HIDE DEF a
    <3>4. a <= k BY <1>7, <3>2
    <3> QED BY <3>3, <3>4 DEF AtLeast
  <2> QED BY <2>1, <2>2
<1>9. ASSUME Below(k, s.hi[b]) PROVE Below(k, s.hi[c])
  <2> HIDE DEF n, c
  <2>1. CASE i = Len(n.keys) + 1 BY <1>5, <1>9, <2>1 DEF HighOf
  <2>2. CASE i # Len(n.keys) + 1
    <3> DEFINE a == n.keys[i]
    <3>1. i \in 1..Len(n.keys) /\ ~(i <= p) BY <1>2, <1>3, <2>2
    <3>2. a \in Int /\ ~(a < k \/ a = k) BY <1>4, <1>7, <3>1
    <3>3. s.hi[c] = {a} BY <1>5, <2>2 DEF HighOf
    <3> HIDE DEF a
    <3>4. k < a BY <1>7, <3>2
    <3> QED BY <3>3, <3>4 DEF Below
  <2> QED BY <2>1, <2>2
<1> QED BY <1>3, <1>5, <1>6, <1>8, <1>9 DEF p

(* Whatever is found with fewer levels, it is found with one more.         *)
LEMMA LevelMoreType ==
  ASSUME \A b \in DOMAIN blocks : blocks[b] \in WellShaped, NEW w \in Lookups
  PROVE  LevelMore(w) \in Lookups
<1> SUFFICES ASSUME NEW id \in BlockId, NEW k \in Key
             PROVE  (IF id \notin DOMAIN blocks THEN None
                     ELSE IF IsLeaf(blocks[id]) THEN Get(blocks[id], k)
                     ELSE w[blocks[id].child_ids[FindKeyIndex(blocks[id], k) + 1]][k])
                    \in Val \cup {None}
  BY DEF LevelMore, Lookups
<1>1. CASE id \notin DOMAIN blocks BY <1>1
<1>2. CASE id \in DOMAIN blocks /\ IsLeaf(blocks[id])
  <2>1. Get(blocks[id], k) \in Val \cup {None} BY <1>2, GetType
  <2> QED BY <1>2, <2>1
<1>3. CASE id \in DOMAIN blocks /\ ~IsLeaf(blocks[id])
  <2> DEFINE c == blocks[id].child_ids[FindKeyIndex(blocks[id], k) + 1]
  <2>1. /\ blocks[id].child_ids \in Seq(Allotted)
        /\ FindKeyIndex(blocks[id], k) + 1 \in 1..Len(blocks[id].child_ids)
    BY <1>3, NodeParts, InternalParts, FindKeyIndexType
  <2>2. c \in BlockId BY <2>1 DEF Allotted, BlockId
  <2> HIDE DEF c
  <2>3. w[c][k] \in Val \cup {None} BY <2>2 DEF Lookups
  <2> QED BY <1>3, <2>3 DEF c
<1> QED BY <1>1, <1>2, <1>3

(* get, level by level.                                                    *)
LEMMA LookupLevels ==
  ASSUME \A b \in DOMAIN blocks : blocks[b] \in WellShaped
  PROVE  /\ Lookup \in [ Nat -> Lookups ]
         /\ \A n \in Nat : Lookup[n + 1] = LevelMore(Lookup[n])
<1> DEFINE w == [ id \in BlockId |-> [ k \in Key |-> None ] ]
           g == [ x \in Lookups |-> LevelMore(x) ]
           At(F, fuel) == [ id \in BlockId |-> [ k \in Key |->
             IF fuel = 0 \/ id \notin DOMAIN blocks THEN None
             ELSE IF IsLeaf(blocks[id]) THEN Get(blocks[id], k)
             ELSE F[fuel - 1][blocks[id].child_ids[FindKeyIndex(blocks[id], k) + 1]][k] ] ]
<1>1. w \in Lookups BY DEF Lookups
<1>2. g \in [ Lookups -> Lookups ] BY LevelMoreType
<1>3. \A F : At(F, 0) = w OBVIOUS
<1>4. \A F : \A fuel \in Nat \ {0} : At(F, fuel) = LevelMore(F[fuel - 1]) BY DEF LevelMore
<1>5. ASSUME NEW F, F = [ fuel \in Nat |-> At(F, fuel) ] PROVE Lookup = [ fuel \in Nat |-> At(Lookup, fuel) ]
  BY <1>5, Zenon DEF Lookup
<1> HIDE DEF g, w, At
<1>6. PICK f \in [ Nat -> Lookups ] : f[0] = w /\ \A n \in Nat : f[n + 1] = g[f[n]]
  BY <1>1, <1>2, WalkOn
<1>7. f = [ fuel \in Nat |-> At(f, fuel) ]
  <2>1. ASSUME NEW fuel \in Nat PROVE f[fuel] = At(f, fuel)
    <3>1. CASE fuel = 0 BY <1>3, <1>6, <3>1
    <3>2. CASE fuel # 0
      <4>1. fuel - 1 \in Nat /\ (fuel - 1) + 1 = fuel BY <3>2
      <4>2. f[fuel] = g[f[fuel - 1]] /\ f[fuel - 1] \in Lookups BY <1>6, <4>1
      <4>3. f[fuel] = LevelMore(f[fuel - 1]) BY <4>2 DEF g
      <4> QED BY <1>4, <3>2, <4>3
    <3> QED BY <3>1, <3>2
  <2>2. f = [ fuel \in Nat |-> f[fuel] ] BY <1>6
  <2> QED BY <2>1, <2>2
<1>8. Lookup = [ fuel \in Nat |-> At(Lookup, fuel) ] BY <1>5, <1>7
<1>9. Lookup[0] = w BY <1>3, <1>8
<1>10. ASSUME NEW n \in Nat PROVE Lookup[n + 1] = LevelMore(Lookup[n])
  <2>1. n + 1 \in Nat \ {0} /\ (n + 1) - 1 = n OBVIOUS
  <2>2. Lookup[n + 1] = At(Lookup, n + 1) BY <1>8, <2>1
  <2>3. At(Lookup, n + 1) = LevelMore(Lookup[(n + 1) - 1]) BY <1>4, <2>1
  <2> QED BY <2>1, <2>2, <2>3
<1>11. \A n \in Nat : Lookup[n] \in Lookups
  <2> DEFINE S == { n \in Nat : Lookup[n] \in Lookups }
  <2>1. 0 \in S BY <1>1, <1>9
  <2>2. ASSUME NEW n \in S PROVE n + 1 \in S BY <1>10, LevelMoreType
  <2>3. S \subseteq Nat OBVIOUS
  <2> HIDE DEF S
  <2>4. S = Nat BY <2>1, <2>2, <2>3, CountUp
  <2> QED BY <2>4 DEF S
<1>12. Lookup \in [ Nat -> Lookups ]
  <2>1. Lookup = [ n \in Nat |-> Lookup[n] ] BY <1>8
  <2> QED BY <1>11, <2>1
<1> QED BY <1>10, <1>12

(* With as many levels as the block is high, get finds what is stored.     *)
LEMMA LookupStored ==
  ASSUME NEW s, Tree(blocks, s, ROOT_ID), NEW k \in Key, NEW n \in Nat,
         NEW b \in DOMAIN blocks, s.ht[b] < n, InRange(s, b, k)
  PROVE  /\ Lookup[n][b][k] \in Val \cup {None}
         /\ \A v \in Val : Stores(blocks, k, v) <=> Lookup[n][b][k] = v
<1> DEFINE Finds(m, c) == /\ Lookup[m][c][k] \in Val \cup {None}
                          /\ \A v \in Val : Stores(blocks, k, v) <=> Lookup[m][c][k] = v
           S == { m \in Nat : \A c \in DOMAIN blocks :
                                s.ht[c] < m /\ InRange(s, c, k) => Finds(m, c) }
<1>1. 0 \in S
  <2>1. \A c \in DOMAIN blocks : s.ht[c] \in Nat BY TreeNode
  <2>2. \A c \in DOMAIN blocks : ~(s.ht[c] < 0) BY <2>1
  <2> QED BY <2>2
<1>2. ASSUME NEW m \in S PROVE m + 1 \in S
  <2>1. m \in Nat /\ m + 1 \in Nat OBVIOUS
  <2> SUFFICES ASSUME NEW c \in DOMAIN blocks, s.ht[c] < m + 1, InRange(s, c, k)
               PROVE  Finds(m + 1, c)
    BY <2>1
  <2>2. /\ blocks[c] \in WellShaped /\ Ordered(blocks[c].keys) /\ c \in BlockId
        /\ s.ht[c] \in Nat /\ (IsLeaf(blocks[c]) \/ IsInternal(blocks[c]))
        /\ ~(IsLeaf(blocks[c]) /\ IsInternal(blocks[c]))
    BY TreeNode, NodeParts
  <2>3. Lookup[m + 1][c][k] =
          IF IsLeaf(blocks[c]) THEN Get(blocks[c], k)
          ELSE Lookup[m][blocks[c].child_ids[FindKeyIndex(blocks[c], k) + 1]][k]
    <3>1. Lookup[m + 1] = LevelMore(Lookup[m]) BY <2>1, TreeNode, LookupLevels
    <3> QED BY <2>2, <3>1 DEF LevelMore
  <2>4. AtLeast(s.lo[c], k) /\ Below(k, s.hi[c]) BY DEF InRange
  <2>5. CASE IsLeaf(blocks[c])
    <3>1. /\ Get(blocks[c], k) \in Val \cup {None}
          /\ \A v \in Val : Has(blocks[c], k, v) <=> Get(blocks[c], k) = v
      BY <2>2, <2>5, GetHas
    <3>2. \A v \in Val : Stores(blocks, k, v) <=> Has(blocks[c], k, v)
      BY <2>4, <2>5, OnlyLeaf
    <3> QED BY <2>3, <2>5, <3>1, <3>2
  <2>6. CASE IsInternal(blocks[c])
    <3> DEFINE d == blocks[c].child_ids[FindKeyIndex(blocks[c], k) + 1]
    <3>1. d \in DOMAIN blocks /\ s.ht[d] + 1 = s.ht[c] /\ AtLeast(s.lo[d], k) /\ Below(k, s.hi[d])
      BY <2>4, <2>6, ChildFor
    <3> HIDE DEF d
    <3>2. s.ht[d] \in Nat BY <3>1, TreeNode
    <3>3. s.ht[d] < m BY <2>1, <2>2, <3>1, <3>2
    <3>4. Finds(m, d) BY <3>1, <3>3 DEF InRange
    <3>5. Lookup[m + 1][c][k] = Lookup[m][d][k] BY <2>2, <2>3, <2>6 DEF d
    <3> QED BY <3>4, <3>5
  <2> QED BY <2>2, <2>5, <2>6
<1>3. S = Nat
  <2>1. S \subseteq Nat OBVIOUS
  <2> HIDE DEF S
  <2> QED BY <1>1, <1>2, <2>1, CountUp
<1> QED BY <1>3

(* There are blocks at every height up to the root's, so the tree has more *)
(* blocks than the root is high.                                           *)
LEMMA RootLow ==
  ASSUME NEW s, Tree(blocks, s, ROOT_ID), IsFiniteSet(DOMAIN blocks)
  PROVE  Fuel \in Nat /\ s.ht[ROOT_ID] < Fuel
<1> DEFINE h == s.ht[ROOT_ID]
           S == { n \in Nat : n <= h => \E b \in DOMAIN blocks : s.ht[b] + n = h }
<1>1. ROOT_ID \in DOMAIN blocks BY DEF Tree
<1>2. h \in Nat /\ \A b \in DOMAIN blocks : s.ht[b] \in Nat BY <1>1, TreeNode
<1>3. 0 \in S BY <1>1, <1>2
<1>4. ASSUME NEW n \in S PROVE n + 1 \in S
  <2>1. n \in Nat /\ n + 1 \in Nat OBVIOUS
  <2> SUFFICES ASSUME n + 1 <= h PROVE \E b \in DOMAIN blocks : s.ht[b] + (n + 1) = h
    BY <2>1
  <2>2. PICK b \in DOMAIN blocks : s.ht[b] + n = h BY <1>2, <2>1
  <2>3. s.ht[b] \in Nat /\ s.ht[b] > 0 BY <1>2, <2>1, <2>2
  <2>4. IsInternal(blocks[b]) BY <2>3, TreeNode
  <2> DEFINE c == blocks[b].child_ids[1]
  <2>5. Len(blocks[b].keys) \in Nat BY TreeNode, NodeParts
  <2>6. 1 \in 1..(Len(blocks[b].keys) + 1) BY <2>5
  <2>7. c \in DOMAIN blocks /\ s.ht[c] + 1 = s.ht[b] BY <2>4, <2>6, TreeChild
  <2>8. s.ht[c] \in Nat BY <1>2, <2>7
  <2> HIDE DEF c
  <2>9. s.ht[c] + (n + 1) = h BY <1>2, <2>1, <2>2, <2>3, <2>7, <2>8
  <2> QED BY <2>7, <2>9
<1>5. S = Nat
  <2>1. S \subseteq Nat OBVIOUS
  <2> HIDE DEF S
  <2> QED BY <1>3, <1>4, <2>1, CountUp
<1>6. \A n \in 0..h : \E b \in DOMAIN blocks : s.ht[b] = n
  <2> TAKE n \in 0..h
  <2>1. n \in Nat /\ h - n \in Nat /\ h - n <= h BY <1>2
  <2>2. PICK b \in DOMAIN blocks : s.ht[b] + (h - n) = h BY <1>5, <2>1
  <2>3. s.ht[b] = n
    <3> DEFINE a == s.ht[b]
    <3>1. a \in Nat /\ a + (h - n) = h BY <1>2, <2>2
    <3> HIDE DEF a, h
    <3>2. a = n BY <1>2, <2>1, <3>1
    <3> QED BY <3>2 DEF a
  <2> QED BY <2>3
<1> DEFINE f == [ n \in 0..h |-> CHOOSE b \in DOMAIN blocks : s.ht[b] = n ]
<1>7. \A n \in 0..h : f[n] \in DOMAIN blocks /\ s.ht[f[n]] = n BY <1>6
<1>8. f \in Injection(0..h, DOMAIN blocks)
  <2>1. f \in [ 0..h -> DOMAIN blocks ] BY <1>7
  <2>2. \A m, n \in 0..h : f[m] = f[n] => m = n BY <1>7
  <2> HIDE DEF f
  <2> QED BY <2>1, <2>2 DEF Injection, IsInjective
<1> HIDE DEF f
<1>9. Cardinality(0..h) <= Cardinality(DOMAIN blocks) BY <1>8, FS_Injection
<1>10. Cardinality(0..h) = h + 1 BY <1>2, FS_Interval
<1>11. Cardinality(DOMAIN blocks) \in Nat BY FS_CardinalityType
<1> QED BY <1>2, <1>9, <1>10, <1>11 DEF Fuel

(* get finds what is stored.                                               *)
LEMMA FoundStored ==
  ASSUME NEW s, Tree(blocks, s, ROOT_ID), IsFiniteSet(DOMAIN blocks), NEW k \in Key
  PROVE  /\ Found(k) \in Val \cup {None}
         /\ \A v \in Val : Stores(blocks, k, v) <=> Found(k) = v
<1>1. ROOT_ID \in DOMAIN blocks BY DEF Tree
<1>2. s.lo[ROOT_ID] = {} /\ s.hi[ROOT_ID] = {} BY <1>1, TreeNode DEF HasParent
<1>3. InRange(s, ROOT_ID, k) BY <1>2 DEF InRange, AtLeast, Below
<1>4. Fuel \in Nat /\ s.ht[ROOT_ID] < Fuel BY RootLow
<1> QED BY <1>1, <1>3, <1>4, LookupStored DEF Found

(* What a client sees of a tree is the map that its entries make.          *)
LEMMA HoldsEntries ==
  ASSUME NEW s, Tree(blocks, s, ROOT_ID), IsFiniteSet(DOMAIN blocks)
  PROVE  /\ IsMap(Holds(TRUE)) /\ Agrees(Holds(TRUE), blocks, TRUE)
         /\ \A m : IsMap(m) /\ Agrees(m, blocks, TRUE) => Holds(TRUE) = m
<1> DEFINE D == { x \in Key : Found(x) # None }
           H == [ k \in D |-> Found(k) ]
<1>1. Holds(TRUE) = H BY DEF Holds
<1>2. \A k \in Key : /\ Found(k) \in Val \cup {None}
                     /\ \A v \in Val : Stores(blocks, k, v) <=> Found(k) = v
  BY FoundStored
<1>3. \A k \in Key : k \in D <=> Found(k) \in Val BY <1>2, NoneAssumption
<1>4. IsMap(H)
  <2>1. DOMAIN H = D /\ H \in [ D -> Val ] BY <1>3
  <2> QED BY <2>1 DEF IsMap
<1>5. \A k \in Key, v \in Val : Stores(blocks, k, v) <=> k \in DOMAIN H /\ H[k] = v
  BY <1>2, <1>3
<1>6. ASSUME NEW m, IsMap(m), Agrees(m, blocks, TRUE) PROVE H = m
  <2>1. DOMAIN m \subseteq Key /\ m \in [ DOMAIN m -> Val ] BY <1>6 DEF IsMap
  <2>2. \A k \in Key, v \in Val : Stores(blocks, k, v) <=> k \in DOMAIN m /\ m[k] = v
    BY <1>6 DEF Agrees
  <2>3. \A k \in DOMAIN m : m[k] \in Val BY <2>1
  <2>4. \A k \in Key : k \in D <=> k \in DOMAIN m
    <3> TAKE k \in Key
    <3>1. ASSUME k \in D PROVE k \in DOMAIN m
      <4>1. Found(k) \in Val BY <1>3, <3>1
      <4> QED BY <1>2, <2>2, <4>1
    <3>2. ASSUME k \in DOMAIN m PROVE k \in D
      <4>1. m[k] \in Val BY <2>3, <3>2
      <4>2. Found(k) = m[k] BY <1>2, <2>2, <3>2, <4>1
      <4> QED BY <1>3, <4>1, <4>2
    <3> QED BY <3>1, <3>2
  <2>5. D = DOMAIN m BY <2>1, <2>4
  <2>6. \A k \in DOMAIN m : Found(k) = m[k]
    <3> TAKE k \in DOMAIN m
    <3>1. k \in Key /\ m[k] \in Val BY <2>1, <2>3
    <3> QED BY <1>2, <2>2, <3>1
  <2>7. m = [ k \in DOMAIN m |-> m[k] ] BY <2>1
  <2> QED BY <2>5, <2>6, <2>7
<1> HIDE DEF D, H
<1>7. Agrees(H, blocks, TRUE) BY <1>5 DEF Agrees
<1> QED BY <1>1, <1>4, <1>6, <1>7

-----------------------------------------------------------------------------
(* Maps.                                                                   *)

(* The value under a key, if there is one.                                 *)
LEMMA MapValues ==
  ASSUME NEW m, IsMap(m), NEW k \in Key
  PROVE  /\ ValueOf(m, k) \in Val \cup {None}
         /\ ValueOf(m, k) = None <=> k \notin DOMAIN m
         /\ \A v \in Val : k \in DOMAIN m /\ m[k] = v <=> ValueOf(m, k) = v
<1>1. \A x \in DOMAIN m : m[x] \in Val BY DEF IsMap
<1>2. CASE k \in DOMAIN m BY <1>1, <1>2, NoneAssumption DEF ValueOf
<1>3. CASE k \notin DOMAIN m BY <1>3, NoneAssumption DEF ValueOf
<1> QED BY <1>2, <1>3

(* Maps with the same values are the same.                                 *)
LEMMA MapsEqual ==
  ASSUME NEW a, NEW b, IsMap(a), IsMap(b), \A k \in Key : ValueOf(a, k) = ValueOf(b, k)
  PROVE  a = b
<1>1. DOMAIN a \subseteq Key /\ DOMAIN b \subseteq Key BY DEF IsMap
<1>2. \A k \in Key : k \in DOMAIN a <=> k \in DOMAIN b BY MapValues
<1>3. DOMAIN a = DOMAIN b BY <1>1, <1>2
<1>4. \A k \in DOMAIN a : a[k] = b[k] BY <1>1, <1>3 DEF ValueOf
<1>5. a = [ k \in DOMAIN a |-> a[k] ] /\ b = [ k \in DOMAIN b |-> b[k] ] BY DEF IsMap
<1> QED BY <1>3, <1>4, <1>5

(* A map and the blocks that hold its entries.                             *)
LEMMA AgreesValues ==
  ASSUME NEW m, IsMap(m), NEW B
  PROVE  Agrees(m, B, TRUE) <=>
           \A k \in Key, v \in Val : Stores(B, k, v) <=> ValueOf(m, k) = v
<1>1. \A k \in Key, v \in Val : k \in DOMAIN m /\ m[k] = v <=> ValueOf(m, k) = v BY MapValues
<1>2. Agrees(m, B, TRUE) <=>
        \A k \in Key, v \in Val : Stores(B, k, v) <=> k \in DOMAIN m /\ m[k] = v
  BY DEF Agrees
<1> QED BY <1>1, <1>2

(* Blocks with the same entries hold the same map.                         *)
LEMMA SameAgree ==
  ASSUME NEW m, NEW B, NEW C, SameEntries(B, C), Agrees(m, B, TRUE)
  PROVE  Agrees(m, C, TRUE)
BY DEF SameEntries, Agrees

(* The map without entries.                                                *)
LEMMA NothingMap == IsMap(Nothing) /\ \A k : ValueOf(Nothing, k) = None
BY DEF IsMap, Nothing, ValueOf

(* What a call makes of a value, by what kind of call it is.               *)
LEMMA ValueAfterCases ==
  ASSUME NEW m, NEW r \in Request \cup {NoRequest}, NEW k
  PROVE  /\ r.op \in {"get", "range", "none"} => ValueAfter(m, r, k) = ValueOf(m, k)
         /\ r.op = "clear" => ValueAfter(m, r, k) = None
         /\ r.op = "upsert" =>
              ValueAfter(m, r, k) = IF k = r.key THEN r.val ELSE ValueOf(m, k)
         /\ r.op = "update" =>
              ValueAfter(m, r, k) = IF k = r.key /\ ValueOf(m, k) # None THEN r.val
                                    ELSE ValueOf(m, k)
         /\ r.op \in {"delete", "delete_safe"} =>
              ValueAfter(m, r, k) = IF k = r.key THEN None ELSE ValueOf(m, k)
         /\ r.op \in {"upsert", "update"} => r.val \in Val /\ r.key \in Key
         /\ r.op \in ByKey => r.key \in Key
         /\ r.op \in {"get", "range", "none", "clear", "upsert", "update", "delete", "delete_safe"}
BY DEF ValueAfter, ValueOf, Request, NoRequest, ByKey

(* After a call there is a map again.                                      *)
LEMMA AfterMap ==
  ASSUME NEW m, IsMap(m), NEW r \in Request \cup {NoRequest}
  PROVE  /\ IsMap(After(m, r))
         /\ \A k \in Key : ValueOf(After(m, r), k) = ValueAfter(m, r, k)
<1> DEFINE D == { x \in Key : ValueAfter(m, r, x) # None }
<1>1. ASSUME NEW k \in Key PROVE ValueAfter(m, r, k) \in Val \cup {None}
  <2>1. ValueOf(m, k) \in Val \cup {None} BY MapValues
  <2> QED BY <2>1, ValueAfterCases
<1>2. \A k \in D : ValueAfter(m, r, k) \in Val BY <1>1
<1>3. DOMAIN After(m, r) = D /\ \A k \in D : After(m, r)[k] = ValueAfter(m, r, k) BY DEF After
<1>4. After(m, r) \in [ D -> Val ] BY <1>2 DEF After
<1>5. IsMap(After(m, r)) BY <1>3, <1>4 DEF IsMap
<1>6. ASSUME NEW k \in Key PROVE ValueOf(After(m, r), k) = ValueAfter(m, r, k)
  BY <1>3 DEF ValueOf
<1> QED BY <1>5, <1>6

(* A call that only reads leaves the map as it is.                         *)
LEMMA AfterReading ==
  ASSUME NEW m, IsMap(m), NEW r \in Request, r.op \in {"get", "range"}
  PROVE  After(m, r) = m
<1>1. \A k \in Key : ValueOf(After(m, r), k) = ValueOf(m, k) BY AfterMap, ValueAfterCases
<1>2. IsMap(After(m, r)) BY AfterMap
<1> QED BY <1>1, <1>2, MapsEqual

(* The leaf that may have a key has the map's value under it.              *)
LEMMA LeafValue ==
  ASSUME NEW B, NEW s, NEW root, Tree(B, s, root), NEW b \in DOMAIN B, IsLeaf(B[b]),
         NEW k \in Key, InRange(s, b, k), NEW m, IsMap(m), Agrees(m, B, TRUE)
  PROVE  /\ Get(B[b], k) = ValueOf(m, k)
         /\ HasKey(B[b], k) <=> ValueOf(m, k) # None
<1>1. B[b] \in WellShaped /\ Ordered(B[b].keys) BY TreeNode
<1>2. /\ Get(B[b], k) = None <=> ~HasKey(B[b], k)
      /\ Get(B[b], k) \in Val \cup {None}
      /\ \A v \in Val : Has(B[b], k, v) <=> Get(B[b], k) = v
  BY <1>1, GetHas
<1>3. AtLeast(s.lo[b], k) /\ Below(k, s.hi[b]) BY DEF InRange
<1>4. \A v \in Val : Stores(B, k, v) <=> Has(B[b], k, v) BY <1>3, OnlyLeaf
<1>5. \A v \in Val : Stores(B, k, v) <=> ValueOf(m, k) = v BY AgreesValues
<1>6. ValueOf(m, k) \in Val \cup {None} BY MapValues
<1>7. \A v \in Val : Get(B[b], k) = v <=> ValueOf(m, k) = v BY <1>2, <1>4, <1>5
<1> HIDE DEF Get
<1>8. Get(B[b], k) = ValueOf(m, k) BY <1>2, <1>6, <1>7
<1> QED BY <1>2, <1>8

-----------------------------------------------------------------------------
(* What every step has in common.                                          *)

Keeps == Good /\ Kept /\ HistoryNext

(* The blocks of an intact directory are finitely many.                    *)
LEMMA FewBlocks == ASSUME Good PROVE IsFiniteSet(DOMAIN blocks)
<1>1. ToSet(saved.free_blocks) \cup DOMAIN blocks \cup {ROOT_ID} = 1..(saved.next_block_id - 1)
  BY DEF Good, Sound, Accounted
<1>2. saved.next_block_id \in Int
  <2>1. saved \in FileMetadata BY Running DEF Good, StorageTypeOK, StorageTypeIn
  <2> QED BY <2>1 DEF FileMetadata, Allotted
<1>3. IsFiniteSet(1..(saved.next_block_id - 1))
  <2> DEFINE n == saved.next_block_id - 1
  <2>1. n \in Int /\ 1 \in Int BY <1>2
  <2> HIDE DEF n
  <2> QED BY <2>1, FS_Interval DEF n
<1>4. DOMAIN blocks \in SUBSET (1..(saved.next_block_id - 1)) BY <1>1
<1> QED BY <1>3, <1>4, FS_Subset

(* A handler within a call: the map it started from is remembered.         *)
LEMMA Remembered ==
  ASSUME Keeps, call.pc \notin {"idle", "return"}
  PROVE  before' = before
BY DEF Keeps, HistoryNext, Begins, Returns

(* What a handler finds.                                                   *)
LEMMA HandlerFinds ==
  ASSUME Keeps, todo = <<>>, call.pc \notin Outside
  PROVE  /\ Settled = blocks /\ IsMap(before) /\ call.req \in Request
         /\ call \in Calls /\ Asking(call)
         /\ Contents(call, before, blocks, tree.root_exists)
         /\ Answers(call, before, blocks)
<1>1. Settled = blocks BY PlanNone DEF Settled
<1>2. Kept BY DEF Keeps
<1>3. IsMap(before) BY <1>2 DEF Kept, Contents
<1>4. call \in Calls /\ call.req \in Request \cup {NoRequest} BY Running DEF Keeps, Good
<1>5. call.req # NoRequest BY <1>2 DEF Kept, Asking
<1> QED BY <1>1, <1>2, <1>3, <1>4, <1>5 DEF Kept

(* What it has to leave.                                                   *)
LEMMA HandlerKeeps ==
  ASSUME Keeps, NoStorageCall, call.pc \notin {"idle", "return"},
         Asking(call'), call'.pc # "opening",
         Contents(call', before, Settle(blocks, todo'), tree'.root_exists),
         Answers(call', before, Settle(blocks, todo'))
  PROVE  Kept'
<1>1. before' = before BY Remembered
<1>2. Settled' = Settle(blocks, todo') BY DEF Settled, NoStorageCall
<1> QED BY <1>1, <1>2 DEF Kept, Unopened

(* It leaves a call that has its answer.                                   *)
LEMMA LeavesAnswer ==
  ASSUME Keeps, NoStorageCall, call.pc \notin Outside \cup {"return"},
         NEW a, call' = Answer(a), RightAnswer(call.req, a, before),
         Agrees(After(before, call.req), Settle(blocks, todo'), tree'.root_exists)
  PROVE  Kept'
<1>1. call \in Calls BY Running DEF Keeps, Good
<1>2. call'.pc = "return" /\ call'.req = call.req /\ call'.answer = a
  BY <1>1 DEF Answer, Calls, CallsIn
<1>3. Asking(call) /\ IsMap(before) BY DEF Keeps, Kept, Contents
<1>4. Asking(call') BY <1>2, <1>3 DEF Asking, Outside, Clears, Deletes
<1>5. Contents(call', before, Settle(blocks, todo'), tree'.root_exists)
  BY <1>2, <1>3 DEF Contents, Searches
<1>6. Answers(call', before, Settle(blocks, todo'))
  BY <1>2 DEF Answers
<1>7. call.pc \notin {"idle", "return"} BY DEF Outside
<1> QED BY <1>2, <1>4, <1>5, <1>6, <1>7, HandlerKeeps

(* Or one that is on its way up, with the answer it had or has just got.   *)
LEMMA LeavesOnTheWay ==
  ASSUME Keeps, NoStorageCall, call.pc \notin Outside \cup {"return"},
         call'.req = call.req, call'.pc \in Results \ {"return"},
         call'.pc = "insert_up" => call.req.op \in {"upsert", "update"},
         call'.pc \in Deletes => call.req.op \in {"delete", "delete_safe"},
         call'.pc = "delete_up" /\ call'.outcome = "NoChange" => call'.answer = None,
         call'.answer = ValueOf(before, call.req.key),
         Agrees(After(before, call.req), Settle(blocks, todo'), tree'.root_exists)
  PROVE  Kept'
<1>1. call'.pc \in {"delete_up", "reload", "root_underflow", "insert_up"} BY DEF Results, Deletes
<1>2. Asking(call) /\ IsMap(before) BY DEF Keeps, Kept, Contents
<1>3. Asking(call') BY <1>1, <1>2 DEF Asking, Outside, Clears
<1>4. Contents(call', before, Settle(blocks, todo'), tree'.root_exists)
  BY <1>1, <1>2 DEF Contents, Searches
<1>5. RightAnswer(call'.req, call'.answer, before)
  <2>1. call.req.op \in {"upsert", "update", "delete", "delete_safe"} BY <1>1 DEF Deletes
  <2> QED BY <2>1 DEF RightAnswer
<1>6. Answers(call', before, Settle(blocks, todo'))
  BY <1>1, <1>5 DEF Answers
<1>7. call.pc \notin {"idle", "return"} /\ call'.pc # "opening" BY <1>1 DEF Outside
<1> QED BY <1>3, <1>4, <1>6, <1>7, HandlerKeeps

-----------------------------------------------------------------------------
(* Calls begin and end.                                                    *)

(* A storage call changes nothing when the plan is taken as carried out.   *)
LEMMA StorageCallSettled ==
  ASSUME IInv, Ready, StorageCall
  PROVE  Settled' = Settled /\ WriteHeader(Head(todo))
<1> DEFINE c == todo[1]
<1>1. todo # <<>> /\ todo' = Tail(todo) /\ Perform(Head(todo)) BY DEF StorageCall
<1>2. todo \in Seq(StorageCalls) BY Running
<1>3. Doable(blocks, FreshBlock, todo) BY DEF Ready
<1>4. /\ Settle(Effect(blocks, c), Tail(todo)) = Settle(blocks, todo)
      /\ Head(todo) = c /\ 1 \in DOMAIN todo
  <2>1. Len(todo) <= 3 BY <1>3 DEF Doable
  <2> QED BY <1>1, <1>2, <2>1, SettleStep
<1>5. Done(c) /\ WriteHeader(c) BY <1>1, <1>4 DEF Perform
<1>6. c \in StorageCalls
  <2>1. 1 \in 1..Len(todo) BY <1>2, <1>4, LenProperties
  <2> QED BY <1>2, <2>1, ElementOfSeq
<1>7. c.do = "allocate" => c.id = FreshBlock /\ c.node = NewLeaf BY <1>3, <1>4 DEF Doable
<1>8. blocks' = Effect(blocks, c) BY <1>5, <1>6, <1>7, DoneEffect, StorageCallParts
<1> QED BY <1>1, <1>4, <1>5, <1>8 DEF Settled

(* So it keeps everything.                                                 *)
LEMMA StorageCallKeeps == ASSUME Keeps, StorageCall PROVE Kept'
<1>1. Settled' = Settled /\ WriteHeader(Head(todo))
  BY StorageCallSettled DEF Keeps, Good, Sound
<1>2. call' = call /\ tree' = tree BY DEF StorageCall
<1>3. before' = before BY <1>2 DEF Keeps, HistoryNext, Begins, Returns
<1>4. Unopened'
  <2>1. header' \in {header, tree} BY <1>1 DEF WriteHeader, SaveHeader
  <2> QED BY <1>2, <2>1 DEF Unopened, Keeps, Kept
<1> QED BY <1>1, <1>2, <1>3, <1>4 DEF Keeps, Kept

(* Between calls there is little to keep.                                  *)
LEMMA OutsideKept ==
  ASSUME call'.pc \in {"closed", "idle"}, call'.req = NoRequest
  PROVE  Kept'
BY DEF Kept, Asking, Contents, Answers, Unopened, Outside, Searches, Clears, Deletes, Results

(* A handle is made.                                                       *)
LEMMA OpenKeeps == ASSUME Keeps, Open PROVE Kept'
<1>1. CASE ROOT_ID \in DOMAIN blocks
  <2>1. call'.pc = "idle" /\ call'.req = NoRequest BY <1>1 DEF Open, Blank
  <2> QED BY <2>1, OutsideKept
<1>2. CASE ROOT_ID \notin DOMAIN blocks
  <2>1. /\ call'.pc = "opening" /\ call'.req = NoRequest /\ tree' = EmptyTree
        /\ header' = header /\ call.pc = "closed"
    BY <1>2 DEF Open, Blank
  <2>2. ~header.root_exists
    <3>1. todo = <<>> BY <2>1 DEF Keeps, Good, IInv, InvIn, NothingPending
    <3>2. Settled = blocks BY <3>1, PlanNone DEF Settled
    <3>3. PICK s, U : Place(call, header.root_exists, blocks, s, U)
      BY <2>1, <3>2 DEF Keeps, Good, Sound, InPlace, Exists
    <3>4. header.root_exists => WholeTree(blocks, s)
      BY <2>1, <3>3 DEF Place, Resting, AtRest
    <3> QED BY <1>2, <3>4 DEF WholeTree, Tree
  <2>3. Unopened' BY <2>1, <2>2 DEF Unopened, EmptyTree
  <2> QED BY <2>1, <2>3
         DEF Kept, Asking, Contents, Answers, Outside, Searches, Clears, Deletes, Results
<1> QED BY <1>1, <1>2

(* The handle is ready.                                                    *)
LEMMA OpenedKeeps == ASSUME Opened PROVE Kept'
BY OutsideKept DEF Opened, Blank

(* A call is over.                                                         *)
LEMMA ReturnKeeps == ASSUME Return PROVE Kept'
BY OutsideKept DEF Return, Blank

(* The handle is dropped.                                                  *)
LEMMA CloseKeeps == ASSUME Close PROVE Kept'
BY OutsideKept DEF Close, Forget, Closed, Blank

(* What a client sees between calls is the map that the blocks hold.       *)
LEMMA SeenAtRest ==
  ASSUME Good, todo = <<>>, call.pc \in Resting, NEW e \in BOOLEAN, e = Exists
  PROVE  /\ IsMap(Holds(e)) /\ Agrees(Holds(e), blocks, e)
         /\ \A m : IsMap(m) /\ Agrees(m, blocks, e) => Holds(e) = m
<1>1. CASE e
  <2>1. Settled = blocks BY PlanNone DEF Settled
  <2>2. PICK s, U : Place(call, e, blocks, s, U) BY <2>1 DEF Good, Sound, InPlace
  <2>3. Tree(blocks, s, ROOT_ID) BY <1>1, <2>2 DEF Place, AtRest, WholeTree
  <2> QED BY <1>1, <2>3, FewBlocks, HoldsEntries
<1>2. CASE ~e
  <2>1. Holds(e) = Nothing BY <1>2 DEF Holds, Nothing
  <2> QED BY <1>2, <2>1, NothingMap DEF Agrees
<1> QED BY <1>1, <1>2

(* A call begins.                                                          *)
LEMMA InvokeKeeps == ASSUME NEW r \in Requests, Keeps, Invoke(r) PROVE Kept'
<1>1. /\ call.pc = "idle" /\ call'.pc = "start" /\ call'.req = r
      /\ call'.answer = IF r.op = "range" THEN <<>> ELSE None
      /\ tree' = tree /\ todo' = todo /\ blocks' = blocks
  BY DEF Invoke, NoStorageCall, Blank
<1>2. todo = <<>> BY <1>1 DEF Keeps, Good, IInv, InvIn, NothingPending
<1>3. Settled' = blocks BY <1>1, <1>2, PlanNone DEF Settled
<1>4. tree.root_exists \in BOOLEAN BY Running DEF Keeps, Good, Metadata
<1>5. before' = Holds(tree.root_exists)
  BY <1>1 DEF Keeps, HistoryNext, Begins, Visible
<1>6. IsMap(before') /\ Agrees(before', blocks, tree.root_exists)
  BY <1>1, <1>2, <1>4, <1>5, SeenAtRest DEF Keeps, Resting, Exists
<1>7. r # NoRequest BY RequestsAssumption DEF Request, NoRequest
<1>8. Asking(call') BY <1>1, <1>7 DEF Asking, Outside, Deletes, Clears
<1>9. Contents(call', before', blocks, tree.root_exists)
  BY <1>1, <1>6 DEF Contents, Results, Deletes
<1>10. Answers(call', before', blocks) BY <1>1 DEF Answers, Results, Deletes
<1> QED BY <1>1, <1>3, <1>8, <1>9, <1>10 DEF Kept, Unopened

(* The call finds a tree.                                                  *)
LEMMA StartOnTreeKeeps == ASSUME Keeps, StartOnTree PROVE Kept'
<1>1. /\ call.pc = "start" /\ todo = <<>> /\ todo' = todo /\ tree' = tree /\ NoStorageCall
      /\ tree.root_exists
      /\ call' = [ call EXCEPT !.pc = IF call.req.op = "clear" THEN "clear" ELSE "descend",
                               !.at = ROOT_ID ]
  BY DEF StartOnTree, Runs
<1>2. /\ IsMap(before) /\ call \in Calls /\ Asking(call)
      /\ Contents(call, before, blocks, tree.root_exists) /\ Answers(call, before, blocks)
  BY <1>1, HandlerFinds DEF Outside
<1>3. /\ call'.pc = (IF call.req.op = "clear" THEN "clear" ELSE "descend")
      /\ call'.at = ROOT_ID /\ call'.req = call.req /\ call'.answer = call.answer
  BY <1>1, <1>2 DEF Calls, CallsIn
<1>4. Settle(blocks, todo') = blocks BY <1>1, PlanNone
<1>5. Asking(call') BY <1>1, <1>2, <1>3 DEF Asking, Outside, Deletes, Clears
<1>6. Contents(call', before, blocks, tree.root_exists)
  <2>1. Agrees(before, blocks, tree.root_exists) BY <1>1, <1>2 DEF Contents, Searches
  <2>2. call'.pc \notin Results BY <1>3 DEF Results, Deletes
  <2> QED BY <1>2, <2>1, <2>2 DEF Contents
<1>7. Answers(call', before, blocks)
  <2>1. ASSUME call.req.op = "range" PROVE \E s : Begun(call', blocks, s)
    <3>1. PICK s, U : Place(call, tree.root_exists, blocks, s, U)
      BY <1>1, Situation DEF Keeps
    <3>2. Tree(blocks, s, ROOT_ID) BY <1>1, <3>1 DEF Place, Resting, AtRest, WholeTree
    <3>3. ROOT_ID \in DOMAIN blocks BY <3>2 DEF Tree
    <3>4. s.lo[ROOT_ID] = {} BY <3>2, <3>3, TreeNode DEF HasParent
    <3> QED BY <1>3, <3>2, <3>3, <3>4 DEF Begun, AtLeast
  <2> QED BY <1>1, <1>2, <1>3, <2>1 DEF Answers, Results, Deletes
<1>8. call.pc \notin {"idle", "return"} /\ call'.pc # "opening" BY <1>1, <1>3
<1>9. tree'.root_exists = tree.root_exists BY <1>1
<1>10. NoStorageCall BY <1>1
<1> QED BY <1>4, <1>5, <1>6, <1>7, <1>8, <1>9, <1>10, HandlerKeeps

(* Nothing is listed of a map without entries.                             *)
LEMMA NothingListed == ASSUME NEW r, NEW P PROVE Lists(r, <<>>, Nothing, P)
<1>1. DOMAIN Nothing = {} BY DEF Nothing
<1>2. { <<k, Nothing[k]>> : k \in { x \in DOMAIN Nothing \cap P : Asked(r, x) } } = {} BY <1>1
<1>3. ToSet(<<>>) = {} BY DEF ToSet
<1> QED BY <1>2, <1>3 DEF Lists

(* The call finds no tree.                                                 *)
LEMMA StartOnEmptyTreeKeeps == ASSUME Keeps, StartOnEmptyTree PROVE Kept'
<1> DEFINE r == call.req
<1>1. /\ call.pc = "start" /\ todo = <<>> /\ NoStorageCall /\ ~tree.root_exists
      /\ call' = Answer(call.answer)
  BY DEF StartOnEmptyTree, Runs
<1>2. /\ IsMap(before) /\ r \in Request /\ call \in Calls
      /\ Contents(call, before, blocks, tree.root_exists) /\ Answers(call, before, blocks)
  BY <1>1, HandlerFinds DEF Outside
<1>3. before = Nothing BY <1>1, <1>2 DEF Contents, Searches, Agrees
<1>4. call.answer = IF r.op = "range" THEN <<>> ELSE None BY <1>1, <1>2 DEF Answers
<1>5. RightAnswer(r, call.answer, before)
  <2>1. \A k : ValueOf(before, k) = None BY <1>3, NothingMap
  <2>2. Lists(r, <<>>, before, Key) BY <1>3, NothingListed
  <2>3. <<>> \in Entries BY DEF Entries
  <2> QED BY <1>4, <2>1, <2>2, <2>3 DEF RightAnswer, ByKey
<1>6. call.pc \notin Outside \cup {"return"} BY <1>1 DEF Outside
<1> DEFINE C == Settle(blocks, todo')
           a == After(before, r)
<1>7. IsMap(a) /\ \A x \in Key : ValueOf(a, x) = ValueAfter(before, r, x) BY <1>2, AfterMap
<1> HIDE DEF a
<1>8. CASE r.op = "upsert"
  <2> DEFINE n == InsertLeaf(NewLeaf, r.key, r.val)
  <2>1. tree' = [ root_exists |-> TRUE, entry_count |-> 1 ] /\ todo' = << Save(ROOT_ID, n) >>
    BY <1>8 DEF StartOnEmptyTree
  <2>2. r.key \in Key /\ r.val \in Val BY <1>2, <1>8, ValueAfterCases
  <2>3. NewLeaf \in WellShaped /\ IsLeaf(NewLeaf) /\ Ordered(NewLeaf.keys) /\ NewLeaf.keys = <<>>
    BY NewLeafShaped DEF NewLeaf, Ordered
  <2>4. n \in WellShaped /\ IsLeaf(n) BY <2>2, <2>3, InsertLeafShaped
  <2>5. \A x, w : Has(n, x, w) <=> IF x = r.key THEN w = r.val ELSE Has(NewLeaf, x, w)
    BY <2>2, <2>3, InsertLeafHas
  <2>6. \A x, w : ~Has(NewLeaf, x, w) BY <2>3 DEF Has
  <2> HIDE DEF n
  <2>7. Put(blocks, C, ROOT_ID, n)
    <3>1. C = Effect(blocks, Save(ROOT_ID, n)) BY <2>1 DEF Settle
    <3> QED BY <3>1, EffectOfSave
  <2>8. DOMAIN blocks \subseteq {ROOT_ID}
    <3>1. PICK s, U : Place(call, tree.root_exists, blocks, s, U) BY <1>1, Situation DEF Keeps
    <3> QED BY <1>1, <3>1 DEF Place, Resting, AtRest
  <2>9. DOMAIN C = {ROOT_ID} /\ C[ROOT_ID] = n BY <2>7, <2>8 DEF Put
  <2> HIDE DEF C
  <2>10. \A x \in Key, w \in Val : Stores(C, x, w) <=> x = r.key /\ w = r.val
    BY <2>4, <2>5, <2>6, <2>9 DEF Stores
  <2>11. \A x \in Key : ValueOf(a, x) = IF x = r.key THEN r.val ELSE None
    <3>1. \A x : ValueOf(before, x) = None BY <1>3, NothingMap
    <3> QED BY <1>2, <1>7, <1>8, <3>1, ValueAfterCases
  <2>12. \A x \in Key, w \in Val : Stores(C, x, w) <=> ValueOf(a, x) = w
    <3> TAKE x \in Key, w \in Val
    <3>1. w # None BY NoneAssumption
    <3> QED BY <2>10, <2>11, <3>1
  <2>14. Agrees(a, C, TRUE) BY <1>7, <2>12, AgreesValues
  <2>13. tree'.root_exists = TRUE BY <2>1
  <2> QED BY <1>1, <1>5, <1>6, <2>13, <2>14, LeavesAnswer DEF C, a
<1>9. CASE r.op # "upsert"
  <2>1. tree' = tree /\ todo' = <<>> BY <1>1, <1>9 DEF StartOnEmptyTree
  <2>2. \A x \in Key : ValueOf(a, x) = ValueOf(Nothing, x)
    <3>1. \A x : ValueOf(before, x) = None /\ ValueOf(Nothing, x) = None BY <1>3, NothingMap
    <3> QED BY <1>2, <1>7, <1>9, <3>1, ValueAfterCases
  <2>3. a = Nothing BY <1>7, <2>2, NothingMap, MapsEqual
  <2>4. Agrees(a, C, tree'.root_exists) BY <1>1, <2>1, <2>3 DEF Agrees
  <2> QED BY <1>1, <1>5, <1>6, <2>4, LeavesAnswer DEF a
<1> QED BY <1>8, <1>9

-----------------------------------------------------------------------------
(* Searching.                                                              *)

(* What a call that goes down finds.                                       *)
LEMMA ArrivedKeeping ==
  ASSUME Keeps, Runs("descend")
  PROVE  /\ tree.root_exists /\ todo = <<>> /\ call.pc = "descend" /\ call.pc \notin Outside \cup {"return"}
         /\ call \in Calls /\ call.req \in Request /\ Asking(call)
         /\ IsMap(before) /\ Agrees(before, blocks, TRUE)
         /\ Answers(call, before, blocks)
         /\ \E s : /\ Tree(blocks, s, ROOT_ID) /\ call.at \in DOMAIN blocks
                   /\ call.req.op \in ByKey => InRange(s, call.at, call.req.key)
<1>1. /\ tree.root_exists /\ todo = <<>> /\ call.pc = "descend" /\ call \in Calls
      /\ \E s : /\ Tree(blocks, s, ROOT_ID) /\ call.at \in DOMAIN blocks
                /\ call.req.op \in ByKey => InRange(s, call.at, call.req.key)
  BY Arrived DEF Keeps
<1>2. call.pc \notin Outside \cup {"return"} BY <1>1 DEF Outside
<1>3. /\ IsMap(before) /\ call.req \in Request /\ Asking(call)
      /\ Contents(call, before, blocks, tree.root_exists) /\ Answers(call, before, blocks)
  BY <1>1, <1>2, HandlerFinds
<1>4. Agrees(before, blocks, TRUE) BY <1>1, <1>3 DEF Contents, Searches, Agrees
<1> QED BY <1>1, <1>2, <1>3, <1>4

(* A range goes down where its first key would be.                         *)
LEMMA BegunBelow ==
  ASSUME NEW s, Begun(call, blocks, s), IsInternal(blocks[call.at]), call.req \in Request,
         call.req.op = "range",
         NEW c, c.req = call.req,
         c.at = blocks[call.at].child_ids[ChildPosition(blocks[call.at])]
  PROVE  Begun(c, blocks, s)
<1> DEFINE n == blocks[call.at]
           i == ChildPosition(n)
           k == call.req.start.key
<1>1. Tree(blocks, s, ROOT_ID) /\ call.at \in DOMAIN blocks BY DEF Begun
<1>2. n \in WellShaped /\ Len(n.keys) \in Nat BY <1>1, TreeNode, Lengths
<1>3. CASE call.req.start.kind = "Unbounded"
  <2>1. i = 1 BY <1>3 DEF ChildPosition
  <2> HIDE DEF i
  <2>2. 1 \in 1..(Len(n.keys) + 1) BY <1>2
  <2>3. n.child_ids[1] \in DOMAIN blocks /\ s.lo[n.child_ids[1]] = LowOf(n, s.lo[call.at], 1)
    BY <1>1, <2>2, TreeChild
  <2>4. s.lo[n.child_ids[1]] = {} BY <1>3, <2>3 DEF Begun, LowOf
  <2>5. c.at = n.child_ids[1] BY <2>1 DEF i
  <2> QED BY <1>1, <1>3, <2>3, <2>4, <2>5 DEF Begun
<1>4. CASE call.req.start.kind # "Unbounded"
  <2>1. i = FindKeyIndex(n, k) + 1 BY <1>4 DEF ChildPosition
  <2>2. k \in Key BY <1>4 DEF Request, Bound
  <2>3. AtLeast(s.lo[call.at], k) BY <1>4 DEF Begun
  <2> HIDE DEF i, k
  <2> DEFINE d == n.child_ids[FindKeyIndex(n, k) + 1]
  <2>4. d \in DOMAIN blocks /\ AtLeast(s.lo[d], k) BY <1>1, <2>2, <2>3, ChildFor
  <2>5. c.at = d BY <2>1 DEF i
  <2> HIDE DEF d
  <2> QED BY <1>1, <1>4, <2>4, <2>5 DEF Begun, k
<1> QED BY <1>3, <1>4

(* A level down.                                                           *)
LEMMA DescendKeeps == ASSUME Keeps, Descend PROVE Kept'
<1> DEFINE n == blocks[call.at]
           i == ChildPosition(n)
<1>1. /\ Runs("descend") /\ IsInternal(n) /\ NoStorageCall /\ tree' = tree /\ todo' = todo
      /\ call' = [ call EXCEPT !.at = n.child_ids[i], !.stack = Append(@, Frame(call.at, n, i)) ]
  BY DEF Descend
<1>2. /\ tree.root_exists /\ todo = <<>> /\ call.pc = "descend" /\ call \in Calls
      /\ IsMap(before) /\ Agrees(before, blocks, TRUE) /\ call.req \in Request
      /\ Answers(call, before, blocks) /\ Asking(call)
  BY <1>1, ArrivedKeeping
<1>3. /\ call'.pc = "descend" /\ call'.at = n.child_ids[i] /\ call'.req = call.req
      /\ call'.answer = call.answer
  BY <1>1, <1>2 DEF Calls, CallsIn
<1> HIDE DEF n, i
<1>4. Settle(blocks, todo') = blocks BY <1>1, <1>2, PlanNone
<1>5. Asking(call') BY <1>2, <1>3 DEF Asking, Outside, Deletes, Clears
<1>6. Contents(call', before, blocks, tree.root_exists)
  <2>1. Agrees(before, blocks, tree.root_exists) BY <1>2 DEF Agrees
  <2>2. call'.pc \notin Results BY <1>3 DEF Results, Deletes
  <2> QED BY <1>2, <2>1, <2>2 DEF Contents
<1>7. Answers(call', before, blocks)
  <2>1. ASSUME call.req.op = "range" PROVE \E s : Begun(call', blocks, s)
    <3>1. PICK s : Begun(call, blocks, s) BY <1>2, <2>1 DEF Answers
    <3>2. Begun(call', blocks, s) BY <1>1, <1>2, <1>3, <2>1, <3>1, BegunBelow DEF n, i
    <3> QED BY <3>2
  <2>2. call'.pc \notin Results BY <1>3 DEF Results, Deletes
  <2> QED BY <1>2, <1>3, <2>1, <2>2 DEF Answers
<1>8. call.pc \notin {"idle", "return"} /\ call'.pc # "opening" BY <1>2, <1>3
<1>9. tree'.root_exists = tree.root_exists /\ NoStorageCall BY <1>1
<1> QED BY <1>4, <1>5, <1>6, <1>7, <1>8, <1>9, HandlerKeeps

(* What a leaf answers.                                                    *)
LEMMA LeafAnswers ==
  ASSUME Keeps, Runs("descend"), IsLeaf(blocks[call.at]), call.req.op \in ByKey
  PROVE  /\ call.req.key \in Key
         /\ Get(blocks[call.at], call.req.key) = ValueOf(before, call.req.key)
         /\ HasKey(blocks[call.at], call.req.key) <=> ValueOf(before, call.req.key) # None
<1>1. PICK s : /\ Tree(blocks, s, ROOT_ID) /\ call.at \in DOMAIN blocks
               /\ call.req.op \in ByKey => InRange(s, call.at, call.req.key)
  BY ArrivedKeeping
<1>2. call.req \in Request /\ IsMap(before) /\ Agrees(before, blocks, TRUE) BY ArrivedKeeping
<1>3. call.req.key \in Key BY <1>2, ValueAfterCases
<1> QED BY <1>1, <1>2, <1>3, LeafValue

(* The value, or none.                                                     *)
LEMMA GetFromLeafKeeps == ASSUME Keeps, GetFromLeaf PROVE Kept'
<1> DEFINE g == Get(blocks[call.at], call.req.key)
<1>1. /\ Runs("descend") /\ IsLeaf(blocks[call.at]) /\ call.req.op = "get"
      /\ call' = Answer(g) /\ tree' = tree /\ todo' = todo /\ NoStorageCall
  BY DEF GetFromLeaf, AtLeaf
<1>2. /\ tree.root_exists /\ todo = <<>> /\ call.pc \notin Outside \cup {"return"}
      /\ IsMap(before) /\ Agrees(before, blocks, TRUE) /\ call.req \in Request
  BY <1>1, ArrivedKeeping
<1>3. g = ValueOf(before, call.req.key) BY <1>1, LeafAnswers DEF ByKey
<1> HIDE DEF g
<1>4. RightAnswer(call.req, g, before) BY <1>1, <1>3 DEF RightAnswer
<1>5. After(before, call.req) = before BY <1>1, <1>2, AfterReading
<1>6. Agrees(After(before, call.req), Settle(blocks, todo'), tree'.root_exists)
  BY <1>1, <1>2, <1>5, PlanNone DEF Agrees
<1> QED BY <1>1, <1>2, <1>4, <1>6, LeavesAnswer

(* A key that is not there is not updated.                                 *)
LEMMA UpdateMissingKeeps == ASSUME Keeps, UpdateMissing PROVE Kept'
<1>1. /\ Runs("descend") /\ IsLeaf(blocks[call.at]) /\ call.req.op = "update"
      /\ ~HasKey(blocks[call.at], call.req.key)
      /\ call' = Answer(None) /\ tree' = tree /\ todo' = todo /\ NoStorageCall
  BY DEF UpdateMissing, AtLeaf
<1>2. /\ tree.root_exists /\ todo = <<>> /\ call.pc \notin Outside \cup {"return"}
      /\ IsMap(before) /\ Agrees(before, blocks, TRUE) /\ call.req \in Request
  BY <1>1, ArrivedKeeping
<1>3. ValueOf(before, call.req.key) = None BY <1>1, LeafAnswers DEF ByKey
<1>4. RightAnswer(call.req, None, before) BY <1>1, <1>3 DEF RightAnswer
<1>5. After(before, call.req) = before
  <2> DEFINE a == After(before, call.req)
  <2>1. IsMap(a) /\ \A x \in Key : ValueOf(a, x) = ValueAfter(before, call.req, x)
    BY <1>2, AfterMap
  <2> HIDE DEF a
  <2>2. \A x \in Key : ValueOf(a, x) = ValueOf(before, x) BY <1>1, <1>2, <1>3, <2>1, ValueAfterCases
  <2> QED BY <1>2, <2>1, <2>2, MapsEqual DEF a
<1>6. Agrees(After(before, call.req), Settle(blocks, todo'), tree'.root_exists)
  BY <1>1, <1>2, <1>5, PlanNone DEF Agrees
<1> QED BY <1>1, <1>2, <1>4, <1>6, LeavesAnswer

(* What a range lists.                                                     *)

(* The entries, one by one, and the keys that are listed.                  *)
Listing(r, e, m, P) ==
  /\ \A i \in 1..Len(e) : /\ e[i][1] \in DOMAIN m /\ e[i][1] \in P /\ Asked(r, e[i][1])
                          /\ e[i] = <<e[i][1], m[e[i][1]]>>
  /\ \A k \in DOMAIN m : k \in P /\ Asked(r, k) => \E i \in 1..Len(e) : e[i][1] = k
  /\ \A i, j \in 1..Len(e) : i < j => e[i][1] < e[j][1]

LEMMA ListsOneByOne ==
  ASSUME NEW r, NEW e \in Entries, NEW m, NEW P
  PROVE  Lists(r, e, m, P) <=> Listing(r, e, m, P)
<1> DEFINE D == { <<k, m[k]>> : k \in { x \in DOMAIN m \cap P : Asked(r, x) } }
<1>1. Len(e) \in Nat /\ DOMAIN e = 1..Len(e) BY LenProperties DEF Entries
<1>2. \A i \in 1..Len(e) : e[i] \in Key \X Val BY <1>1, ElementOfSeq DEF Entries
<1>3. ASSUME ToSet(e) = D
      PROVE  /\ \A i \in 1..Len(e) : /\ e[i][1] \in DOMAIN m /\ e[i][1] \in P
                                     /\ Asked(r, e[i][1]) /\ e[i] = <<e[i][1], m[e[i][1]]>>
             /\ \A k \in DOMAIN m : k \in P /\ Asked(r, k) => \E i \in 1..Len(e) : e[i][1] = k
  <2>1. ASSUME NEW i \in 1..Len(e)
        PROVE  /\ e[i][1] \in DOMAIN m /\ e[i][1] \in P
               /\ Asked(r, e[i][1]) /\ e[i] = <<e[i][1], m[e[i][1]]>>
    <3>1. e[i] \in D BY <1>1, <1>3, <2>1 DEF ToSet
    <3>2. PICK k \in { x \in DOMAIN m \cap P : Asked(r, x) } : e[i] = <<k, m[k]>> BY <3>1
    <3>3. e[i][1] = k BY <3>2
    <3> QED BY <3>2, <3>3
  <2>2. ASSUME NEW k \in DOMAIN m, k \in P, Asked(r, k)
        PROVE  \E i \in 1..Len(e) : e[i][1] = k
    <3>1. <<k, m[k]>> \in ToSet(e) BY <1>3, <2>2
    <3>2. PICK i \in DOMAIN e : e[i] = <<k, m[k]>> BY <3>1 DEF ToSet
    <3>3. e[i][1] = k BY <3>2
    <3> QED BY <1>1, <3>3
  <2> QED BY <2>1, <2>2
<1>4. ASSUME \A i \in 1..Len(e) : /\ e[i][1] \in DOMAIN m /\ e[i][1] \in P
                                  /\ Asked(r, e[i][1]) /\ e[i] = <<e[i][1], m[e[i][1]]>>,
             \A k \in DOMAIN m : k \in P /\ Asked(r, k) => \E i \in 1..Len(e) : e[i][1] = k
      PROVE  ToSet(e) = D
  <2>1. ASSUME NEW x \in ToSet(e) PROVE x \in D
    <3>1. PICK i \in 1..Len(e) : x = e[i] BY <1>1, <2>1 DEF ToSet
    <3>2. /\ e[i][1] \in { y \in DOMAIN m \cap P : Asked(r, y) }
          /\ x = <<e[i][1], m[e[i][1]]>>
      BY <1>4, <3>1
    <3> QED BY <3>2
  <2>2. ASSUME NEW x \in D PROVE x \in ToSet(e)
    <3>1. PICK k \in { y \in DOMAIN m \cap P : Asked(r, y) } : x = <<k, m[k]>> BY <2>2
    <3>2. PICK i \in 1..Len(e) : e[i][1] = k BY <1>4, <3>1
    <3>3. e[i] = x BY <1>4, <3>1, <3>2
    <3> QED BY <1>1, <3>3 DEF ToSet
  <2> QED BY <2>1, <2>2
<1> HIDE DEF D
<1>5. Lists(r, e, m, P) <=>
        ToSet(e) = D /\ \A i, j \in 1..Len(e) : i < j => e[i][1] < e[j][1]
  BY <1>1 DEF Lists, D
<1> QED BY <1>3, <1>4, <1>5 DEF Listing

(* Nothing is to be listed yet.                                            *)
LEMMA ListingBegins ==
  ASSUME NEW r, NEW m, NEW P, \A k \in DOMAIN m : k \in P => ~Asked(r, k)
  PROVE  Lists(r, <<>>, m, P)
<1>1. <<>> \in Entries /\ Len(<<>>) = 0 BY DEF Entries
<1>2. Listing(r, <<>>, m, P) BY <1>1 DEF Listing
<1> QED BY <1>1, <1>2, ListsOneByOne

(* First the keys in P, then those in Q, and no others are in R.           *)
LEMMA ListingGoesOn ==
  ASSUME NEW r, NEW m, IsMap(m), NEW P, NEW Q, NEW R,
         NEW a \in Entries, NEW p \in Entries, Lists(r, a, m, P), Lists(r, p, m, Q),
         \A k \in DOMAIN m, l \in DOMAIN m : k \in P /\ l \in Q => k < l,
         \A k \in DOMAIN m : Asked(r, k) => (k \in R <=> k \in P \/ k \in Q)
  PROVE  a \o p \in Entries /\ Lists(r, a \o p, m, R)
<1> DEFINE c == a \o p
<1>1. /\ c \in Entries /\ Len(c) = Len(a) + Len(p) /\ Len(a) \in Nat /\ Len(p) \in Nat
      /\ \A i \in 1..(Len(a) + Len(p)) : c[i] = IF i <= Len(a) THEN a[i] ELSE p[i - Len(a)]
  BY ConcatProperties, LenProperties DEF Entries
<1>2. Listing(r, a, m, P) /\ Listing(r, p, m, Q) BY ListsOneByOne
<1> HIDE DEF c
<1>3. \A i \in 1..Len(a) : i \in 1..Len(c) /\ c[i] = a[i] BY <1>1
<1>4. \A i \in 1..Len(p) : Len(a) + i \in 1..Len(c) /\ c[Len(a) + i] = p[i]
  <2> TAKE i \in 1..Len(p)
  <2>1. Len(a) + i \in 1..(Len(a) + Len(p)) /\ ~(Len(a) + i <= Len(a)) /\ Len(a) + i - Len(a) = i
    BY <1>1
  <2> QED BY <1>1, <2>1
<1>5. \A i \in 1..Len(c) : i \in 1..Len(a) \/ \E j \in 1..Len(p) : i = Len(a) + j
  <2> TAKE i \in 1..Len(c)
  <2>1. i \in 1..Len(a) \/ (i - Len(a) \in 1..Len(p) /\ i = Len(a) + (i - Len(a))) BY <1>1
  <2> QED BY <2>1
<1>6. ASSUME NEW i \in 1..Len(c)
      PROVE  /\ c[i][1] \in DOMAIN m /\ c[i][1] \in R /\ Asked(r, c[i][1])
             /\ c[i] = <<c[i][1], m[c[i][1]]>>
  <2>1. CASE i \in 1..Len(a) BY <1>2, <1>3, <2>1 DEF Listing
  <2>2. CASE \E j \in 1..Len(p) : i = Len(a) + j BY <1>2, <1>4, <2>2, SMTT(20) DEF Listing
  <2> QED BY <1>5, <2>1, <2>2
<1>7. ASSUME NEW k \in DOMAIN m, k \in R, Asked(r, k)
      PROVE  \E i \in 1..Len(c) : c[i][1] = k
  <2>1. CASE k \in P
    <3>1. PICK i \in 1..Len(a) : a[i][1] = k BY <1>2, <1>7, <2>1 DEF Listing
    <3> QED BY <1>3, <3>1
  <2>2. CASE k \in Q
    <3>1. PICK i \in 1..Len(p) : p[i][1] = k BY <1>2, <1>7, <2>2 DEF Listing
    <3> QED BY <1>4, <3>1
  <2> QED BY <1>7, <2>1, <2>2
<1>8. ASSUME NEW i \in 1..Len(c), NEW j \in 1..Len(c), i < j PROVE c[i][1] < c[j][1]
  <2>1. CASE i \in 1..Len(a) /\ j \in 1..Len(a) BY <1>2, <1>3, <1>8, <2>1 DEF Listing
  <2>2. CASE i \in 1..Len(a) /\ \E y \in 1..Len(p) : j = Len(a) + y
    <3>1. PICK y \in 1..Len(p) : j = Len(a) + y BY <2>2
    <3>2. a[i][1] \in DOMAIN m /\ a[i][1] \in P BY <1>2, <2>2 DEF Listing
    <3>3. p[y][1] \in DOMAIN m /\ p[y][1] \in Q BY <1>2 DEF Listing
    <3>4. c[i] = a[i] /\ c[j] = p[y] BY <1>3, <1>4, <2>2, <3>1
    <3> QED BY <3>2, <3>3, <3>4
  <2>3. CASE (\E x \in 1..Len(p) : i = Len(a) + x) /\ \E y \in 1..Len(p) : j = Len(a) + y
    <3>1. PICK x \in 1..Len(p) : i = Len(a) + x BY <2>3
    <3>2. PICK y \in 1..Len(p) : j = Len(a) + y BY <2>3
    <3>3. x < y BY <1>1, <1>8, <3>1, <3>2
    <3>4. p[x][1] < p[y][1] BY <1>2, <3>3 DEF Listing
    <3> QED BY <1>4, <3>1, <3>2, <3>4
  <2>4. CASE (\E x \in 1..Len(p) : i = Len(a) + x) /\ j \in 1..Len(a)
    <3>1. FALSE BY <1>1, <1>8, <2>4
    <3> QED BY <3>1
  <2>5. i \in 1..Len(a) \/ \E x \in 1..Len(p) : i = Len(a) + x BY <1>5
  <2>6. j \in 1..Len(a) \/ \E x \in 1..Len(p) : j = Len(a) + x BY <1>5
  <2> QED BY <2>1, <2>2, <2>3, <2>4, <2>5, <2>6
<1>9. Listing(r, c, m, R) BY <1>6, <1>7, <1>8 DEF Listing
<1>10. Lists(r, c, m, R) BY <1>1, <1>9, ListsOneByOne
<1> QED BY <1>1, <1>10 DEF c

(* The range asks for the keys from its start to its end.                  *)
LEMMA AskedBounds ==
  ASSUME call.req \in Request, call.req.op = "range"
  PROVE  /\ \A k \in Key : Asked(call.req, k) <=> ~BeforeStart(k) /\ ~PastEnd(k)
         /\ \A j \in Key, k \in Key : j < k /\ BeforeStart(k) => BeforeStart(j)
         /\ \A j \in Key, k \in Key : j < k /\ PastEnd(j) => PastEnd(k)

         /\ call.req.start.kind # "Unbounded" =>
              /\ call.req.start.key \in Key
              /\ \A k \in Key : k < call.req.start.key => BeforeStart(k)
<1> DEFINE r == call.req
<1>1. r \in [ op : {"range"}, start : Bound, end : Bound ] BY DEF Request
<1>2. r.start \in Bound /\ r.end \in Bound BY <1>1
<1>3. r.start.kind \in {"Included", "Excluded", "Unbounded"} BY <1>2 DEF Bound
<1>4. r.end.kind \in {"Included", "Excluded", "Unbounded"} BY <1>2 DEF Bound
<1>5. r.start.kind # "Unbounded" => r.start.key \in Key BY <1>2 DEF Bound
<1>6. r.end.kind # "Unbounded" => r.end.key \in Key BY <1>2 DEF Bound
<1> HIDE DEF r
<1>7. /\ call.req.start.kind = r.start.kind /\ call.req.end.kind = r.end.kind
      /\ call.req.start.key = r.start.key /\ call.req.end.key = r.end.key
  BY DEF r
<1>8. ASSUME NEW k \in Key
      PROVE  /\ BeforeStart(k) <=> \/ r.start.kind = "Included" /\ k < r.start.key
                                   \/ r.start.kind = "Excluded" /\ k <= r.start.key
             /\ PastEnd(k) <=> \/ r.end.kind = "Included" /\ k > r.end.key
                               \/ r.end.kind = "Excluded" /\ k >= r.end.key
             /\ Asked(call.req, k) <=>
                  /\ CASE r.start.kind = "Included" -> r.start.key <= k
                       [] r.start.kind = "Excluded" -> r.start.key < k
                       [] OTHER -> TRUE
                  /\ CASE r.end.kind = "Included" -> k <= r.end.key
                       [] r.end.kind = "Excluded" -> k < r.end.key
                       [] OTHER -> TRUE
  BY DEF BeforeStart, PastEnd, Asked, Map!InRange, r
<1>9. \A k \in Key : k \in Int BY KeyAssumption
<1>10. ASSUME NEW k \in Key PROVE Asked(call.req, k) <=> ~BeforeStart(k) /\ ~PastEnd(k)
  BY <1>3, <1>4, <1>5, <1>6, <1>8, <1>9
<1>11. ASSUME NEW j \in Key, NEW k \in Key, j < k
       PROVE  (BeforeStart(k) => BeforeStart(j)) /\ (PastEnd(j) => PastEnd(k))
  BY <1>3, <1>4, <1>5, <1>6, <1>8, <1>9, <1>11
<1>12. ASSUME NEW k \in Key, r.start.kind # "Unbounded", k < r.start.key PROVE BeforeStart(k)
  BY <1>3, <1>5, <1>8, <1>9, <1>12
<1> QED BY <1>5, <1>7, <1>10, <1>11, <1>12

(* Where a leaf's keys that are asked for begin and end.                   *)
FirstAsked(n) == Cardinality({ i \in DOMAIN n.keys : BeforeStart(n.keys[i]) }) + 1
LastAsked(n)  == Cardinality({ i \in DOMAIN n.keys : ~PastEnd(n.keys[i]) })

LEMMA AskedPart ==
  ASSUME call.req \in Request, call.req.op = "range", NEW n \in WellShaped, Ordered(n.keys)
  PROVE  /\ FirstAsked(n) \in Nat \ {0} /\ LastAsked(n) \in 0..Len(n.keys)
         /\ \A i \in 1..Len(n.keys) :
              FirstAsked(n) <= i /\ i <= LastAsked(n) <=> Asked(call.req, n.keys[i])
         /\ LastAsked(n) < Len(n.keys) => PastEnd(n.keys[Len(n.keys)])
<1> DEFINE S == { i \in DOMAIN n.keys : BeforeStart(n.keys[i]) }
           E == { i \in DOMAIN n.keys : ~PastEnd(n.keys[i]) }
           x == Len(n.keys)
<1>1. /\ x \in Nat /\ DOMAIN n.keys = 1..x
      /\ \A i \in 1..x : n.keys[i] \in Key
      /\ \A i, j \in 1..x : i < j => n.keys[i] < n.keys[j]
  BY NodeParts DEF Ordered
<1>2. S \in SUBSET (1..x) /\ E \in SUBSET (1..x) BY <1>1
<1> HIDE DEF x
<1>3. \A i, j \in 1..x : j \in S /\ i < j => i \in S BY <1>1, AskedBounds
<1>4. \A i, j \in 1..x : j \in E /\ i < j => i \in E BY <1>1, AskedBounds
<1>5. FirstAsked(n) = Cardinality(S) + 1 /\ LastAsked(n) = Cardinality(E)
  BY DEF FirstAsked, LastAsked
<1>6. \A i \in 1..x : (i \in S <=> BeforeStart(n.keys[i])) /\ (i \in E <=> ~PastEnd(n.keys[i]))
  BY <1>1
<1> HIDE DEF S, E
<1>7. Cardinality(S) \in 0..x /\ \A i \in 1..x : i <= Cardinality(S) <=> i \in S
  BY <1>1, <1>2, <1>3, FirstOnes
<1>8. Cardinality(E) \in 0..x /\ \A i \in 1..x : i <= Cardinality(E) <=> i \in E
  BY <1>1, <1>2, <1>4, FirstOnes
<1>9. ASSUME NEW i \in 1..x
      PROVE  FirstAsked(n) <= i /\ i <= LastAsked(n) <=> Asked(call.req, n.keys[i])
  <2>1. FirstAsked(n) <= i <=> ~(i <= Cardinality(S)) BY <1>1, <1>5, <1>7
  <2>2. FirstAsked(n) <= i <=> ~BeforeStart(n.keys[i]) BY <1>6, <1>7, <2>1
  <2>3. i <= LastAsked(n) <=> ~PastEnd(n.keys[i]) BY <1>5, <1>6, <1>8
  <2> QED BY <1>1, <2>2, <2>3, AskedBounds
<1>10. LastAsked(n) < x => PastEnd(n.keys[x])
  <2> SUFFICES ASSUME LastAsked(n) < x PROVE PastEnd(n.keys[x]) OBVIOUS
  <2>1. x \in 1..x /\ ~(x <= Cardinality(E)) BY <1>1, <1>5, <1>8
  <2> QED BY <1>6, <1>8, <2>1
<1>11. FirstAsked(n) \in Nat \ {0} /\ LastAsked(n) \in 0..x BY <1>1, <1>5, <1>7, <1>8
<1> QED BY <1>9, <1>10, <1>11 DEF x

(* What a leaf adds: all keys asked for that it may have.                  *)
AskedFrom(n) ==
  SubSeq([ i \in 1..Len(n.keys) |-> <<n.keys[i], n.values[i]>> ], FirstAsked(n), LastAsked(n))

LEMMA LeafListed ==
  ASSUME call.req \in Request, call.req.op = "range",
         NEW B, NEW s, NEW root, Tree(B, s, root), NEW b \in DOMAIN B, IsLeaf(B[b]),
         NEW m, IsMap(m), Agrees(m, B, TRUE)
  PROVE  /\ AskedFrom(B[b]) \in Entries
         /\ Lists(call.req, AskedFrom(B[b]), m, { k \in Key : InRange(s, b, k) })
<1> DEFINE n == B[b]
           f == FirstAsked(n)
           l == LastAsked(n)
           found == [ i \in 1..Len(n.keys) |-> <<n.keys[i], n.values[i]>> ]
           p == SubSeq(found, f, l)
           Q == { k \in Key : InRange(s, b, k) }
<1>1. n \in WellShaped /\ Ordered(n.keys) /\ NodeOK(B, s, b) BY TreeNode
<1>2. /\ Len(n.keys) \in Nat /\ DOMAIN n.keys = 1..Len(n.keys)
      /\ \A i \in 1..Len(n.keys) : n.keys[i] \in Key /\ n.keys[i] \in Int
      /\ n.values \in Seq(Val) /\ Len(n.values) = Len(n.keys)
  BY <1>1, NodeParts
<1>3. \A i \in 1..Len(n.keys) : n.values[i] \in Val BY <1>2, ElementOfSeq
<1>4. /\ f \in Nat \ {0} /\ l \in 0..Len(n.keys)
      /\ \A i \in 1..Len(n.keys) : f <= i /\ i <= l <=> Asked(call.req, n.keys[i])
  BY <1>1, AskedPart
<1>5. \A i \in 1..Len(n.keys) : n.keys[i] \in Q
  BY <1>1, <1>2 DEF NodeOK, LeafOK, InRange
<1>6. p \in Entries /\ p = AskedFrom(n) BY <1>1, <1>4, CollectedType DEF AskedFrom
<1>7. \A i \in 1..Len(n.keys) : found[i] = <<n.keys[i], n.values[i]>> OBVIOUS
<1>8. \A i \in 1..Len(n.keys) : n.keys[i] \in DOMAIN m /\ m[n.keys[i]] = n.values[i]
  <2> TAKE i \in 1..Len(n.keys)
  <2>1. Has(n, n.keys[i], n.values[i]) BY <1>2 DEF Has
  <2>2. Stores(B, n.keys[i], n.values[i]) BY <2>1 DEF Stores
  <2> QED BY <1>2, <1>3, <2>2 DEF Agrees
<1> HIDE DEF found, f, l
<1>9. /\ Len(p) = IF f <= l THEN l - f + 1 ELSE 0
      /\ \A i \in 1..(l - f + 1) : p[i] = found[f + i - 1]
  <2>1. ASSUME NEW i \in f..l PROVE found[i] \in Key \X Val
    <3>1. i \in 1..Len(n.keys) BY <1>2, <1>4
    <3>2. found[i] = <<n.keys[i], n.values[i]>> BY <1>7, <3>1
    <3> QED BY <1>2, <1>3, <3>1, <3>2
  <2> QED BY <1>4, <2>1, SubSeqProperties
<1> HIDE DEF n, p, Q
<1>10. \A i \in 1..Len(p) : /\ f + i - 1 \in 1..Len(n.keys) /\ f <= f + i - 1 /\ f + i - 1 <= l
                            /\ p[i] = found[f + i - 1]
  BY <1>2, <1>4, <1>9
<1>11. ASSUME NEW i \in 1..Len(p)
       PROVE  /\ p[i][1] \in DOMAIN m /\ p[i][1] \in Q /\ Asked(call.req, p[i][1])
              /\ p[i] = <<p[i][1], m[p[i][1]]>>
  <2> DEFINE j == f + i - 1
  <2>1. j \in 1..Len(n.keys) /\ f <= j /\ j <= l /\ p[i] = found[j] BY <1>10
  <2> HIDE DEF j
  <2>2. p[i] = <<n.keys[j], n.values[j]>> BY <1>7, <2>1
  <2>3. p[i][1] = n.keys[j] BY <2>2
  <2> QED BY <1>4, <1>5, <1>8, <2>1, <2>2, <2>3
<1>12. ASSUME NEW k \in DOMAIN m, k \in Q, Asked(call.req, k)
       PROVE  \E i \in 1..Len(p) : p[i][1] = k
  <2>1. k \in Key /\ m[k] \in Val BY DEF IsMap
  <2>2. Stores(B, k, m[k]) BY <2>1 DEF Agrees
  <2>3. AtLeast(s.lo[b], k) /\ Below(k, s.hi[b]) BY <1>12 DEF Q, InRange
  <2>4. Has(n, k, m[k]) BY <2>1, <2>2, <2>3, OnlyLeaf DEF n
  <2>5. PICK j \in 1..Len(n.keys) : n.keys[j] = k BY <1>2, <2>4 DEF Has
  <2>6. f <= j /\ j <= l BY <1>4, <1>12, <2>5
  <2> DEFINE i == j - f + 1
  <2>7. i \in 1..Len(p) /\ f + i - 1 = j BY <1>2, <1>4, <1>9, <2>6
  <2> HIDE DEF i
  <2>8. p[i] = found[j] BY <1>10, <2>7
  <2>9. p[i] = <<n.keys[j], n.values[j]>> BY <1>7, <2>8
  <2>10. p[i][1] = k BY <2>5, <2>9
  <2> QED BY <2>7, <2>10
<1>13. ASSUME NEW i \in 1..Len(p), NEW j \in 1..Len(p), i < j PROVE p[i][1] < p[j][1]
  <2>1. f + i - 1 < f + j - 1 BY <1>4, <1>13
  <2> DEFINE x == f + i - 1
             y == f + j - 1
  <2>2. x \in 1..Len(n.keys) /\ y \in 1..Len(n.keys) /\ p[i] = found[x] /\ p[j] = found[y] /\ x < y
    BY <1>10, <2>1
  <2> HIDE DEF x, y
  <2>3. n.keys[x] < n.keys[y] BY <1>1, <1>2, <2>2 DEF Ordered
  <2>4. p[i] = <<n.keys[x], n.values[x]>> /\ p[j] = <<n.keys[y], n.values[y]>>
    BY <1>7, <2>2
  <2> QED BY <2>3, <2>4
<1>14. Listing(call.req, p, m, Q) BY <1>11, <1>12, <1>13 DEF Listing
<1>15. Lists(call.req, p, m, Q) BY <1>6, <1>14, ListsOneByOne
<1> QED BY <1>6, <1>15 DEF n, Q

(* Wherever a range is, it has listed what it asks for below that leaf.    *)
LEMMA ScanFinds ==
  ASSUME Keeps, ScanLeaf
  PROVE  /\ tree.root_exists /\ todo = <<>> /\ call.pc \in {"descend", "scan"}
         /\ call \in Calls /\ call.req \in Request /\ call.req.op = "range"
         /\ IsMap(before) /\ Agrees(before, blocks, TRUE) /\ call.answer \in Entries
         /\ \E s : /\ Tree(blocks, s, ROOT_ID) /\ call.at \in DOMAIN blocks
                   /\ IsLeaf(blocks[call.at])
                   /\ Lists(call.req, call.answer, before, Before(s.lo[call.at]))
<1>1. CASE AtLeaf({"range"})
  <2>1. Runs("descend") /\ IsLeaf(blocks[call.at]) /\ call.req.op = "range" BY <1>1 DEF AtLeaf
  <2>2. /\ tree.root_exists /\ todo = <<>> /\ call.pc = "descend" /\ call \in Calls
        /\ call.req \in Request /\ IsMap(before) /\ Agrees(before, blocks, TRUE)
        /\ Answers(call, before, blocks)
    BY <2>1, ArrivedKeeping
  <2>3. call.answer = <<>> BY <2>1, <2>2 DEF Answers
  <2>4. PICK s : Begun(call, blocks, s) BY <2>1, <2>2 DEF Answers
  <2>5. Tree(blocks, s, ROOT_ID) /\ call.at \in DOMAIN blocks BY <2>4 DEF Begun
  <2>6. \A m \in s.lo[call.at] : m \in Int BY <2>5, TreeNode
  <2>7. ASSUME NEW k \in DOMAIN before, k \in Before(s.lo[call.at]) PROVE ~Asked(call.req, k)
    <3>1. k \in Key /\ k \in Int BY <2>7, KeyAssumption DEF Before
    <3>2. PICK m \in s.lo[call.at] : ~(m <= k) BY <2>7 DEF Before, AtLeast
    <3>3. call.req.start.kind # "Unbounded" BY <2>4, <3>2 DEF Begun
    <3>4. call.req.start.key \in Key /\ call.req.start.key \in Int
      BY <2>1, <2>2, <3>3, AskedBounds, KeyAssumption
    <3>5. m <= call.req.start.key BY <2>4, <3>2, <3>3 DEF Begun, AtLeast
    <3>6. k < call.req.start.key BY <2>6, <3>1, <3>2, <3>4, <3>5
    <3> QED BY <2>1, <2>2, <3>1, <3>3, <3>6, AskedBounds
  <2>8. Lists(call.req, <<>>, before, Before(s.lo[call.at])) BY <2>7, ListingBegins
  <2>9. <<>> \in Entries BY DEF Entries
  <2> QED BY <2>1, <2>2, <2>3, <2>5, <2>8, <2>9
<1>2. CASE Runs("scan") /\ IsLeaf(blocks[call.at])
  <2>1. call.pc = "scan" /\ todo = <<>> BY <1>2 DEF Runs
  <2>2. /\ IsMap(before) /\ call.req \in Request /\ call \in Calls /\ Asking(call)
        /\ Contents(call, before, blocks, tree.root_exists) /\ Answers(call, before, blocks)
    BY <2>1, HandlerFinds DEF Outside
  <2>3. call.req.op = "range" BY <2>1, <2>2 DEF Asking
  <2>4. PICK z, U : Place(call, tree.root_exists, blocks, z, U)
    BY <2>1, Situation DEF Keeps
  <2>5. tree.root_exists BY <2>1, <2>4 DEF Place, Resting
  <2>6. Agrees(before, blocks, TRUE) BY <2>1, <2>2, <2>5 DEF Contents, Searches, Agrees
  <2>7. call.answer \in Entries BY <2>1, Running DEF Keeps, Good, CallTypeOK, CallTypeIn
  <2>8. PICK s : Listed(call, before, blocks, s) BY <2>1, <2>2 DEF Answers
  <2> QED BY <1>2, <2>1, <2>2, <2>3, <2>5, <2>6, <2>7, <2>8 DEF Listed
<1> QED BY <1>1, <1>2 DEF ScanLeaf

(* The keys that a leaf may have follow the ones below it, and nothing     *)
(* comes between a leaf and the next.                                      *)
LEMMA LeafFollows ==
  ASSUME NEW B, NEW s, NEW root, Tree(B, s, root), NEW b \in DOMAIN B, NEW k \in Key
  PROVE  /\ \A l \in Key : k \in Before(s.lo[b]) /\ InRange(s, b, l) => k < l
         /\ Below(k, s.hi[b]) <=> k \in Before(s.lo[b]) \/ InRange(s, b, k)
         /\ s.hi[b] # {} => (k \in Before(s.hi[b]) <=> Below(k, s.hi[b]))
         /\ s.hi[b] = {} => Below(k, s.hi[b])
<1>1. /\ s.lo[b] \in Bounds /\ s.hi[b] \in Bounds /\ NodeOK(B, s, b)
      /\ \A m \in s.lo[b] \cup s.hi[b] : m \in Int
  BY TreeNode
<1>2. k \in Int /\ \A l \in Key : l \in Int BY KeyAssumption
<1>3. \A m \in s.lo[b], h \in s.hi[b] : m < h BY <1>1 DEF NodeOK, Below
<1>4. k \in Before(s.lo[b]) <=> \E m \in s.lo[b] : k < m
  BY <1>1, <1>2 DEF Before, AtLeast
<1>5. ASSUME NEW l \in Key, k \in Before(s.lo[b]), InRange(s, b, l) PROVE k < l
  <2>1. PICK m \in s.lo[b] : k < m BY <1>4, <1>5
  <2>2. m <= l BY <1>5 DEF InRange, AtLeast
  <2> QED BY <1>1, <1>2, <2>1, <2>2
<1>6. ASSUME k \in Before(s.lo[b]) PROVE Below(k, s.hi[b])
  <2>1. PICK m \in s.lo[b] : k < m BY <1>4, <1>6
  <2>2. ASSUME NEW h \in s.hi[b] PROVE k < h BY <1>1, <1>2, <1>3, <2>1
  <2> QED BY <2>2 DEF Below
<1>7. k \in Before(s.lo[b]) \/ AtLeast(s.lo[b], k) BY DEF Before
<1>8. ASSUME s.hi[b] # {} PROVE k \in Before(s.hi[b]) <=> Below(k, s.hi[b])
  <2>1. PICK h : s.hi[b] = {h} /\ h \in Int BY <1>1, <1>8 DEF Bounds
  <2> QED BY <1>2, <2>1 DEF Before, AtLeast, Below
<1>9. s.hi[b] = {} => Below(k, s.hi[b]) BY DEF Below
<1> QED BY <1>5, <1>6, <1>7, <1>8, <1>9 DEF InRange

(* A leaf more is listed.                                                  *)
LEMMA ScanLeafKeeps == ASSUME Keeps, ScanLeaf PROVE Kept'
<1> DEFINE n == blocks[call.at]
           acc == call.answer \o AskedFrom(n)
           ends == LastAsked(n) < Len(n.keys) \/ n.next_leaf = NoBlock
<1>1. /\ tree.root_exists /\ todo = <<>> /\ call.pc \in {"descend", "scan"}
      /\ call \in Calls /\ call.req \in Request /\ call.req.op = "range"
      /\ IsMap(before) /\ Agrees(before, blocks, TRUE) /\ call.answer \in Entries
  BY ScanFinds
<1>2. PICK s : /\ Tree(blocks, s, ROOT_ID) /\ call.at \in DOMAIN blocks
               /\ IsLeaf(blocks[call.at])
               /\ Lists(call.req, call.answer, before, Before(s.lo[call.at]))
  BY ScanFinds
<1>3. /\ tree' = tree /\ todo' = todo /\ NoStorageCall
      /\ call' = IF ends THEN Answer(acc)
                 ELSE [ call EXCEPT !.pc = "scan", !.at = n.next_leaf,
                                    !.stack = <<>>, !.answer = acc ]
  BY DEF ScanLeaf, AskedFrom, FirstAsked, LastAsked
<1> DEFINE lo == s.lo[call.at]
           hi == s.hi[call.at]
           Q == { k \in Key : InRange(s, call.at, k) }
<1>4. AskedFrom(n) \in Entries /\ Lists(call.req, AskedFrom(n), before, Q)
  BY <1>1, <1>2, LeafListed
<1>5. \A k \in DOMAIN before : k \in Key BY <1>1 DEF IsMap
<1>6. \A k \in Key, l \in Key : k \in Before(lo) /\ l \in Q => k < l BY <1>2, LeafFollows
<1>7. \A k \in Key : k \in Before(lo) \/ k \in Q <=> Below(k, hi) BY <1>2, LeafFollows
<1>8. n \in WellShaped /\ Ordered(n.keys) /\ NodeOK(blocks, s, call.at) /\ s.ht[call.at] = 0
  BY <1>2, TreeNode
<1>9. /\ Len(n.keys) \in Nat /\ DOMAIN n.keys = 1..Len(n.keys)
      /\ \A i \in 1..Len(n.keys) : n.keys[i] \in Key
  BY <1>8, NodeParts
<1> HIDE DEF Q, acc
<1>10. ASSUME NEW R, \A k \in Key : Asked(call.req, k) => (k \in R <=> Below(k, hi))
       PROVE  Lists(call.req, acc, before, R)
  <2>1. \A k \in DOMAIN before : Asked(call.req, k) => (k \in R <=> k \in Before(lo) \/ k \in Q)
    BY <1>5, <1>7, <1>10
  <2>2. \A k \in DOMAIN before, l \in DOMAIN before : k \in Before(lo) /\ l \in Q => k < l
    BY <1>5, <1>6
  <2> HIDE DEF lo
  <2> QED BY <1>1, <1>2, <1>4, <2>1, <2>2, ListingGoesOn DEF acc, lo
<1>16. acc \in Entries
  <2>1. call.answer \in Seq(Key \X Val) /\ AskedFrom(n) \in Seq(Key \X Val)
    BY <1>1, <1>4 DEF Entries
  <2> QED BY <2>1 DEF acc, Entries
<1>11. Settle(blocks, todo') = blocks BY <1>1, <1>3, PlanNone
<1>12. tree'.root_exists = TRUE
  <2>1. tree.root_exists \in BOOLEAN BY Running DEF Keeps, Good, Metadata
  <2> QED BY <1>1, <1>3, <2>1
<1>13. Agrees(before, Settle(blocks, todo'), tree'.root_exists) BY <1>1, <1>11, <1>12
<1>14. CASE ends
  <2>1. ASSUME NEW k \in Key, Asked(call.req, k) PROVE Below(k, hi)
    <3>1. ~PastEnd(k) BY <1>1, <2>1, AskedBounds
    <3>2. CASE LastAsked(n) < Len(n.keys)
      <4> DEFINE z == n.keys[Len(n.keys)]
      <4>1. PastEnd(z) BY <1>1, <1>8, <3>2, AskedPart
      <4>2. LastAsked(n) \in 0..Len(n.keys) BY <1>1, <1>8, AskedPart
      <4>3. Len(n.keys) \in 1..Len(n.keys) BY <1>9, <3>2, <4>2
      <4>4. z \in Key /\ Below(z, hi) BY <1>8, <1>9, <4>3 DEF NodeOK
      <4> HIDE DEF z
      <4>5. k \in Int /\ z \in Int BY <4>4, KeyAssumption
      <4>6. ~(z < k) BY <1>1, <2>1, <3>1, <4>1, <4>4, AskedBounds
      <4>7. \A h \in hi : h \in Int BY <1>2, TreeNode
      <4> QED BY <4>4, <4>5, <4>6, <4>7 DEF Below
    <3>3. CASE n.next_leaf = NoBlock
      <4>1. NoBlock \notin DOMAIN blocks BY <1>2 DEF Tree, BlockId, NoBlock
      <4>2. hi = {} BY <1>2, <1>8, <3>3, <4>1, NextLeaf
      <4> QED BY <4>2 DEF Below
    <3> QED BY <1>14, <3>2, <3>3
  <2>2. Lists(call.req, acc, before, Key) BY <1>10, <2>1
  <2>3. RightAnswer(call.req, acc, before) BY <1>1, <1>16, <2>2 DEF RightAnswer, ByKey
  <2>4. After(before, call.req) = before BY <1>1, AfterReading
  <2>5. call' = Answer(acc) /\ NoStorageCall BY <1>3, <1>14
  <2>6. call.pc \notin Outside \cup {"return"} BY <1>1 DEF Outside
  <2> QED BY <1>13, <2>3, <2>4, <2>5, <2>6, LeavesAnswer
<1>15. CASE ~ends
  <2>1. /\ call'.pc = "scan" /\ call'.at = n.next_leaf /\ call'.req = call.req
        /\ call'.answer = acc
    BY <1>1, <1>3, <1>15 DEF Calls, CallsIn
  <2>2. n.next_leaf # NoBlock BY <1>15
  <2>3. hi # {} /\ n.next_leaf \in DOMAIN blocks /\ s.ht[n.next_leaf] = 0 /\ s.lo[n.next_leaf] = hi
    BY <1>2, <1>8, <2>2, NextLeaf
  <2>4. \A k \in Key : k \in Before(hi) <=> Below(k, hi) BY <1>2, <2>3, LeafFollows
  <2> HIDE DEF n, ends, hi
  <2>5. Lists(call.req, acc, before, Before(hi)) BY <1>10, <2>4
  <2>6. Listed(call', before, blocks, s) BY <1>2, <2>1, <2>3, <2>5 DEF Listed
  <2>7. Asking(call')
    <3>1. call.req # NoRequest BY <1>1 DEF NoRequest
    <3> QED BY <1>1, <2>1, <3>1 DEF Asking, Outside, Deletes, Clears
  <2>8. Contents(call', before, Settle(blocks, todo'), tree'.root_exists)
    BY <1>1, <1>13, <2>1 DEF Contents, Results, Deletes
  <2>9. Answers(call', before, Settle(blocks, todo'))
    BY <1>11, <2>1, <2>6 DEF Answers, Results, Deletes
  <2>10. call.pc \notin {"idle", "return"} /\ call'.pc # "opening" BY <1>1, <2>1
  <2> QED BY <1>3, <2>7, <2>8, <2>9, <2>10, HandlerKeeps
<1> QED BY <1>14, <1>15

-----------------------------------------------------------------------------
(* Inserting.                                                              *)

(* C is B with the value w under the key k in the leaf b, or none, which   *)
(* w = None says.                                                          *)
LeafWith(B, C, b, k, w) ==
  /\ DOMAIN C = DOMAIN B /\ \A c \in DOMAIN B \ {b} : C[c] = B[c]
  /\ IsLeaf(B[b]) /\ IsLeaf(C[b])
  /\ \A x \in Key, v \in Val : Has(C[b], x, v) <=> IF x = k THEN v = w ELSE Has(B[b], x, v)

(* The map a is m with w under k, or nothing.                              *)
MapWith(m, a, k, w) ==
  /\ IsMap(m) /\ IsMap(a)
  /\ \A x \in Key : ValueOf(a, x) = IF x = k THEN w ELSE ValueOf(m, x)

(* The leaf a key belongs to has another value under it, or none, and is   *)
(* otherwise the same: so is the map.                                      *)
LEMMA LeafChanged ==
  ASSUME NEW m, NEW B, NEW s, NEW root, Tree(B, s, root), Agrees(m, B, TRUE),
         NEW b \in DOMAIN B, NEW k \in Key, InRange(s, b, k), NEW w,
         NEW C, LeafWith(B, C, b, k, w), NEW a, MapWith(m, a, k, w)
  PROVE  Agrees(a, C, TRUE)
<1> USE DEF LeafWith, MapWith
<1>1. AtLeast(s.lo[b], k) /\ Below(k, s.hi[b]) BY DEF InRange
<1>2. ASSUME NEW x \in Key, NEW v \in Val PROVE Stores(C, x, v) <=> ValueOf(a, x) = v
  <2>1. CASE x = k
    <3>1. \A c \in DOMAIN B : c # b /\ IsLeaf(B[c]) => ~Has(B[c], k, v) BY <1>1, NoOtherLeaf
    <3>2. Stores(C, k, v) <=> Has(C[b], k, v) BY <3>1 DEF Stores
    <3>3. Has(C[b], k, v) <=> v = w OBVIOUS
    <3>4. ValueOf(a, k) = w OBVIOUS
    <3> QED BY <2>1, <3>2, <3>3, <3>4
  <2>2. CASE x # k
    <3>1. Has(C[b], x, v) <=> Has(B[b], x, v) BY <2>2
    <3>2. Stores(C, x, v) <=> Stores(B, x, v) BY <3>1 DEF Stores
    <3>3. Stores(B, x, v) <=> ValueOf(m, x) = v BY AgreesValues
    <3>4. ValueOf(a, x) = ValueOf(m, x) BY <2>2
    <3> QED BY <3>2, <3>3, <3>4
  <2> QED BY <2>1, <2>2
<1> QED BY <1>2, AgreesValues

(* Saving a changed node, whole or in two halves, comes to the same        *)
(* entries as putting it there.                                            *)
LEMMA SaveOrSplitEntries ==
  ASSUME FreshBlock \in Allotted, FreshBlock \notin DOMAIN blocks, NEW id \in DOMAIN blocks,
         NEW n \in WellShaped, IsLeaf(n) => Ordered(n.keys),
         NEW t, t = SaveOrSplit(id, n).writes, NEW U, Put(blocks, U, id, n)
  PROVE  SameEntries(U, Settle(blocks, t))
<1> DEFINE C == Settle(blocks, t)
           l == Split(n).left
           r == Split(n).right
           k == Split(n).key
           f == FreshBlock
<1>1. Len(n.keys) \in Nat /\ MaxKeys \in Nat /\ MaxKeys >= 2 BY Lengths, Capacity
<1>2. DOMAIN U = DOMAIN blocks /\ U[id] = n /\ \A b \in DOMAIN blocks \ {id} : U[b] = blocks[b]
  BY DEF Put
<1>3. CASE Len(n.keys) <= MaxKeys
  <2>1. t = <<Save(id, n)>> BY <1>3 DEF SaveOrSplit
  <2>2. C = Effect(blocks, Save(id, n)) BY <2>1 DEF Settle
  <2>3. Put(blocks, C, id, n) BY <2>2, EffectOfSave
  <2> HIDE DEF C
  <2>4. DOMAIN C = DOMAIN U /\ \A b \in DOMAIN U : C[b] = U[b] BY <1>2, <2>3 DEF Put
  <2> QED BY <2>4 DEF SameEntries, Stores, C
<1>4. CASE ~(Len(n.keys) <= MaxKeys)
  <2>1. t = SplitWrites(id, LinkToRight(l), r) BY <1>4 DEF SaveOrSplit
  <2>2. Len(n.keys) > 2 BY <1>1, <1>4
  <2>3. l \in WellShaped /\ r \in WellShaped /\ l.node_type = n.node_type /\ r.node_type = n.node_type
    BY <2>2, SplitShaped
  <2> DEFINE l2 == LinkToRight(l)
  <2>4. PutTwo(blocks, C, f, id, l2, r) BY <2>1, PlanSplit
  <2>5. /\ DOMAIN C = DOMAIN U \cup {f} /\ C[f] = r /\ C[id] = l2
        /\ \A b \in DOMAIN U \ {id} : C[b] = U[b]
    BY <1>2, <2>4 DEF PutTwo
  <2>6. CASE IsLeaf(n)
    <3>1. Halves(n, l, r, k) BY <2>2, <2>6, SplitHalves
    <3>2. l2 = [ l EXCEPT !.next_leaf = f ] BY <2>3, <2>6 DEF LinkToRight, IsLeaf
    <3>3. f \in OptionBlockId BY DEF Allotted, OptionBlockId
    <3> HIDE DEF l, r, k, f, C, l2
    <3>4. Halves(n, l2, r, k) BY <2>6, <3>1, <3>2, <3>3, HalvesLinked
    <3>5. id \in DOMAIN U /\ f \notin DOMAIN U /\ U[id] \in WellShaped BY <1>2 DEF f
    <3>6. Halves(U[id], C[id], C[f], k) BY <1>2, <2>5, <3>4
    <3>7. SameEntries(U, C) BY <2>5, <3>5, <3>6, CutEntries
    <3> QED BY <3>7 DEF C
  <2>7. CASE ~IsLeaf(n)
    <3>1. ~IsLeaf(r) /\ ~IsLeaf(l) /\ l2 = l BY <2>3, <2>7 DEF IsLeaf, LinkToRight
    <3> HIDE DEF l, r, f, C, l2
    <3>2. DOMAIN U \ {id} = DOMAIN C \ {id, f} BY <2>5, <1>2 DEF f
    <3>3. \A b \in {id, f} : ~IsLeaf(C[b]) BY <2>5, <3>1
    <3>4. ~IsLeaf(U[id]) BY <1>2, <2>7
    <3>5. {id} \subseteq DOMAIN U /\ {id, f} \subseteq DOMAIN C BY <1>2, <2>5
    <3>6. SameEntries(U, C) BY <2>5, <3>2, <3>3, <3>4, <3>5, SameElsewhere
    <3> QED BY <3>6 DEF C
  <2> QED BY <2>6, <2>7
<1> QED BY <1>3, <1>4

(* The value is in its leaf, or in one of its halves.                      *)
LEMMA InsertIntoLeafKeeps == ASSUME Keeps, InsertIntoLeaf PROVE Kept'
<1> DEFINE x == call.at
           k == call.req.key
           v == call.req.val
           n == InsertLeaf(blocks[x], k, v)
           t == SaveOrSplit(x, n).writes
           U == [ b \in DOMAIN blocks |-> IF b = x THEN n ELSE blocks[b] ]
           a == After(before, call.req)
<1>1. /\ Runs("descend") /\ IsLeaf(blocks[x]) /\ call.req.op \in {"upsert", "update"}
      /\ call.req.op = "update" => HasKey(blocks[x], k)
      /\ NoStorageCall /\ tree' = tree /\ AfterInsert(SaveOrSplit(x, n), call.stack)
  BY DEF InsertIntoLeaf, AtLeaf
<1>2. /\ tree.root_exists /\ todo = <<>> /\ call.pc = "descend"
      /\ call.pc \notin Outside \cup {"return"}
      /\ call \in Calls /\ call.req \in Request
      /\ IsMap(before) /\ Agrees(before, blocks, TRUE)
  BY <1>1, ArrivedKeeping
<1>3. PICK s : /\ Tree(blocks, s, ROOT_ID) /\ x \in DOMAIN blocks
               /\ call.req.op \in ByKey => InRange(s, x, k)
  BY <1>1, ArrivedKeeping
<1>4. k \in Key /\ v \in Val /\ InRange(s, x, k) BY <1>1, <1>2, <1>3, ValueAfterCases DEF ByKey
<1>5. blocks[x] \in WellShaped /\ Ordered(blocks[x].keys) BY <1>3, TreeNode
<1>6. n \in WellShaped /\ IsLeaf(n) BY <1>1, <1>4, <1>5, InsertLeafShaped
<1>7. Ordered(n.keys) BY <1>1, <1>4, <1>5, InsertLeafOrdered
<1>8. \A y, w : Has(n, y, w) <=> IF y = k THEN w = v ELSE Has(blocks[x], y, w)
  BY <1>1, <1>4, <1>5, InsertLeafHas
<1>9. Get(blocks[x], k) = ValueOf(before, k) /\ (HasKey(blocks[x], k) <=> ValueOf(before, k) # None)
  BY <1>1, LeafAnswers DEF ByKey
<1>10. IsMap(a) /\ \A y \in Key : ValueOf(a, y) = ValueAfter(before, call.req, y)
  BY <1>2, AfterMap
<1>11. /\ todo' = t /\ call'.pc = "insert_up" /\ call'.req = call.req
       /\ call'.answer = Get(blocks[x], k)
  BY <1>1, <1>2 DEF AfterInsert, Calls, CallsIn
<1> HIDE DEF n, a
<1>12. \A y \in Key : ValueOf(a, y) = IF y = k THEN v ELSE ValueOf(before, y)
  BY <1>1, <1>2, <1>9, <1>10, ValueAfterCases
<1>13. Put(blocks, U, x, n) BY <1>3 DEF Put
<1>14. DOMAIN U = DOMAIN blocks /\ U[x] = n /\ \A b \in DOMAIN blocks \ {x} : U[b] = blocks[b]
  BY <1>3
<1> HIDE DEF U
<1>15. Agrees(a, U, TRUE)
  <2>1. \A y \in Key, w \in Val : Has(U[x], y, w) <=> IF y = k THEN w = v ELSE Has(blocks[x], y, w)
    BY <1>8, <1>14
  <2>2. LeafWith(blocks, U, x, k, v) BY <1>1, <1>6, <1>14, <2>1 DEF LeafWith
  <2>3. MapWith(before, a, k, v) BY <1>2, <1>10, <1>12 DEF MapWith
  <2> QED BY <1>2, <1>3, <1>4, <2>2, <2>3, LeafChanged
<1>16. FreshBlock \in Allotted /\ FreshBlock \notin DOMAIN blocks
  BY <1>2, Situation DEF Keeps
<1>17. SameEntries(U, Settle(blocks, t))
  BY <1>3, <1>6, <1>7, <1>13, <1>16, SaveOrSplitEntries
<1> HIDE DEF t
<1>18. Agrees(a, Settle(blocks, todo'), TRUE) BY <1>11, <1>15, <1>17, SameAgree
<1>19. tree'.root_exists = TRUE
  <2>1. tree.root_exists \in BOOLEAN BY Running DEF Keeps, Good, Metadata
  <2> QED BY <1>1, <1>2, <2>1
<1>20. Agrees(After(before, call.req), Settle(blocks, todo'), tree'.root_exists)
  BY <1>18, <1>19 DEF a
<1>21. call'.answer = ValueOf(before, call.req.key) BY <1>9, <1>11
<1>22. call'.pc \in Results \ {"return"} /\ call'.pc \notin Deletes BY <1>11 DEF Results, Deletes
<1> QED BY <1>1, <1>2, <1>11, <1>20, <1>21, <1>22, LeavesOnTheWay DEF Deletes

(* What a call finds that is on its way up.                                *)
LEMMA ComingBack ==
  ASSUME Keeps, todo = <<>>, call.pc \in Results \ {"return"}
  PROVE  /\ tree.root_exists = TRUE /\ call \in Calls /\ call.req \in Request /\ IsMap(before)
         /\ Agrees(After(before, call.req), blocks, TRUE)
         /\ call.pc \notin Outside \cup {"return"}
         /\ call.pc = "insert_up" => call.req.op \in {"upsert", "update"}
         /\ call.pc \in Deletes => call.req.op \in {"delete", "delete_safe"}
         /\ call.answer = ValueOf(before, call.req.key)
         /\ RightAnswer(call.req, call.answer, before)
         /\ call.pc = "delete_up" /\ call.outcome = "NoChange" => call.answer = None
<1>1. call.pc \in {"delete_up", "reload", "root_underflow", "insert_up"} BY DEF Results, Deletes
<1>2. call.pc \notin Outside \cup {"return"} BY <1>1 DEF Outside
<1>3. /\ IsMap(before) /\ call.req \in Request /\ call \in Calls /\ Asking(call)
      /\ Contents(call, before, blocks, tree.root_exists) /\ Answers(call, before, blocks)
  BY <1>2, HandlerFinds
<1>4. PICK s, U : Place(call, tree.root_exists, blocks, s, U)
  BY <1>1, Situation DEF Keeps
<1>5. tree.root_exists \in BOOLEAN BY Running DEF Keeps, Good, Metadata
<1>6. tree.root_exists = TRUE BY <1>1, <1>4, <1>5 DEF Place, Resting
<1>7. Agrees(After(before, call.req), blocks, TRUE) BY <1>1, <1>3, <1>6 DEF Contents
<1>8. RightAnswer(call.req, call.answer, before) BY <1>3 DEF Answers
<1>9. /\ call.pc = "insert_up" => call.req.op \in {"upsert", "update"}
      /\ call.pc \in Deletes => call.req.op \in {"delete", "delete_safe"}
  BY <1>3 DEF Asking
<1>10. call.req.op \in ByKey BY <1>1, <1>9 DEF ByKey, Deletes
<1>11. call.answer = ValueOf(before, call.req.key) BY <1>8, <1>10 DEF RightAnswer
<1>12. call.pc = "delete_up" /\ call.outcome = "NoChange" => call.answer = None
  BY <1>3 DEF Answers
<1> QED BY <1>2, <1>3, <1>6, <1>7, <1>8, <1>9, <1>11, <1>12

(* An inner node put in the place of another has no part in the entries.   *)
LEMMA InnerPut ==
  ASSUME NEW B, NEW C, NEW p \in DOMAIN B, ~IsLeaf(B[p]), NEW n, ~IsLeaf(n), Put(B, C, p, n)
  PROVE  SameEntries(B, C)
<1>1. DOMAIN C = DOMAIN B /\ C[p] = n /\ \A b \in DOMAIN B \ {p} : C[b] = B[b] BY DEF Put
<1>2. {p} \subseteq DOMAIN B /\ {p} \subseteq DOMAIN C /\ DOMAIN B \ {p} = DOMAIN C \ {p}
  BY <1>1
<1>3. ASSUME NEW k \in Key, NEW v \in Val
      PROVE  (\E b \in {p} : IsLeaf(B[b]) /\ Has(B[b], k, v)) <=>
             (\E b \in {p} : IsLeaf(C[b]) /\ Has(C[b], k, v))
  BY <1>1
<1> QED BY <1>1, <1>2, <1>3, SameElsewhere

(* A parent that learns of its child's new half keeps the entries.         *)
LEMMA InsertIntoParentKeeps == ASSUME Keeps, InsertIntoParent PROVE Kept'
<1> DEFINE f == Last(call.stack)
           p == f.id
           i == f.idx
           k == call.split.key
           q == call.split.id
           x == Target(call.stack)
           n == InsertInternal(f.node, k, f.node.child_ids[i], q)
           t == SaveOrSplit(p, n).writes
           V == [ b \in DOMAIN blocks |-> IF b = p THEN n ELSE blocks[b] ]
           a == After(before, call.req)
<1>1. /\ Runs("insert_up") /\ call.stack # <<>> /\ NoStorageCall /\ tree' = tree
      /\ AfterInsert(SaveOrSplit(p, n), Front(call.stack)) /\ call.pc = "insert_up" /\ todo = <<>>
  BY DEF InsertIntoParent, Runs
<1>2. /\ tree.root_exists = TRUE /\ call \in Calls /\ Agrees(a, blocks, TRUE)
      /\ call.pc \notin Outside \cup {"return"} /\ call.req.op \in {"upsert", "update"}
      /\ call.answer = ValueOf(before, call.req.key)
  BY <1>1, ComingBack DEF Results
<1>3. call.split # NoSplit
  <2>1. PICK s, U : Place(call, tree.root_exists, blocks, s, U) BY <1>1, Situation DEF Keeps
  <2>2. Inserting(call, blocks, s, U) BY <1>1, <2>1 DEF Place
  <2> QED BY <1>1, <2>2 DEF Inserting
<1>4. PICK s, U : Splitting(call, blocks, s, U) /\ call.stack \in Seq(Frames)
  BY <1>1, <1>3, SplitBelow DEF Keeps
<1>5. /\ Tree(U, s, ROOT_ID) /\ OnPath(U, s, call.stack) /\ Fresh(U, call.stack)
      /\ q \in Allotted /\ k \in Key /\ DOMAIN blocks = DOMAIN U \cup {q}
      /\ \A b \in DOMAIN U \ {x} : blocks[b] = U[b]
  BY <1>4 DEF Splitting, CutAt
<1>6. /\ p \in DOMAIN U /\ U[p] = f.node /\ IsInternal(U[p]) /\ p # x
      /\ i \in 1..(Len(U[p].keys) + 1) /\ x = U[p].child_ids[i]
  BY <1>1, <1>4, <1>5, PathTarget
<1>7. U[p] \in WellShaped BY <1>5, <1>6, TreeNode
<1>8. x \in Allotted BY <1>5, <1>6, TreeChild
<1>9. n = InsertInternal(U[p], k, x, q) BY <1>6
<1>10. p \in DOMAIN blocks /\ blocks[p] = U[p] /\ ~IsLeaf(blocks[p])
  BY <1>5, <1>6 DEF IsInternal, IsLeaf
<1> HIDE DEF f, x, p, i, k, q, n, a
<1>11. n \in WellShaped BY <1>5, <1>6, <1>7, <1>8, <1>9, InsertInternalShaped
<1>12. ~IsLeaf(n)
  <2> DEFINE m == U[p]
  <2>1. m.node_type = "Internal" BY <1>6 DEF IsInternal
  <2>2. m \in Node BY <1>7 DEF WellShaped
  <2>3. n = InsertInternal(m, k, x, q) BY <1>9
  <2> HIDE DEF m
  <2>4. n.node_type = "Internal" BY <2>1, <2>2, <2>3 DEF InsertInternal, Node
  <2> QED BY <2>4 DEF IsLeaf
<1>13. Put(blocks, V, p, n) BY <1>10 DEF Put
<1> HIDE DEF V
<1>14. SameEntries(blocks, V) BY <1>10, <1>12, <1>13, InnerPut
<1>15. FreshBlock \in Allotted /\ FreshBlock \notin DOMAIN blocks
  BY <1>1, Situation DEF Keeps
<1>16. SameEntries(V, Settle(blocks, t))
  BY <1>10, <1>11, <1>12, <1>13, <1>15, SaveOrSplitEntries
<1>17. todo' = t /\ call'.pc = "insert_up" /\ call'.req = call.req /\ call'.answer = call.answer
  BY <1>1, <1>2 DEF AfterInsert, Calls, CallsIn
<1> HIDE DEF t
<1>18. Agrees(a, V, TRUE) BY <1>2, <1>14, SameAgree
<1>19. Agrees(a, Settle(blocks, todo'), TRUE) BY <1>16, <1>17, <1>18, SameAgree
<1>20. Agrees(After(before, call.req), Settle(blocks, todo'), tree'.root_exists)
  BY <1>1, <1>2, <1>19 DEF a
<1>21. call'.pc \in Results \ {"return"} /\ call'.pc \notin Deletes BY <1>17 DEF Results, Deletes
<1> QED BY <1>1, <1>2, <1>17, <1>20, <1>21, LeavesOnTheWay

(* A root that grows keeps them as well.                                   *)
LEMMA FinishInsertKeeps == ASSUME Keeps, FinishInsert PROVE Kept'
<1> DEFINE C == Settle(blocks, todo')
           a == After(before, call.req)
<1>1. /\ call.pc = "insert_up" /\ todo = <<>> /\ call.stack = <<>>
      /\ NoStorageCall /\ call' = Answer(call.answer)
  BY DEF FinishInsert, Runs
<1>2. /\ tree.root_exists = TRUE /\ Agrees(a, blocks, TRUE)
      /\ call.pc \notin Outside \cup {"return"} /\ RightAnswer(call.req, call.answer, before)
  BY <1>1, ComingBack DEF Results
<1>3. tree'.root_exists = TRUE
  <2>1. tree \in Metadata BY Running DEF Keeps, Good
  <2> QED BY <1>2, <2>1 DEF FinishInsert, Metadata
<1>4. ROOT_ID \in DOMAIN blocks BY <1>1, Running DEF Keeps, Good
<1>5. SameEntries(blocks, C)
  <2>1. CASE call.split = NoSplit
    <3>1. todo' = << Save(ROOT_ID, blocks[ROOT_ID]) >>
      BY <1>2, <2>1 DEF FinishInsert, SaveMetadata
    <3>2. Put(blocks, C, ROOT_ID, blocks[ROOT_ID]) BY <3>1, EffectOfSave DEF Settle
    <3> HIDE DEF C
    <3>3. DOMAIN C = DOMAIN blocks /\ \A b \in DOMAIN blocks : C[b] = blocks[b]
      BY <1>4, <3>2 DEF Put
    <3> QED BY <3>3 DEF SameEntries, Stores
  <2>2. CASE call.split # NoSplit
    <3> DEFINE k == call.split.key
               q == call.split.id
               r == FreshBlock
               n == InsertInternal(NewInternal, k, r, q)
               g == [ NewInternal EXCEPT !.child_ids = <<r>> ]
    <3>1. PICK s, U : Splitting(call, blocks, s, U)
      BY <1>1, <2>2, SplitBelow DEF Keeps, FinishInsert
    <3>2. q \in Allotted /\ k \in Key BY <3>1 DEF Splitting, CutAt
    <3>3. r \in Allotted /\ r \notin DOMAIN blocks BY <1>1, Situation DEF Keeps
    <3>4. todo' = SplitWrites(ROOT_ID, n, blocks[ROOT_ID])
      BY <2>2 DEF FinishInsert, SplitWrites
    <3> HIDE DEF k, q
    <3>5. ChildAdded(g, 1, k, q, n) BY <3>2, <3>3, NewRoot
    <3> HIDE DEF n, g
    <3>6. ~IsLeaf(n) BY <3>5 DEF ChildAdded, IsLeaf, IsInternal
    <3>7. PutTwo(blocks, C, r, ROOT_ID, n, blocks[ROOT_ID]) BY <1>4, <3>3, <3>4, PlanSplit
    <3> HIDE DEF C
    <3>8. /\ DOMAIN C = DOMAIN blocks \cup {r} /\ C[r] = blocks[ROOT_ID] /\ C[ROOT_ID] = n
          /\ \A b \in DOMAIN blocks \ {ROOT_ID} : C[b] = blocks[b]
      BY <3>7 DEF PutTwo
    <3> HIDE DEF r
    <3>9. ASSUME NEW y \in Key, NEW v \in Val
          PROVE  (\E b \in {ROOT_ID} : IsLeaf(blocks[b]) /\ Has(blocks[b], y, v)) <=>
                 (\E b \in {ROOT_ID, r} : IsLeaf(C[b]) /\ Has(C[b], y, v))
      BY <3>6, <3>8
    <3>10. DOMAIN blocks \ {ROOT_ID} = DOMAIN C \ {ROOT_ID, r} BY <1>4, <3>3, <3>8
    <3>11. {ROOT_ID} \subseteq DOMAIN blocks /\ {ROOT_ID, r} \subseteq DOMAIN C BY <1>4, <3>8
    <3> QED BY <3>8, <3>9, <3>10, <3>11, SameElsewhere
  <2> QED BY <2>1, <2>2
<1> HIDE DEF C
<1>6. Agrees(a, C, TRUE) BY <1>2, <1>5, SameAgree
<1> QED BY <1>1, <1>2, <1>3, <1>6, LeavesAnswer DEF C

-----------------------------------------------------------------------------
(* Deleting.                                                               *)

(* The entry is taken out of its leaf.                                     *)
LEMMA DeleteFromLeafKeeps == ASSUME Keeps, DeleteFromLeaf PROVE Kept'
<1> DEFINE x == call.at
           k == call.req.key
           n == RemoveLeaf(blocks[x], k)
           C == Settle(blocks, todo')
           a == After(before, call.req)
<1>1. /\ Runs("descend") /\ IsLeaf(blocks[x]) /\ call.req.op \in {"delete", "delete_safe"}
      /\ NoStorageCall /\ tree' = tree
  BY DEF DeleteFromLeaf, AtLeaf
<1>2. /\ tree.root_exists /\ todo = <<>> /\ call.pc = "descend"
      /\ call.pc \notin Outside \cup {"return"}
      /\ call \in Calls /\ call.req \in Request /\ Answers(call, before, blocks)
      /\ IsMap(before) /\ Agrees(before, blocks, TRUE)
  BY <1>1, ArrivedKeeping
<1>3. PICK s : /\ Tree(blocks, s, ROOT_ID) /\ x \in DOMAIN blocks
               /\ call.req.op \in ByKey => InRange(s, x, k)
  BY <1>1, ArrivedKeeping
<1>4. k \in Key /\ InRange(s, x, k) BY <1>1, <1>2, <1>3, ValueAfterCases DEF ByKey
<1>5. blocks[x] \in WellShaped /\ Ordered(blocks[x].keys) BY <1>3, TreeNode
<1>6. Get(blocks[x], k) = ValueOf(before, k) /\ (HasKey(blocks[x], k) <=> ValueOf(before, k) # None)
  BY <1>1, LeafAnswers DEF ByKey
<1>7. IsMap(a) /\ \A y \in Key : ValueOf(a, y) = ValueAfter(before, call.req, y)
  BY <1>2, AfterMap
<1> HIDE DEF a
<1>8. \A y \in Key : ValueOf(a, y) = IF y = k THEN None ELSE ValueOf(before, y)
  BY <1>1, <1>2, <1>7, ValueAfterCases
<1>9. tree'.root_exists = TRUE
  <2>1. tree.root_exists \in BOOLEAN BY Running DEF Keeps, Good, Metadata
  <2> QED BY <1>1, <1>2, <2>1
<1>10. /\ call'.pc = "delete_up" /\ call'.req = call.req
       /\ call'.answer = ValueOf(before, k)
       /\ call'.outcome = "NoChange" => call'.answer = None
  <2>1. CASE HasKey(blocks[x], k)
    <3>1. /\ call'.pc = "delete_up" /\ call'.req = call.req /\ call'.answer = Get(blocks[x], k)
          /\ call'.outcome \in {"Underflow", "KeyRemoved"}
      BY <1>2, <2>1 DEF DeleteFromLeaf, Calls, CallsIn
    <3> QED BY <1>6, <3>1
  <2>2. CASE ~HasKey(blocks[x], k)
    <3>1. call'.pc = "delete_up" /\ call'.req = call.req /\ call'.answer = call.answer
      BY <1>2, <2>2 DEF DeleteFromLeaf, Calls, CallsIn
    <3>2. call.answer = None BY <1>1, <1>2 DEF Answers
    <3> QED BY <1>6, <2>2, <3>1, <3>2
  <2> QED BY <2>1, <2>2
<1>11. Agrees(a, C, TRUE)
  <2>1. CASE HasKey(blocks[x], k)
    <3>1. todo' = << Save(x, n) >> BY <2>1 DEF DeleteFromLeaf
    <3>2. Put(blocks, C, x, n) BY <3>1, EffectOfSave DEF Settle
    <3>3. \A y, w : Has(n, y, w) <=> y # k /\ Has(blocks[x], y, w)
      BY <1>1, <1>4, <1>5, <2>1, RemoveLeafHas
    <3>4. IsLeaf(n) BY <1>1, <1>4, <1>5, <2>1, RemoveLeafOrdered DEF IsLeaf
    <3> HIDE DEF n, C
    <3>5. DOMAIN C = DOMAIN blocks /\ C[x] = n /\ \A b \in DOMAIN blocks \ {x} : C[b] = blocks[b]
      BY <1>3, <3>2 DEF Put
    <3>6. \A y \in Key, w \in Val : Has(C[x], y, w) <=> IF y = k THEN w = None ELSE Has(blocks[x], y, w)
      BY <3>3, <3>5, NoneAssumption
    <3>7. LeafWith(blocks, C, x, k, None) BY <1>1, <3>4, <3>5, <3>6 DEF LeafWith
    <3>8. MapWith(before, a, k, None) BY <1>2, <1>7, <1>8 DEF MapWith
    <3> QED BY <1>2, <1>3, <1>4, <3>7, <3>8, LeafChanged
  <2>2. CASE ~HasKey(blocks[x], k)
    <3>1. todo' = <<>> BY <1>2, <2>2 DEF DeleteFromLeaf
    <3>2. C = blocks BY <3>1, PlanNone
    <3>3. \A y \in Key : ValueOf(a, y) = ValueOf(before, y) BY <1>6, <1>8, <2>2
    <3>4. a = before BY <1>2, <1>7, <3>3, MapsEqual
    <3> QED BY <1>2, <3>2, <3>4
  <2> QED BY <2>1, <2>2
<1>12. Agrees(After(before, call.req), Settle(blocks, todo'), tree'.root_exists)
  BY <1>9, <1>11 DEF a
<1>13. call'.pc \in Results \ {"return"} /\ call'.pc \in Deletes BY <1>10 DEF Results, Deletes
<1> QED BY <1>1, <1>2, <1>10, <1>12, <1>13, LeavesOnTheWay

(* A node saved as it was changes no entries.                              *)
LEMMA Resaved ==
  ASSUME NEW B, NEW C, NEW id \in DOMAIN B, Put(B, C, id, B[id])
  PROVE  SameEntries(B, C)
<1>1. DOMAIN C = DOMAIN B /\ \A b \in DOMAIN B : C[b] = B[b] BY DEF Put
<1> QED BY <1>1 DEF SameEntries, Stores

(* So it is with an ancestor's.                                            *)
LEMMA SaveAncestorKeeps == ASSUME Keeps, SaveAncestor PROVE Kept'
<1> DEFINE f == Last(call.stack)
           C == Settle(blocks, todo')
           a == After(before, call.req)
<1>1. /\ call.pc = "delete_up" /\ todo = <<>> /\ call.stack # <<>> /\ call.outcome # "Underflow"
      /\ NoStorageCall /\ tree' = tree /\ todo' = << Save(f.id, f.node) >>
      /\ call' = [ call EXCEPT !.stack = Front(@) ]
  BY DEF SaveAncestor, Runs
<1>2. /\ tree.root_exists = TRUE /\ call \in Calls /\ Agrees(a, blocks, TRUE)
      /\ call.pc \notin Outside \cup {"return"} /\ call.req.op \in {"delete", "delete_safe"}
      /\ call.answer = ValueOf(before, call.req.key)
      /\ call.outcome = "NoChange" => call.answer = None
  BY <1>1, ComingBack DEF Results, Deletes
<1>3. PICK s : Deleting(call, blocks, s) /\ call.stack \in Seq(Frames)
  BY <1>1, GoingUp DEF Keeps
<1>4. f.id \in DOMAIN blocks /\ blocks[f.id] = f.node BY <1>1, <1>3, PathTarget DEF Deleting
<1> HIDE DEF f, a
<1>5. Put(blocks, C, f.id, blocks[f.id]) BY <1>1, <1>4, EffectOfSave DEF Settle
<1> HIDE DEF C
<1>6. Agrees(a, C, TRUE) BY <1>2, <1>4, <1>5, Resaved, SameAgree
<1>7. Agrees(After(before, call.req), Settle(blocks, todo'), tree'.root_exists)
  BY <1>1, <1>2, <1>6 DEF a, C
<1>8. /\ call'.pc = "delete_up" /\ call'.req = call.req /\ call'.answer = call.answer
      /\ call'.outcome = call.outcome
  BY <1>1, <1>2 DEF Calls, CallsIn
<1>9. call'.pc \in Results \ {"return"} BY <1>8 DEF Results, Deletes
<1> QED BY <1>1, <1>2, <1>7, <1>8, <1>9, LeavesOnTheWay

(* Borrowing and merging only move entries.                                *)
LEMMA HandleChildUnderflowKeeps == ASSUME Keeps, HandleChildUnderflow PROVE Kept'
<1> DEFINE p == Last(call.stack).id
           C == Settle(blocks, todo')
           a == After(before, call.req)
<1>1. /\ call.pc = "delete_up" /\ todo = <<>> /\ call.stack # <<>> /\ call.outcome = "Underflow"
      /\ NoStorageCall /\ tree' = tree
      /\ todo' = RebalanceWrites(p, blocks[p], Last(call.stack).idx)
      /\ call' = [ call EXCEPT !.pc = "reload" ]
  BY DEF HandleChildUnderflow, Rebalances, Runs
<1>2. /\ tree.root_exists = TRUE /\ call \in Calls /\ Agrees(a, blocks, TRUE)
      /\ call.pc \notin Outside \cup {"return"} /\ call.req.op \in {"delete", "delete_safe"}
      /\ call.answer = ValueOf(before, call.req.key)
  BY <1>1, ComingBack DEF Results, Deletes
<1>3. PICK s : Underflown(s) BY <1>1, ChildTooSmall DEF Keeps
<1>4. MinKeys \in Nat BY Capacity
<1>5. MadeUpFor(blocks, s, C, p) BY <1>1, <1>3, <1>4, RebalancePlan DEF Keeps
<1>6. Agrees(a, C, TRUE) BY <1>2, <1>5, SameAgree DEF MadeUpFor
<1>7. Agrees(After(before, call.req), Settle(blocks, todo'), tree'.root_exists)
  BY <1>1, <1>2, <1>6
<1>8. call'.pc = "reload" /\ call'.req = call.req /\ call'.answer = call.answer
  BY <1>1, <1>2 DEF Calls, CallsIn
<1>9. call'.pc \in Results \ {"return"} BY <1>8 DEF Results, Deletes
<1> QED BY <1>1, <1>2, <1>7, <1>8, <1>9, LeavesOnTheWay

(* The parent is only looked at.                                           *)
LEMMA CheckParentKeeps == ASSUME Keeps, CheckParent PROVE Kept'
<1>1. /\ call.pc = "reload" /\ todo = <<>> /\ NoStorageCall /\ tree' = tree /\ todo' = todo
      /\ call' = [ call EXCEPT !.pc = "delete_up", !.stack = Front(@),
                     !.outcome = IF Underflows(Last(call.stack).id, blocks[Last(call.stack).id])
                                 THEN "Underflow" ELSE "KeyRemoved" ]
  BY DEF CheckParent, Runs
<1>2. /\ tree.root_exists = TRUE /\ call \in Calls /\ Agrees(After(before, call.req), blocks, TRUE)
      /\ call.pc \notin Outside \cup {"return"} /\ call.req.op \in {"delete", "delete_safe"}
      /\ call.answer = ValueOf(before, call.req.key)
  BY <1>1, ComingBack DEF Results, Deletes
<1>3. Agrees(After(before, call.req), Settle(blocks, todo'), tree'.root_exists)
  BY <1>1, <1>2, PlanNone
<1>4. /\ call'.pc = "delete_up" /\ call'.req = call.req /\ call'.answer = call.answer
      /\ call'.outcome # "NoChange"
  BY <1>1, <1>2 DEF Calls, CallsIn
<1>5. call'.pc \in Results \ {"return"} BY <1>4 DEF Results, Deletes
<1> QED BY <1>1, <1>2, <1>3, <1>4, <1>5, LeavesOnTheWay

(* A key that was not there: none is the answer.                           *)
LEMMA DeleteNothingKeeps == ASSUME Keeps, DeleteNothing PROVE Kept'
<1>1. /\ call.pc = "delete_up" /\ todo = <<>> /\ NoStorageCall /\ tree' = tree /\ todo' = todo
      /\ call' = Answer(None) /\ call.outcome = "NoChange"
  BY DEF DeleteNothing, Runs
<1>2. /\ tree.root_exists = TRUE /\ Agrees(After(before, call.req), blocks, TRUE)
      /\ call.pc \notin Outside \cup {"return"}
      /\ RightAnswer(call.req, call.answer, before) /\ call.answer = None
  BY <1>1, ComingBack DEF Results, Deletes
<1>3. Agrees(After(before, call.req), Settle(blocks, todo'), tree'.root_exists)
  BY <1>1, <1>2, PlanNone
<1>4. RightAnswer(call.req, None, before) BY <1>2
<1> QED BY <1>1, <1>2, <1>3, <1>4, LeavesAnswer

(* Counting the entry off leaves the entries.                              *)
LEMMA CountDeletedKeeps == ASSUME Keeps, CountDeleted PROVE Kept'
<1>1. /\ call.pc = "delete_up" /\ todo = <<>> /\ NoStorageCall /\ todo' = todo
      /\ tree' = [ tree EXCEPT !.entry_count = (@ - 1) % CountWidth ]
      /\ call' = [ call EXCEPT !.pc = "root_underflow" ]
  BY DEF CountDeleted, Runs
<1>2. /\ tree.root_exists = TRUE /\ call \in Calls /\ Agrees(After(before, call.req), blocks, TRUE)
      /\ call.pc \notin Outside \cup {"return"} /\ call.req.op \in {"delete", "delete_safe"}
      /\ call.answer = ValueOf(before, call.req.key)
  BY <1>1, ComingBack DEF Results, Deletes
<1>3. tree'.root_exists = TRUE
  <2>1. tree \in Metadata BY Running DEF Keeps, Good
  <2> QED BY <1>1, <1>2, <2>1 DEF Metadata
<1>4. Agrees(After(before, call.req), Settle(blocks, todo'), tree'.root_exists)
  BY <1>1, <1>2, <1>3, PlanNone
<1>5. call'.pc = "root_underflow" /\ call'.req = call.req /\ call'.answer = call.answer
  BY <1>1, <1>2 DEF Calls, CallsIn
<1>6. call'.pc \in Results \ {"return"} BY <1>5 DEF Results, Deletes
<1> QED BY <1>1, <1>2, <1>4, <1>5, <1>6, LeavesOnTheWay

(* Without entries, the map is empty.                                      *)
LEMMA EmptyMap ==
  ASSUME NEW m, IsMap(m), NEW B, Agrees(m, B, TRUE), \A k \in Key, v \in Val : ~Stores(B, k, v)
  PROVE  m = Nothing
<1>1. ASSUME NEW k \in Key PROVE ValueOf(m, k) = None
  <2>1. ValueOf(m, k) \in Val \cup {None} BY MapValues
  <2>2. ASSUME ValueOf(m, k) \in Val PROVE FALSE
    <3>1. Stores(B, k, ValueOf(m, k)) BY <2>2, AgreesValues
    <3> QED BY <2>2, <3>1
  <2> QED BY <2>1, <2>2
<1>2. \A k \in Key : ValueOf(m, k) = ValueOf(Nothing, k) BY <1>1, NothingMap
<1> QED BY <1>2, NothingMap, MapsEqual

(* The root gives way to its only child or is dropped with its last entry, *)
(* or stays.                                                               *)
LEMMA FinishDeleteKeeps == ASSUME Keeps, FinishDelete PROVE Kept'
<1> DEFINE r == blocks[ROOT_ID]
           only == Head(r.child_ids)
           C == Settle(blocks, todo')
           a == After(before, call.req)
<1>1. /\ call.pc = "root_underflow" /\ todo = <<>>
      /\ call' = Answer(call.answer) /\ NoStorageCall
  BY DEF FinishDelete, Runs
<1>2. /\ tree.root_exists = TRUE /\ IsMap(before) /\ Agrees(a, blocks, TRUE)
      /\ call.pc \notin Outside \cup {"return"} /\ RightAnswer(call.req, call.answer, before)
      /\ call.req \in Request /\ call.req.op \in {"delete", "delete_safe"}
  BY <1>1, ComingBack DEF Results, Deletes
<1>3. ROOT_ID \in DOMAIN blocks BY <1>1, Running DEF Keeps, Good
<1>4. PICK s : Tree(blocks, s, ROOT_ID)
  <2>1. PICK s, U : Place(call, tree.root_exists, blocks, s, U) BY <1>1, Situation DEF Keeps
  <2>2. Counted(call, blocks, s) BY <1>1, <2>1 DEF Place
  <2> QED BY <2>2 DEF Counted
<1>5. /\ Len(r.keys) \in Nat /\ r.key_count = Len(r.keys) /\ r.child_ids \in Seq(Allotted)
      /\ (IsLeaf(r) \/ IsInternal(r)) /\ (IsLeaf(r) => r.child_ids = <<>>)
  BY <1>3, <1>4, TreeNode, NodeParts
<1>6. CASE /\ CollapsesRoot
           /\ todo' = CollapseWrites(only) /\ tree' = tree
  <2>1. IsInternal(r) /\ Len(r.keys) = 0 /\ r.child_ids # <<>>
    BY <1>5, <1>6 DEF CollapsesRoot
  <2>2. only = r.child_ids[1] /\ 1 \in 1..(Len(r.keys) + 1) BY <1>5, <2>1
  <2>3. only \in DOMAIN blocks /\ only # ROOT_ID BY <1>3, <1>4, <2>1, <2>2, TreeChild
  <2>4. todo' = MergeCalls(ROOT_ID, blocks[only], only, ROOT_ID, blocks[only])
    BY <1>6 DEF CollapseWrites, MergeCalls
  <2> HIDE DEF only, a
  <2>5. PutMerged(blocks, C, ROOT_ID, blocks[only], only, ROOT_ID, blocks[only])
    BY <1>3, <2>3, <2>4, PlanMerge
  <2> HIDE DEF C
  <2>6. /\ DOMAIN C = DOMAIN blocks \ {only} /\ C[ROOT_ID] = blocks[only]
        /\ \A b \in DOMAIN blocks \ {ROOT_ID, only} : C[b] = blocks[b]
    BY <2>5 DEF PutMerged
  <2>7. ShrinkIn(blocks, C, ROOT_ID, only) BY <2>1, <2>2, <2>6 DEF ShrinkIn
  <2>8. SameEntries(blocks, C) BY <1>4, <2>7, ShrinkEntries
  <2>9. Agrees(a, C, TRUE) BY <1>2, <2>8, SameAgree
  <2>10. tree'.root_exists = TRUE BY <1>2, <1>6
  <2> QED BY <1>1, <1>2, <2>9, <2>10, LeavesAnswer DEF C, a
<1>7. CASE /\ EmptiesRoot
           /\ tree' = EmptyTree /\ todo' = << SaveMetadata(EmptyTree), SaveMetadata(EmptyTree) >>
  <2>1. IsLeaf(r) /\ Len(r.keys) = 0 BY <1>5, <1>7 DEF EmptiesRoot
  <2>2. DOMAIN blocks = {ROOT_ID} BY <1>4, <2>1, LeafRootAlone
  <2>3. DOMAIN r.keys = {}
    <3>1. DOMAIN r.keys = 1..Len(r.keys) BY <1>3, <1>4, TreeNode, NodeParts
    <3> QED BY <2>1, <3>1
  <2>4. \A k \in Key, v \in Val : ~Stores(blocks, k, v) BY <2>2, <2>3 DEF Stores, Has
  <2>5. IsMap(a) BY <1>2, AfterMap
  <2> HIDE DEF a
  <2>6. a = Nothing BY <1>2, <2>4, <2>5, EmptyMap
  <2>7. tree'.root_exists = FALSE BY <1>7 DEF EmptyTree
  <2>8. Agrees(a, Settle(blocks, todo'), tree'.root_exists) BY <2>6, <2>7 DEF Agrees
  <2> QED BY <1>1, <1>2, <2>8, LeavesAnswer DEF a
<1>8. CASE /\ ~CollapsesRoot /\ ~EmptiesRoot
           /\ todo' = << SaveMetadata(tree) >> /\ tree' = tree
  <2>1. todo' = << Save(ROOT_ID, r) >> BY <1>2, <1>8 DEF SaveMetadata
  <2>2. Put(blocks, C, ROOT_ID, r) BY <2>1, EffectOfSave DEF Settle
  <2> HIDE DEF C, a
  <2>3. Agrees(a, C, TRUE) BY <1>2, <1>3, <2>2, Resaved, SameAgree
  <2>4. tree'.root_exists = TRUE BY <1>2, <1>8
  <2> QED BY <1>1, <1>2, <2>3, <2>4, LeavesAnswer DEF C, a
<1> QED BY <1>6, <1>7, <1>8 DEF FinishDelete

-----------------------------------------------------------------------------
(* Clearing.                                                               *)

(* Until the last step nothing is said of the entries, but that the map    *)
(* before the call was one.                                                *)
LEMMA ClearingKeeps ==
  ASSUME Keeps, NoStorageCall, todo = <<>>, call.pc \in Clears,
         call'.req = call.req, call'.pc \in Clears
  PROVE  Kept'
<1>1. call.pc \notin Outside \cup {"return"} BY DEF Clears, Outside
<1>2. IsMap(before) /\ Asking(call) BY <1>1, HandlerFinds
<1>3. call'.pc \in {"clear", "clear_up"} BY DEF Clears
<1>4. Asking(call') BY <1>1, <1>2, <1>3 DEF Asking, Outside, Deletes, Clears
<1>5. Contents(call', before, Settle(blocks, todo'), tree'.root_exists)
  BY <1>2, <1>3 DEF Contents, Searches, Results, Deletes
<1>6. Answers(call', before, Settle(blocks, todo')) BY <1>3 DEF Answers, Results, Deletes
<1>7. call.pc \notin {"idle", "return"} /\ call'.pc # "opening" BY <1>3 DEF Clears
<1> QED BY <1>4, <1>5, <1>6, <1>7, HandlerKeeps

(* clear goes down into an inner block.                                    *)
LEMMA ClearInternalKeeps == ASSUME Keeps, ClearInternal PROVE Kept'
<1>1. /\ call.pc = "clear" /\ todo = <<>> /\ NoStorageCall
      /\ call' = [ call EXCEPT !.at = Head(blocks[call.at].child_ids),
                               !.stack = Append(@, Frame(call.at, blocks[call.at], 1)) ]
  BY DEF ClearInternal, Runs
<1>2. call \in Calls BY Running DEF Keeps, Good
<1>3. call'.req = call.req /\ call'.pc = "clear" BY <1>1, <1>2 DEF Calls, CallsIn
<1> QED BY <1>1, <1>3, ClearingKeeps DEF Clears

(* It reaches a leaf, turns back up,                                       *)
LEMMA ClearLeafKeeps == ASSUME Keeps, ClearLeaf PROVE Kept'
<1>1. /\ call.pc = "clear" /\ todo = <<>> /\ NoStorageCall
      /\ call' = [ call EXCEPT !.pc = "clear_up", !.at = NoBlock ]
  BY DEF ClearLeaf, Runs
<1>2. call \in Calls BY Running DEF Keeps, Good
<1>3. call'.req = call.req /\ call'.pc = "clear_up" BY <1>1, <1>2 DEF Calls, CallsIn
<1> QED BY <1>1, <1>3, ClearingKeeps DEF Clears

(* and goes on to the next child, or up once more.                         *)
LEMMA ClearNextKeeps == ASSUME Keeps, ClearNext PROVE Kept'
<1> DEFINE f == Last(call.stack)
<1>1. /\ call.pc = "clear_up" /\ todo = <<>> /\ NoStorageCall
      /\ \/ call' = [ call EXCEPT !.pc = "clear", !.at = f.node.child_ids[f.idx + 1],
                         !.stack = Append(Front(@), Frame(f.id, f.node, f.idx + 1)) ]
         \/ call' = [ call EXCEPT !.stack = Front(@) ]
  BY DEF ClearNext, Runs
<1>2. call \in Calls BY Running DEF Keeps, Good
<1>3. call'.req = call.req /\ call'.pc \in {"clear", "clear_up"} BY <1>1, <1>2 DEF Calls, CallsIn
<1> QED BY <1>1, <1>3, ClearingKeeps DEF Clears

(* Then there is no root, and no entry.                                    *)
LEMMA FinishClearKeeps == ASSUME Keeps, FinishClear PROVE Kept'
<1>1. /\ call.pc = "clear_up" /\ todo = <<>> /\ NoStorageCall /\ call' = Answer(None)
      /\ tree'.root_exists = FALSE
  BY DEF FinishClear, Runs, EmptyTree
<1>2. call.pc \notin Outside \cup {"return"} BY <1>1 DEF Outside
<1>3. IsMap(before) /\ call.req \in Request /\ call.req.op = "clear"
  BY <1>1, <1>2, HandlerFinds DEF Asking, Clears
<1>4. After(before, call.req) = Nothing
  <2> DEFINE a == After(before, call.req)
  <2>1. IsMap(a) /\ \A k \in Key : ValueOf(a, k) = ValueAfter(before, call.req, k)
    BY <1>3, AfterMap
  <2> HIDE DEF a
  <2>2. \A k \in Key : ValueOf(a, k) = ValueOf(Nothing, k)
    BY <1>3, <2>1, ValueAfterCases, NothingMap
  <2> QED BY <2>1, <2>2, NothingMap, MapsEqual DEF a
<1>5. Agrees(After(before, call.req), Settle(blocks, todo'), tree'.root_exists)
  BY <1>1, <1>4 DEF Agrees
<1>6. RightAnswer(call.req, None, before) BY <1>3 DEF RightAnswer, ByKey
<1> QED BY <1>1, <1>2, <1>5, <1>6, LeavesAnswer

-----------------------------------------------------------------------------
(* The invariant.                                                          *)

(* Every step that is no failure keeps what there is to keep.              *)
LEMMA NextKeeps ==
  ASSUME FullFits, Keeps, Next, ~StorageFails, ~Crash
  PROVE  Kept'
<1>1. CASE Open BY <1>1, OpenKeeps
<1>2. CASE Close BY <1>2, CloseKeeps
<1>3. CASE \E r \in Requests : Invoke(r) BY <1>3, InvokeKeeps
<1>4. CASE CallStep
  <2>1. CASE StorageCall BY <2>1, StorageCallKeeps
  <2>2. CASE Opened \/ StartOnTree \/ StartOnEmptyTree \/ Return
    BY <2>2, OpenedKeeps, StartOnTreeKeeps, StartOnEmptyTreeKeeps, ReturnKeeps
  <2>3. CASE Search
    BY <2>3, DescendKeeps, GetFromLeafKeeps, ScanLeafKeeps DEF Search
  <2>4. CASE Insert
    BY <2>4, UpdateMissingKeeps, InsertIntoLeafKeeps, InsertIntoParentKeeps,
       FinishInsertKeeps
       DEF Insert
  <2>5. CASE Delete
    BY <2>5, DeleteFromLeafKeeps, SaveAncestorKeeps, HandleChildUnderflowKeeps,
       CheckParentKeeps, DeleteNothingKeeps, CountDeletedKeeps, FinishDeleteKeeps,
       NeverRolledBack
       DEF Delete, Keeps
  <2>6. CASE Clear
    BY <2>6, ClearInternalKeeps, ClearLeafKeeps, ClearNextKeeps, FinishClearKeeps DEF Clear
  <2>7. ~BlockNotFound /\ ~InvalidBlockSize /\ ~BlockCorrupted /\ ~Panic
    BY NeverNotFound, NeverTooLong, NeverCorrupted DEF Keeps
  <2> QED BY <1>4, <2>1, <2>2, <2>3, <2>4, <2>5, <2>6, <2>7 DEF CallStep
<1> QED BY <1>1, <1>2, <1>3, <1>4 DEF Next

IInvMap == IInvIntact /\ MapKept

(* Every step of the tree, failures included.                              *)
LEMMA NextMapKept ==
  ASSUME FullFits, IInvMap, [Next /\ HistoryNext]_allvars
  PROVE  IInvMap'
<1>1. [Next]_vars BY DEF allvars
<1>2. IInvIntact' BY <1>1, NextIntact DEF IInvMap
<1>3. ASSUME NoFaults' PROVE Kept'
  <2>1. NoFaults /\ ~StorageFails /\ ~Crash BY <1>1, <1>3, FaultsCount DEF IInvMap, IInvIntact
  <2>2. Good /\ Kept BY <2>1, BeforeFailure DEF IInvMap, MapKept
  <2>3. CASE Next /\ HistoryNext BY <2>1, <2>2, <2>3, NextKeeps DEF Keeps
  <2>4. CASE UNCHANGED allvars
    <3>1. /\ blocks' = blocks /\ header' = header /\ tree' = tree /\ call' = call /\ todo' = todo
          /\ before' = before
      BY <2>4 DEF allvars, vars
    <3>2. Settled' = Settled BY <3>1 DEF Settled
    <3>3. Kept' <=> Kept BY <3>1, <3>2 DEF Kept, Unopened
    <3> QED BY <2>2, <3>3
  <2> QED BY <2>3, <2>4
<1> QED BY <1>2, <1>3 DEF IInvMap, MapKept

(* The first state.                                                        *)
LEMMA InitMapKept == ASSUME Init, HistoryInit PROVE IInvMap
<1>1. IInvIntact BY InitIntact
<1>2. call.pc = "closed" /\ call.req = NoRequest BY DEF Init, Closed, Blank
<1>3. Kept
  BY <1>2 DEF Kept, Asking, Contents, Answers, Unopened, Outside, Searches, Clears, Deletes, Results
<1> QED BY <1>1, <1>3 DEF IInvMap, MapKept

(* The invariant holds in every reachable state.                           *)
LEMMA AlwaysMap == ASSUME FullFits PROVE HistorySpec => []IInvMap
<1>1. Init /\ HistoryInit => IInvMap BY InitMapKept
<1>2. IInvMap /\ [Next /\ HistoryNext]_allvars => IInvMap' BY NextMapKept
<1> QED BY <1>1, <1>2, PTL DEF HistorySpec

(* As long as nothing fails, what the tree stores, with the outstanding    *)
(* storage calls taken as made, is the map that the running call has found *)
(* or what the call makes of it, a range has listed what lies behind it,   *)
(* and a call that is over has the right answer: no split, borrowing or    *)
(* merge loses an entry, finds one twice or moves one out of reach.        *)
THEOREM TreeHoldsMap == ASSUME FullFits PROVE HistorySpec => []MapKept
<1>1. IInvMap => MapKept BY DEF IInvMap
<1> QED BY <1>1, AlwaysMap, PTL

-----------------------------------------------------------------------------
(* What the map of OrderedMap makes of a call.                             *)

(* One function with the domain S that is m on it, but for the key k.      *)
LEMMA SameFunction ==
  ASSUME NEW m, IsMap(m), NEW S, S \subseteq Key, NEW f, f = [ x \in S |-> f[x] ],
         \A x \in S : f[x] \in Val, NEW w, NEW k \in Key,
         \A x \in S : x # k => x \in DOMAIN m /\ f[x] = m[x],
         \A x \in DOMAIN m : x # k => x \in S,
         k \in S => f[k] = w, k \notin S => w = None,
         NEW a, MapWith(m, a, k, w)
  PROVE  a = f
<1>1. DOMAIN f = S OBVIOUS
<1>2. IsMap(f)
  <2>1. f \in [ S -> Val ] OBVIOUS
  <2> QED BY <1>1, <2>1 DEF IsMap
<1>3. \A x \in Key : ValueOf(a, x) = ValueOf(f, x)
  <2> TAKE x \in Key
  <2>1. ValueOf(a, x) = IF x = k THEN w ELSE ValueOf(m, x) BY DEF MapWith
  <2>2. CASE x = k BY <1>1, <2>1, <2>2 DEF ValueOf
  <2>3. CASE x # k BY <1>1, <2>1, <2>3 DEF ValueOf
  <2> QED BY <2>2, <2>3
<1>4. IsMap(a) BY DEF MapWith
<1> QED BY <1>2, <1>3, <1>4, MapsEqual

(* A key is put or taken away.                                             *)
WithKey(m, k, w) == [ x \in DOMAIN m \cup {k} |-> IF x = k THEN w ELSE m[x] ]
WithoutKey(m, k) == [ x \in DOMAIN m \ {k} |-> m[x] ]

LEMMA PutAndTaken ==
  ASSUME NEW m, IsMap(m), NEW k \in Key, NEW w, NEW a, MapWith(m, a, k, w)
  PROVE  /\ w \in Val => a = WithKey(m, k, w)
         /\ w = None => a = WithoutKey(m, k)
<1>1. DOMAIN m \subseteq Key /\ \A x \in DOMAIN m : m[x] \in Val BY DEF IsMap
<1>2. ASSUME w \in Val PROVE a = WithKey(m, k, w)
  <2> DEFINE f == WithKey(m, k, w)
             S == DOMAIN m \cup {k}
  <2>1. S \subseteq Key /\ k \in S BY <1>1
  <2>2. f = [ x \in S |-> f[x] ] BY DEF WithKey, WithoutKey
  <2>3. \A x \in S : f[x] = IF x = k THEN w ELSE m[x] BY DEF WithKey
  <2>4. \A x \in S : x # k => x \in DOMAIN m OBVIOUS
  <2>5. \A x \in DOMAIN m : x \in S OBVIOUS
  <2> HIDE DEF f, S
  <2>6. \A x \in S : f[x] \in Val BY <1>1, <1>2, <2>3, <2>4
  <2>7. a = f BY <2>1, <2>2, <2>3, <2>4, <2>5, <2>6, SameFunction
  <2> QED BY <2>7 DEF f
<1>3. ASSUME w = None PROVE a = WithoutKey(m, k)
  <2> DEFINE f == WithoutKey(m, k)
             S == DOMAIN m \ {k}
  <2>1. S \subseteq Key /\ k \notin S BY <1>1
  <2>2. f = [ x \in S |-> f[x] ] BY DEF WithKey, WithoutKey
  <2>3. \A x \in S : f[x] = m[x] /\ x \in DOMAIN m BY DEF WithoutKey
  <2>5. \A x \in DOMAIN m : x # k => x \in S OBVIOUS
  <2> HIDE DEF f, S
  <2>6. \A x \in S : f[x] \in Val BY <1>1, <2>3
  <2>7. a = f BY <1>3, <2>1, <2>2, <2>3, <2>5, <2>6, SameFunction
  <2> QED BY <2>7 DEF f
<1> QED BY <1>2, <1>3

(* What a call by its key makes of the map, put like that.                 *)
LEMMA AfterByKey ==
  ASSUME NEW m, IsMap(m), NEW r \in Request
  PROVE  /\ r.op \in {"upsert", "update"} /\ (r.op = "update" => r.key \in DOMAIN m) =>
              After(m, r) = WithKey(m, r.key, r.val)
         /\ r.op = "update" /\ r.key \notin DOMAIN m => After(m, r) = m
         /\ r.op \in {"delete", "delete_safe"} =>
              After(m, r) = WithoutKey(m, r.key)
         /\ r.op = "clear" => After(m, r) = Nothing
         /\ r.op \in {"get", "range"} => After(m, r) = m
<1> DEFINE a == After(m, r)
<1>1. IsMap(a) /\ \A x \in Key : ValueOf(a, x) = ValueAfter(m, r, x) BY AfterMap
<1> HIDE DEF a
<1>2. ASSUME r.op \in {"upsert", "update"}, r.op = "update" => r.key \in DOMAIN m
      PROVE  a = WithKey(m, r.key, r.val)
  <2>1. r.key \in Key /\ r.val \in Val BY <1>2, ValueAfterCases
  <2>2. r.op = "update" => ValueOf(m, r.key) # None BY <1>2, <2>1, MapValues
  <2>3. \A x \in Key : ValueOf(a, x) = IF x = r.key THEN r.val ELSE ValueOf(m, x)
    <3> TAKE x \in Key
    <3>1. ValueOf(a, x) = ValueAfter(m, r, x) BY <1>1
    <3>2. /\ r.op = "upsert" =>
              ValueAfter(m, r, x) = IF x = r.key THEN r.val ELSE ValueOf(m, x)
          /\ r.op = "update" =>
              ValueAfter(m, r, x) = IF x = r.key /\ ValueOf(m, x) # None THEN r.val
                                    ELSE ValueOf(m, x)
      BY ValueAfterCases
    <3> QED BY <1>2, <2>2, <3>1, <3>2
  <2>4. MapWith(m, a, r.key, r.val) BY <1>1, <2>3 DEF MapWith
  <2> QED BY <2>1, <2>4, PutAndTaken
<1>3. ASSUME r.op = "update", r.key \notin DOMAIN m PROVE a = m
  <2>1. r.key \in Key BY <1>3, ValueAfterCases
  <2>2. ValueOf(m, r.key) = None BY <1>3, <2>1, MapValues
  <2>3. \A x \in Key : ValueOf(a, x) = ValueOf(m, x)
    <3> TAKE x \in Key
    <3>1. ValueAfter(m, r, x) = IF x = r.key /\ ValueOf(m, x) # None THEN r.val
                                ELSE ValueOf(m, x)
      BY <1>3, ValueAfterCases
    <3> QED BY <1>1, <2>2, <3>1
  <2> QED BY <1>1, <2>3, MapsEqual
<1>4. ASSUME r.op \in {"delete", "delete_safe"} PROVE a = WithoutKey(m, r.key)
  <2>1. r.key \in Key BY <1>4, ValueAfterCases DEF ByKey
  <2>2. \A x \in Key : ValueOf(a, x) = IF x = r.key THEN None ELSE ValueOf(m, x)
    <3> TAKE x \in Key
    <3>1. ValueAfter(m, r, x) = IF x = r.key THEN None ELSE ValueOf(m, x)
      BY <1>4, ValueAfterCases
    <3> QED BY <1>1, <3>1
  <2>3. MapWith(m, a, r.key, None) BY <1>1, <2>2 DEF MapWith
  <2> QED BY <2>1, <2>3, PutAndTaken
<1>5. ASSUME r.op = "clear" PROVE a = Nothing
  <2>1. \A x \in Key : ValueOf(a, x) = ValueOf(Nothing, x)
    <3> TAKE x \in Key
    <3>1. ValueAfter(m, r, x) = None BY <1>5, ValueAfterCases
    <3>2. ValueOf(Nothing, x) = None BY NothingMap
    <3> QED BY <1>1, <3>1, <3>2
  <2> QED BY <1>1, <2>1, NothingMap, MapsEqual
<1>6. r.op \in {"get", "range"} => a = m BY AfterReading DEF a
<1> QED BY <1>2, <1>3, <1>4, <1>5, <1>6 DEF a

(* What a range has listed are the entries in the order of their keys.     *)
LEMMA ListedInOrder ==
  ASSUME NEW r, NEW m, IsMap(m), NEW a \in Entries, Lists(r, a, m, Key),
         NEW S, S = { k \in DOMAIN m : Asked(r, k) }
  PROVE  \E ks \in Map!Ascending(S) : a = [ i \in DOMAIN ks |-> <<ks[i], m[ks[i]]>> ]
<1> DEFINE n == Len(a)
           ks == [ i \in 1..n |-> a[i][1] ]
<1>1. n \in Nat /\ a = [ i \in 1..n |-> a[i] ] BY LenProperties DEF Entries
<1>2. /\ \A i \in 1..n : a[i][1] \in DOMAIN m /\ Asked(r, a[i][1]) /\ a[i] = <<a[i][1], m[a[i][1]]>>
      /\ \A k \in DOMAIN m : k \in Key /\ Asked(r, k) => \E i \in 1..n : a[i][1] = k
      /\ \A i, j \in 1..n : i < j => a[i][1] < a[j][1]
  BY ListsOneByOne DEF Listing
<1>3. DOMAIN m \subseteq Key BY DEF IsMap
<1>4. DOMAIN ks = 1..n /\ \A i \in 1..n : ks[i] = a[i][1] OBVIOUS
<1>5. ks \in [ 1..n -> S ] BY <1>2
<1> HIDE DEF n, ks
<1>6. \A i, j \in 1..n : i < j => ks[i] < ks[j] BY <1>2, <1>4
<1>7. ks \in Bijection(1..n, S)
  <2>1. \A i, j \in 1..n : ks[i] = ks[j] => i = j
    <3> TAKE i, j \in 1..n
    <3>1. i \in Int /\ j \in Int BY <1>1
    <3>2. ks[i] \in Key /\ ks[j] \in Key BY <1>2, <1>3, <1>4
    <3>3. ks[i] \in Int /\ ks[j] \in Int BY <3>2, KeyAssumption
    <3>4. (i < j => ks[i] < ks[j]) /\ (j < i => ks[j] < ks[i]) BY <1>6
    <3> QED BY <3>1, <3>3, <3>4
  <2>2. \A k \in S : \E i \in 1..n : ks[i] = k BY <1>2, <1>3, <1>4
  <2> QED BY <1>5, <2>1, <2>2 DEF Bijection, Injection, Surjection, IsInjective
<1>8. Cardinality(S) = n
  <2>1. ExistsBijection(1..n, S) BY <1>7 DEF ExistsBijection
  <2> QED BY <1>1, <2>1, FS_CountingElements
<1>9. ks \in Map!Ascending(S)
  <2>1. ks \in [ 1..Cardinality(S) -> S ] BY <1>5, <1>8
  <2>2. \A i, j \in DOMAIN ks : i < j => ks[i] < ks[j] BY <1>4, <1>6
  <2>3. Map!Cardinality(S) = Cardinality(S) BY DEF Map!Cardinality, Cardinality
  <2> QED BY <2>1, <2>2, <2>3 DEF Map!Ascending
<1>10. a = [ i \in DOMAIN ks |-> <<ks[i], m[ks[i]]>> ]
  <2>1. \A i \in 1..n : a[i] = <<ks[i], m[ks[i]]>> BY <1>2, <1>4
  <2> QED BY <1>1, <1>4, <2>1
<1> QED BY <1>9, <1>10

-----------------------------------------------------------------------------
(* What a client sees.                                                     *)

(* Between calls, and when a call has taken effect, it is the map that the *)
(* blocks hold, and no other is.                                           *)
SeenHeld ==
  call.pc \in Outside \/ Effective =>
    /\ IsMap(Visible) /\ Agrees(Visible, Settled, Exists)
    /\ \A m : IsMap(m) /\ Agrees(m, Settled, Exists) => Visible = m

(* A call that has taken effect has made of the map what it should, and    *)
(* has its answer.                                                         *)
SeenChanged ==
  Effective =>
    /\ IsMap(before) /\ call.req \in Request
    /\ Visible = After(before, call.req)
    /\ RightAnswer(call.req, call.answer, before)

SeenRight == SeenHeld /\ SeenChanged /\ Asking(call) /\ Unopened

LEMMA SeenFits == ASSUME Good, Kept PROVE SeenRight
<1>1. /\ call.req \in Request \cup {NoRequest}
      /\ tree.root_exists \in BOOLEAN /\ header.root_exists \in BOOLEAN
  BY Running DEF Good, Metadata
<1>2. Exists \in BOOLEAN BY <1>1 DEF Exists
<1>3. ASSUME call.pc \in {"closed", "idle", "return"}, todo = <<>> PROVE SeenHeld
  <2>1. Visible = Holds(Exists) BY <1>3 DEF Visible, Exists
  <2>2. Settled = blocks BY <1>3, PlanNone DEF Settled
  <2>3. call.pc \in Resting BY <1>3 DEF Resting
  <2> DEFINE e == Exists
  <2>4. e \in BOOLEAN /\ e = Exists BY <1>2
  <2> HIDE DEF e
  <2>5. /\ IsMap(Holds(e)) /\ Agrees(Holds(e), blocks, e)
        /\ \A m : IsMap(m) /\ Agrees(m, blocks, e) => Holds(e) = m
    BY <1>3, <2>3, <2>4, SeenAtRest
  <2> QED BY <2>1, <2>2, <2>4, <2>5 DEF SeenHeld
<1>4. ASSUME call.pc = "opening" PROVE SeenHeld
  <2>1. ~header.root_exists /\ ~tree.root_exists BY <1>4 DEF Kept, Unopened
  <2>2. Visible = Nothing BY <1>4, <2>1 DEF Visible, Holds, Nothing
  <2>3. ~Exists BY <1>4, <2>1 DEF Exists
  <2>4. \A m : Agrees(m, Settled, Exists) <=> m = Nothing BY <2>3 DEF Agrees
  <2> QED BY <2>2, <2>4, NothingMap DEF SeenHeld
<1>5. SeenHeld
  <2>1. call.pc \in {"closed", "idle"} => todo = <<>> BY DEF Good, IInv, InvIn, NothingPending
  <2>2. Effective => call.pc = "return" /\ todo = <<>> BY DEF Effective
  <2>3. call.pc \in Outside <=> call.pc \in {"closed", "idle", "opening"} BY DEF Outside
  <2>4. ~(call.pc \in Outside \/ Effective) => SeenHeld BY DEF SeenHeld
  <2> QED BY <1>3, <1>4, <2>1, <2>2, <2>3, <2>4
<1>6. ASSUME Effective
      PROVE  /\ IsMap(before) /\ call.req \in Request
             /\ Visible = After(before, call.req)
             /\ RightAnswer(call.req, call.answer, before)
  <2>1. call.pc = "return" /\ call.pc \notin Outside /\ call.pc \in Results
    BY <1>6 DEF Effective, Outside, Results
  <2>2. IsMap(before) /\ Agrees(After(before, call.req), Settled, tree.root_exists)
    BY <2>1 DEF Kept, Contents
  <2>3. call.req # NoRequest BY <2>1 DEF Kept, Asking
  <2>4. call.req \in Request BY <1>1, <2>3
  <2>5. IsMap(After(before, call.req)) BY <2>2, <2>4, AfterMap
  <2>6. Exists = tree.root_exists BY <2>1 DEF Exists
  <2>7. Visible = After(before, call.req) BY <1>5, <1>6, <2>2, <2>5, <2>6 DEF SeenHeld
  <2>8. RightAnswer(call.req, call.answer, before) BY <2>1 DEF Kept, Answers
  <2> QED BY <2>2, <2>4, <2>7, <2>8
<1> QED BY <1>5, <1>6 DEF SeenRight, SeenChanged, Kept

(* The same, to be said of the next state as well.                         *)
LEMMA Seen == IInvMap /\ NoFaults => SeenRight
BY SeenFits, BeforeFailure DEF IInvMap, MapKept

(* What is held has not changed: nor has what is seen.                     *)
LEMMA SeenAgain ==
  ASSUME SeenHeld, SeenHeld', call.pc \in Outside \/ Effective,
         (call.pc \in Outside \/ Effective)',
         Exists' = Exists, Exists => Settled' = Settled
  PROVE  Visible' = Visible
<1>1. /\ IsMap(Visible') /\ Agrees(Visible', Settled', Exists')
  BY DEF SeenHeld
<1>2. Agrees(Visible', Settled, Exists) BY <1>1 DEF Agrees
<1> QED BY <1>1, <1>2 DEF SeenHeld

(* The map and the answer that a client is shown.                          *)
Shown == IF call.req = NoRequest \/ Effective THEN Visible ELSE before
Given == IF Effective THEN call.answer ELSE None

(* Effective is a truth value in either case, and decides the answer shown.  *)
LEMMA NotEffective == ~Effective => Effective = FALSE /\ Given = None
BY DEF Effective, Given

LEMMA IsEffective == Effective => Effective = TRUE /\ Given = call.answer
BY DEF Effective, Given

(* A step that the map does not see.                                       *)
LEMMA MapStutters ==
  ASSUME call'.req = call.req, Shown' = Shown, ~Effective, ~Effective'
  PROVE  UNCHANGED Map!vars
<1>1. Effective = FALSE /\ Given = None BY NotEffective
<1>2. Effective' = FALSE /\ Given' = None BY DEF Effective, Given
<1>3. UNCHANGED <<Shown, call.req, Effective, Given>> BY <1>1, <1>2
<1> QED BY <1>3 DEF Map!vars, Shown, Given

(* The step by which a call takes effect.                                  *)
LEMMA MapPerforms ==
  ASSUME call.req \in Request, IsMap(before), ~Effective, Effective', SeenChanged',
         call'.req = call.req, before' = before
  PROVE  Map!Perform
<1> DEFINE r == call.req
           a == call'.answer
<1>1. r # NoRequest /\ r # Map!NoRequest BY DEF Request, NoRequest, Map!NoRequest
<1>2. Visible' = After(before, r) /\ RightAnswer(r, a, before) BY DEF SeenChanged
<1>3. Shown = before /\ Shown' = After(before, r) BY <1>1, <1>2 DEF Shown
<1>4. Effective' = TRUE /\ Given' = a BY DEF Effective, Given
<1>5. \A k : Map!Lookup(k) = ValueOf(before, k) BY <1>3 DEF Map!Lookup, ValueOf, Shown
<1>6. \A k, v : Map!Put(k, v) = WithKey(before, k, v) BY <1>3 DEF Map!Put, WithKey, Shown
<1>7. r.op \in {"get", "range", "clear", "upsert", "update", "delete", "delete_safe"}
  BY DEF Request
<1>8. r.op \in ByKey => Given' = Map!Lookup(r.key) BY <1>2, <1>4, <1>5 DEF RightAnswer
<1>9. CASE r.op = "upsert"
  <2>1. Given' = Map!Lookup(r.key) BY <1>8, <1>9 DEF ByKey
  <2>2. Shown' = Map!Put(r.key, r.val) BY <1>3, <1>6, <1>9, AfterByKey
  <2> QED BY <1>1, <1>4, <1>9, <2>1, <2>2 DEF Map!Perform, Shown, Given
<1>10. CASE r.op = "update"
  <2>1. Given' = Map!Lookup(r.key) BY <1>8, <1>10 DEF ByKey
  <2>2. Shown' = IF r.key \in DOMAIN Shown THEN Map!Put(r.key, r.val) ELSE Shown
    BY <1>3, <1>6, <1>10, AfterByKey
  <2> QED BY <1>1, <1>4, <1>10, <2>1, <2>2 DEF Map!Perform, Shown, Given
<1>11. CASE r.op \in {"delete", "delete_safe"}
  <2>1. Given' = Map!Lookup(r.key) BY <1>8, <1>11 DEF ByKey
  <2>2. Shown' = WithoutKey(before, r.key) BY <1>3, <1>11, AfterByKey
  <2>3. Shown' = [ k \in DOMAIN Shown \ {r.key} |-> Shown[k] ] BY <1>3, <2>2 DEF WithoutKey
  <2> QED BY <1>1, <1>4, <1>11, <2>1, <2>3 DEF Map!Perform, Shown, Given
<1>12. CASE r.op = "clear"
  <2>1. Given' = None BY <1>2, <1>4, <1>12 DEF RightAnswer
  <2>2. Shown' = [ k \in {} |-> None ] BY <1>3, <1>12, AfterByKey DEF Nothing
  <2> QED BY <1>1, <1>4, <1>12, <2>1, <2>2 DEF Map!Perform, Shown, Given
<1>13. CASE r.op = "get"
  <2>1. Given' = Map!Lookup(r.key) BY <1>8, <1>13 DEF ByKey
  <2>2. Shown' = Shown BY <1>3, <1>13, AfterByKey
  <2> QED BY <1>1, <1>4, <1>13, <2>1, <2>2 DEF Map!Perform, Shown, Given
<1>14. CASE r.op = "range"
  <2>1. a \in Entries /\ Lists(r, a, before, Key) BY <1>2, <1>14 DEF RightAnswer
  <2> DEFINE S == { k \in DOMAIN before : Asked(r, k) }
  <2>2. S = { k \in DOMAIN before : Asked(r, k) } OBVIOUS
  <2>3. S = { k \in DOMAIN Shown : Map!InRange(k, call.req) } BY <1>3 DEF Asked
  <2> HIDE DEF S, r, a
  <2>4. PICK ks \in Map!Ascending(S) : a = [ i \in DOMAIN ks |-> <<ks[i], before[ks[i]]>> ]
    BY <2>1, <2>2, ListedInOrder, SMTT(20)
  <2>5. Given' = [ i \in DOMAIN ks |-> <<ks[i], Shown[ks[i]]>> ] BY <1>3, <1>4, <2>4
  <2>6. \E x \in Map!Ascending({ k \in DOMAIN Shown : Map!InRange(k, call.req) }) :
          Given' = [ i \in DOMAIN x |-> <<x[i], Shown[x[i]]>> ]
    BY <2>3, <2>5, <2>4
  <2>7. Shown' = Shown BY <1>3, <1>14, AfterByKey DEF r
  <2> QED BY <1>1, <1>4, <1>14, <2>6, <2>7 DEF Map!Perform, Shown, Given, r
<1> QED BY <1>7, <1>9, <1>10, <1>11, <1>12, <1>13, <1>14

-----------------------------------------------------------------------------
(* Every step of the tree is a step of the map or none.                    *)

(* Until it has taken effect a call stays the same call.                   *)
SameCall == call'.req = call.req /\ call'.pc \notin Outside

(* Answering does not end a call,                                          *)
LEMMA AnswerSame == ASSUME call \in Calls, NEW a, call' = Answer(a) PROVE SameCall
BY DEF Calls, CallsIn, Answer, SameCall, Outside

(* and no other step of it does before it has taken effect.                *)
LEMMA CallGoesOn ==
  ASSUME Good, FullFits, CallStep, call.pc \notin Outside, ~Effective
  PROVE  SameCall
<1>1. call \in Calls BY Running DEF Good
<1>2. CASE StorageCall BY <1>2 DEF StorageCall, SameCall
<1>3. CASE Opened BY <1>3 DEF Opened, Runs, Outside
<1>4. CASE Return BY <1>4 DEF Return, Runs, Effective
<1>5. CASE StartOnTree BY <1>1, <1>5 DEF StartOnTree, Calls, CallsIn, SameCall, Outside
<1>6. CASE StartOnEmptyTree BY <1>1, <1>6, AnswerSame DEF StartOnEmptyTree
<1>7. CASE Search
  <2>1. CASE Descend
    <3>1. call.pc = "descend" BY <2>1 DEF Descend, Runs
    <3> QED BY <1>1, <2>1, <3>1 DEF Descend, Calls, CallsIn, SameCall, Outside
  <2>2. CASE GetFromLeaf BY <1>1, <2>2, AnswerSame DEF GetFromLeaf
  <2>3. CASE ScanLeaf
    <3> DEFINE n == blocks[call.at]
               acc == call.answer \o AskedFrom(n)
    <3>1. \/ call' = Answer(acc)
          \/ call' = [ call EXCEPT !.pc = "scan", !.at = n.next_leaf,
                                   !.stack = <<>>, !.answer = acc ]
      BY <2>3 DEF ScanLeaf, AskedFrom, FirstAsked, LastAsked
    <3> HIDE DEF n, acc
    <3> QED BY <1>1, <3>1, AnswerSame DEF Calls, CallsIn, SameCall, Outside
  <2> QED BY <1>7, <2>1, <2>2, <2>3 DEF Search
<1>8. CASE Insert
  <2>1. CASE UpdateMissing BY <1>1, <2>1, AnswerSame DEF UpdateMissing
  <2>2. ASSUME NEW res, NEW path, AfterInsert(res, path) PROVE SameCall
    BY <1>1, <2>2 DEF AfterInsert, Calls, CallsIn, SameCall, Outside
  <2>3. CASE InsertIntoLeaf BY <2>2, <2>3 DEF InsertIntoLeaf
  <2>4. CASE InsertIntoParent BY <2>2, <2>4 DEF InsertIntoParent
  <2>5. CASE FinishInsert BY <1>1, <2>5, AnswerSame DEF FinishInsert
  <2> QED BY <1>8, <2>1, <2>3, <2>4, <2>5 DEF Insert
<1>9. CASE Delete
  <2>1. CASE DeleteFromLeaf
    BY <1>1, <2>1 DEF DeleteFromLeaf, Calls, CallsIn, SameCall, Outside
  <2>2. CASE SaveAncestor
    BY <1>1, <2>2 DEF SaveAncestor, Runs, Calls, CallsIn, SameCall, Outside
  <2>3. CASE HandleChildUnderflow
    BY <1>1, <2>3 DEF HandleChildUnderflow, Calls, CallsIn, SameCall, Outside
  <2>4. CASE CheckParent
    BY <1>1, <2>4 DEF CheckParent, Calls, CallsIn, SameCall, Outside
  <2>5. CASE DeleteNothing BY <1>1, <2>5, AnswerSame DEF DeleteNothing
  <2>6. CASE CountDeleted BY <1>1, <2>6 DEF CountDeleted, Calls, CallsIn, SameCall, Outside
  <2>7. CASE FinishDelete BY <1>1, <2>7, AnswerSame DEF FinishDelete
  <2> QED BY <1>9, <2>1, <2>2, <2>3, <2>4, <2>5, <2>6, <2>7, NeverRolledBack DEF Delete
<1>10. CASE Clear
  <2>1. CASE ClearInternal
    BY <1>1, <2>1 DEF ClearInternal, Runs, Calls, CallsIn, SameCall, Outside
  <2>2. CASE ClearLeaf BY <1>1, <2>2 DEF ClearLeaf, Calls, CallsIn, SameCall, Outside
  <2>3. CASE ClearNext
    BY <1>1, <2>3 DEF ClearNext, Runs, Calls, CallsIn, SameCall, Outside
  <2>4. CASE FinishClear BY <1>1, <2>4, AnswerSame DEF FinishClear
  <2> QED BY <1>10, <2>1, <2>2, <2>3, <2>4 DEF Clear
<1>11. ~BlockNotFound /\ ~InvalidBlockSize /\ ~BlockCorrupted /\ ~Panic
  BY NeverNotFound, NeverTooLong, NeverCorrupted
<1> QED
  BY <1>2, <1>3, <1>4, <1>5, <1>6, <1>7, <1>8, <1>9, <1>10, <1>11 DEF CallStep

(* A step within a call shows nothing, or the call takes effect.           *)
LEMMA CallShown ==
  ASSUME Good, FullFits, Kept, SeenRight', HistoryNext,
         CallStep, call.pc \notin Outside, ~Effective
  PROVE  [Map!Next]_(Map!vars)
<1>1. SameCall BY CallGoesOn
<1>2. before' = before BY DEF HistoryNext, Begins, Returns, Effective, Outside
<1>3. IsMap(before) /\ call.req # NoRequest /\ call.req \in Request
  <2>1. call.req \in Request \cup {NoRequest} BY Running DEF Good
  <2> QED BY <2>1 DEF Kept, Asking, Contents
<1>4. CASE Effective'
  <2>1. Map!Perform BY <1>1, <1>2, <1>3, <1>4, MapPerforms DEF SameCall, SeenRight
  <2> QED BY <2>1 DEF Map!Next
<1>5. CASE ~Effective'
  <2>1. Shown' = Shown BY <1>1, <1>2, <1>3, <1>5 DEF Shown, SameCall
  <2>2. UNCHANGED Map!vars BY <1>1, <1>5, <2>1, MapStutters DEF SameCall
  <2> QED BY <2>2
<1> QED BY <1>4, <1>5

(* Between calls the handle is opened and closed, which shows nothing.     *)
LEMMA QuietShown ==
  ASSUME SeenRight, SeenRight', call.pc \in Outside, call'.pc \in Outside,
         Exists' = Exists, Exists => Settled' = Settled
  PROVE  UNCHANGED Map!vars
<1>1. call.req = NoRequest /\ call'.req = NoRequest BY DEF SeenRight, Asking
<1>2. ~Effective /\ ~Effective' BY DEF Effective, Outside
<1>3. Visible' = Visible BY SeenAgain DEF SeenRight
<1>4. Shown' = Shown BY <1>1, <1>3 DEF Shown
<1> QED BY <1>1, <1>2, <1>4, MapStutters

(* Opening an index changes nothing that a client sees: what the file holds,  *)
LEMMA OpenShown ==
  ASSUME Good, SeenRight, SeenRight', Open
  PROVE  UNCHANGED Map!vars
<1>1. call.pc = "closed" /\ call.pc \in Outside /\ header' = header /\ blocks' = blocks
  BY DEF Open, Outside, OpenStorage, disk
<1>2. todo = <<>> BY <1>1 DEF Good, IInv, InvIn, NothingPending
<1>3. Exists = header.root_exists BY <1>1 DEF Exists
<1>4. CASE ROOT_ID \in DOMAIN blocks
  <2>1. call'.pc = "idle" /\ tree' = header /\ todo' = todo BY <1>4 DEF Open, Blank
  <2>2. Exists' = Exists BY <1>3, <2>1 DEF Exists
  <2>3. Settled' = Settled BY <1>1, <2>1 DEF Settled
  <2> QED BY <1>1, <2>1, <2>2, <2>3, QuietShown DEF Outside
<1>5. CASE ROOT_ID \notin DOMAIN blocks
  <2>1. call'.pc = "opening" /\ tree' = EmptyTree BY <1>5 DEF Open, Blank
  <2>2. ~header.root_exists BY <1>1, <2>1 DEF SeenRight, Unopened
  <2>3. header.root_exists \in BOOLEAN BY Running DEF Good, Metadata
  <2>4. Exists = FALSE BY <1>3, <2>2, <2>3
  <2>5. Exists' = FALSE BY <2>1 DEF Exists, EmptyTree
  <2> QED BY <1>1, <2>1, <2>4, <2>5, QuietShown DEF Outside
<1> QED BY <1>4, <1>5

(* or what open has just written for a new index,                          *)
LEMMA OpenedShown ==
  ASSUME Good, SeenRight, SeenRight', Opened
  PROVE  UNCHANGED Map!vars
<1>1. /\ call.pc = "opening" /\ call'.pc = "idle"
      /\ tree' = tree /\ todo' = todo /\ blocks' = blocks
  BY DEF Opened, Runs, NoStorageCall, Blank
<1>2. Exists' = Exists BY <1>1 DEF Exists
<1>3. Settled' = Settled BY <1>1 DEF Settled
<1> QED BY <1>1, <1>2, <1>3, QuietShown DEF Outside

(* and closing it, with nothing left to write, does not either.            *)
LEMMA CloseShown ==
  ASSUME Good, SeenRight, SeenRight', Close
  PROVE  UNCHANGED Map!vars
<1>1. /\ call.pc = "idle" /\ call'.pc = "closed" /\ todo' = <<>>
      /\ header' = header /\ blocks' = blocks
  BY DEF Close, Forget, Closed, disk
<1>2. todo = <<>> BY <1>1 DEF Good, IInv, InvIn, NothingPending
<1>3. tree = header
  <2>1. ~SavesRoot(todo) BY <1>2 DEF SavesRoot
  <2> QED BY <1>1, <2>1 DEF Good, Sound, HeaderFollows
<1>4. Exists' = Exists BY <1>1, <1>3 DEF Exists
<1>5. Settled' = Settled BY <1>1, <1>2 DEF Settled
<1> QED BY <1>1, <1>4, <1>5, QuietShown DEF Outside

(* A storage call while the tree is opened.                                *)
LEMMA OpeningShown ==
  ASSUME Good, SeenRight, SeenRight', StorageCall, call.pc \in Outside
  PROVE  UNCHANGED Map!vars
<1>1. call' = call /\ tree' = tree /\ todo # <<>> BY DEF StorageCall
<1>2. call.pc = "opening" BY <1>1 DEF Good, IInv, InvIn, NothingPending, Outside
<1>3. Exists' = Exists BY <1>1, <1>2 DEF Exists
<1>4. Settled' = Settled BY StorageCallSettled DEF Good, Sound
<1> QED BY <1>1, <1>3, <1>4, QuietShown

(* A call is invoked.                                                      *)
LEMMA InvokeShown ==
  ASSUME SeenRight, HistoryNext, NEW r \in Requests, Invoke(r)
  PROVE  Map!Invoke(r)
<1>1. /\ call.pc = "idle" /\ call'.pc = "start" /\ call'.req = r
  BY DEF Invoke, Blank
<1>2. call.req = NoRequest BY <1>1 DEF SeenRight, Asking, Outside
<1>3. r # NoRequest BY RequestsAssumption DEF Request, NoRequest
<1>4. before' = Visible BY <1>1 DEF HistoryNext, Begins
<1>5. Effective = FALSE /\ Effective' = FALSE /\ Given = None /\ Given' = None
  BY <1>1 DEF Effective, Given
<1>6. Shown' = Shown BY <1>1, <1>2, <1>3, <1>4, <1>5 DEF Shown
<1>7. Map!NoRequest = NoRequest BY DEF Map!NoRequest, NoRequest
<1>8. UNCHANGED <<Shown, Effective, Given>> BY <1>5, <1>6
<1> QED BY <1>1, <1>2, <1>7, <1>8 DEF Map!Invoke, Shown, Given

(* A call returns.                                                         *)
LEMMA ReturnShown ==
  ASSUME SeenRight, SeenRight', Return
  PROVE  Map!Return
<1>1. /\ call.pc = "return" /\ todo = <<>> /\ call'.pc = "idle" /\ call'.req = NoRequest
      /\ tree' = tree /\ todo' = todo /\ blocks' = blocks
  BY DEF Return, Runs, NoStorageCall, Blank
<1>2. Effective = TRUE /\ Effective' = FALSE /\ Given' = None
  BY <1>1 DEF Effective, Given
<1>3. Exists' = Exists BY <1>1 DEF Exists
<1>4. Settled' = Settled BY <1>1 DEF Settled
<1>5. call'.pc \in Outside BY <1>1 DEF Outside
<1>6. Visible' = Visible BY <1>2, <1>3, <1>4, <1>5, SeenAgain DEF SeenRight
<1>7. Shown' = Shown BY <1>1, <1>2, <1>6 DEF Shown
<1>8. Map!NoRequest = NoRequest BY DEF Map!NoRequest, NoRequest
<1> QED BY <1>1, <1>2, <1>7, <1>8 DEF Map!Return, Shown, Given

(* A handler runs within a call that has not taken effect.                 *)
LEMMA WithinCall ==
  ASSUME Good, StartOnTree \/ StartOnEmptyTree \/ Search \/ Insert \/ Delete \/ Clear
  PROVE  call.pc \notin Outside /\ ~Effective
<1> DEFINE Handling == call.pc \in {"start", "descend", "scan", "insert_up", "delete_up",
                                    "reload", "root_underflow", "clear", "clear_up"}
<1>1. StartOnTree \/ StartOnEmptyTree => Handling
  BY SMTT(20) DEF StartOnTree, StartOnEmptyTree, Runs
<1>2. Search => Handling BY DEF Search, Descend, GetFromLeaf, ScanLeaf, AtLeaf, Runs
<1>3. Insert => Handling
  BY DEF Insert, UpdateMissing, InsertIntoLeaf, InsertIntoParent, FinishInsert, AtLeaf, Runs
<1>4. Delete => Handling
  BY NeverRolledBack
     DEF Delete, DeleteFromLeaf, SaveAncestor, HandleChildUnderflow, Rebalances, CheckParent,
         DeleteNothing, CountDeleted, FinishDelete, AtLeaf, Runs
<1>5. Clear => Handling
  BY SMTT(20) DEF Clear, ClearInternal, ClearLeaf, ClearNext, FinishClear, Runs
<1>6. Handling BY <1>1, <1>2, <1>3, <1>4, <1>5
<1> QED BY <1>6 DEF Outside, Effective

(* Every step.                                                             *)
LEMMA NextShown ==
  ASSUME FullFits, IInvMap, NoFaults, NoFaults', SeenRight, SeenRight', Next, HistoryNext
  PROVE  [Map!Next]_(Map!vars)
<1>1. Good /\ Kept BY BeforeFailure DEF IInvMap, MapKept
<1>2. ~StorageFails /\ ~Crash BY FaultsCount DEF IInvMap, IInvIntact
<1>3. CASE Open BY <1>1, <1>3, OpenShown
<1>4. CASE Close BY <1>1, <1>4, CloseShown
<1>5. CASE \E r \in Requests : Invoke(r)
  <2>1. PICK r \in Requests : Invoke(r) BY <1>5
  <2>2. Map!Invoke(r) BY <2>1, InvokeShown
  <2> QED BY <2>2 DEF Map!Next
<1>6. CASE CallStep
  <2>1. CASE Return
    <3>1. Map!Return BY <2>1, ReturnShown
    <3> QED BY <3>1 DEF Map!Next
  <2>2. CASE Opened BY <1>1, <2>2, OpenedShown
  <2>3. CASE call.pc \in Outside /\ StorageCall BY <1>1, <2>3, OpeningShown
  <2>4. CASE call.pc \notin Outside /\ ~Effective BY <1>1, <1>6, <2>4, CallShown
  <2>5. CASE StorageCall /\ call.pc \notin Outside
    <3>1. ~Effective BY <2>5 DEF StorageCall, Effective
    <3> QED BY <2>4, <2>5, <3>1
  <2>6. CASE StartOnTree \/ StartOnEmptyTree \/ Search \/ Insert \/ Delete \/ Clear
    BY <1>1, <2>4, <2>6, WithinCall
  <2>7. ~BlockNotFound /\ ~InvalidBlockSize /\ ~BlockCorrupted /\ ~Panic
    BY <1>1, NeverNotFound, NeverTooLong, NeverCorrupted
  <2> QED BY <1>6, <2>1, <2>2, <2>3, <2>5, <2>6, <2>7 DEF CallStep
<1> QED BY <1>2, <1>3, <1>4, <1>5, <1>6 DEF Next

(* A step that changes nothing shows nothing.                              *)
LEMMA NothingShown == ASSUME UNCHANGED allvars, SeenRight, SeenRight' PROVE UNCHANGED Map!vars
<1>1. /\ call' = call /\ todo' = todo /\ tree' = tree /\ header' = header /\ blocks' = blocks
      /\ before' = before
  BY DEF allvars, vars
<1>2. (Effective' <=> Effective) /\ Given' = Given BY <1>1 DEF Effective, Given
<1>3. Exists' = Exists /\ Settled' = Settled BY <1>1 DEF Exists, Settled
<1>4. Effective => Visible' = Visible BY <1>2, <1>3, SeenAgain DEF SeenRight
<1>5. call.req = NoRequest <=> call.pc \in Outside BY DEF SeenRight, Asking
<1>6. call.req = NoRequest => Visible' = Visible
  BY <1>1, <1>3, <1>5, SeenAgain DEF SeenRight
<1>7. Shown' = Shown BY <1>1, <1>2, <1>4, <1>6 DEF Shown
<1>8. Effective' = Effective BY <1>2 DEF Effective
<1>9. UNCHANGED <<Shown, call.req, Effective, Given>> BY <1>1, <1>2, <1>7, <1>8
<1> QED BY <1>9 DEF Map!vars, Shown, Given

(* The first state shows the empty map.                                    *)
LEMMA InitShown == ASSUME Init, HistoryInit, SeenRight PROVE Map!Init
<1>1. /\ call.req = NoRequest /\ call.pc = "closed" /\ ~header.root_exists
  BY DEF Init, Closed, Blank, EmptyTree
<1>2. Visible = Nothing BY <1>1 DEF Visible, Holds, Nothing
<1>3. Effective = FALSE /\ Given = None BY <1>1 DEF Effective, Given
<1>4. Shown = [ k \in {} |-> None ] BY <1>1, <1>2 DEF Shown, Nothing
<1>5. Map!NoRequest = NoRequest BY DEF Map!NoRequest, NoRequest
<1> QED BY <1>1, <1>3, <1>4, <1>5 DEF Map!Init, Shown, Given

(* As long as nothing fails the tree acts as an ordered map: every call    *)
(* takes effect at one instant, when its last storage call has been made,  *)
(* with the answer the map gives and leaving what the map leaves, whatever *)
(* splitting, borrowing, merging, clearing, closing and opening went on.   *)
THEOREM TreeActsAsMap == ASSUME FullFits PROVE HistorySpec /\ []NoFaults => ActsAsOrderedMap
<1>1. HistorySpec => []IInvMap BY AlwaysMap
<1>2. IInvMap /\ NoFaults => SeenRight BY Seen
<1>3. (IInvMap /\ NoFaults)' => SeenRight' BY <1>2, PTL
<1>4. IInvMap /\ NoFaults /\ NoFaults' /\ SeenRight /\ SeenRight' /\ [Next /\ HistoryNext]_allvars
        => [Map!Next]_(Map!vars)
  BY NextShown, NothingShown
<1>5. Init /\ HistoryInit /\ SeenRight => Map!Init BY InitShown
<1>6. ActsAsOrderedMap <=> Map!Init /\ [][Map!Next]_(Map!vars)
  BY DEF ActsAsOrderedMap, Map!SafeSpec
<1> QED BY <1>1, <1>2, <1>3, <1>4, <1>5, <1>6, PTL DEF HistorySpec
=============================================================================
