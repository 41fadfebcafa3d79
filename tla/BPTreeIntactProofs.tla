-------------------------- MODULE BPTreeIntactProofs --------------------------
(***************************************************************************)
(* As long as nothing fails the blocks are a B+ tree, at every step of     *)
(* every call: the invariant Intact of BPTreeIntact, for every set of keys *)
(* and values, every capacity of the nodes and every sequence of calls.    *)
(***************************************************************************)
EXTENDS BPTreeIntact, NodeSizes, BPTreeProofs, TreeShapeProofs, WellFoundedInduction

-----------------------------------------------------------------------------
(* Half of what a node may hold, and half of one more.                     *)
LEMMA Capacity ==
  /\ MaxKeys \in Nat /\ MaxKeys >= 2 /\ MinKeys \in Nat
  /\ (MaxKeys + 1) \div 2 = MinKeys + 1
  /\ MinKeys + MinKeys + 1 <= MaxKeys
  /\ MaxKeys <= MinKeys + MinKeys + 2
<1> DEFINE h == (MaxKeys + 1) \div 2
<1>1. MaxKeys \in Nat /\ MaxKeys >= 2 BY MaxKeysAssumption
<1>2. h \in Nat /\ 2 * h <= MaxKeys + 1 /\ MaxKeys + 1 <= 2 * h + 1 BY <1>1
<1>3. MinKeys = h - 1 BY DEF MinKeys
<1> HIDE DEF h
<1>4. h >= 1 BY <1>1, <1>2
<1> QED BY <1>1, <1>2, <1>3, <1>4 DEF h

-----------------------------------------------------------------------------
(* What the storage calls of a plan come to, and that they can be made.    *)

(* No calls at all.                                                        *)
LEMMA PlanNone ==
  ASSUME NEW B, NEW f
  PROVE  Doable(B, f, <<>>) /\ Settle(B, <<>>) = B
BY DEF Doable, Settle

(* C is B with the node n in the block id.                                 *)
Put(B, C, id, n) ==
  DOMAIN C = DOMAIN B \cup {id} /\ C[id] = n /\ \A b \in DOMAIN B \ {id} : C[b] = B[b]

(* Saving a node comes to putting it there.                                *)
LEMMA EffectOfSave ==
  ASSUME NEW B, NEW id, NEW n
  PROVE  Put(B, Effect(B, Save(id, n)), id, n)
BY DEF Effect, Save, Put

(* One node saved.                                                         *)
LEMMA PlanSave ==
  ASSUME NEW B, NEW f, NEW id \in DOMAIN B \cup {ROOT_ID}, NEW n, Len(n.keys) <= MaxKeys
  PROVE  /\ Doable(B, f, <<Save(id, n)>>)
         /\ Put(B, Settle(B, <<Save(id, n)>>), id, n)
         /\ id = ROOT_ID => SavesRoot(<<Save(id, n)>>)
<1> DEFINE t == <<Save(id, n)>>
<1>1. t # <<>> /\ Len(t) = 1 /\ DOMAIN t = {1} /\ t[1] = Save(id, n) OBVIOUS
<1> HIDE DEF t
<1>2. Doable(B, f, t) BY <1>1 DEF Doable, Save
<1>3. Settle(B, t) = Effect(B, Save(id, n)) BY <1>1 DEF Settle
<1>4. id = ROOT_ID => SavesRoot(t) BY <1>1 DEF SavesRoot, Save
<1> QED BY <1>2, <1>3, <1>4, EffectOfSave DEF t

(* The same node saved twice.                                              *)
LEMMA PlanSaveTwice ==
  ASSUME NEW B, NEW f, NEW id \in DOMAIN B \cup {ROOT_ID}, NEW n, Len(n.keys) <= MaxKeys
  PROVE  /\ Doable(B, f, <<Save(id, n), Save(id, n)>>)
         /\ Put(B, Settle(B, <<Save(id, n), Save(id, n)>>), id, n)
         /\ id = ROOT_ID => SavesRoot(<<Save(id, n), Save(id, n)>>)
<1> DEFINE t == <<Save(id, n), Save(id, n)>>
           C == Effect(B, Save(id, n))
<1>1. /\ t # <<>> /\ Len(t) = 2 /\ DOMAIN t = {1, 2}
      /\ t[1] = Save(id, n) /\ t[2] = Save(id, n)
  OBVIOUS
<1> HIDE DEF t
<1>2. Doable(B, f, t) BY <1>1 DEF Doable, Save
<1>3. Settle(B, t) = Effect(C, Save(id, n)) BY <1>1 DEF Settle
<1> HIDE DEF C
<1>4. Put(B, C, id, n) /\ Put(C, Effect(C, Save(id, n)), id, n) BY EffectOfSave DEF C
<1>5. Put(B, Settle(B, t), id, n) BY <1>3, <1>4 DEF Put
<1>6. id = ROOT_ID => SavesRoot(t) BY <1>1 DEF SavesRoot, Save
<1> QED BY <1>2, <1>5, <1>6 DEF t

(* A block freed.                                                          *)
LEMMA PlanFree ==
  ASSUME NEW B, NEW f, NEW id \in DOMAIN B
  PROVE  /\ Doable(B, f, <<Free(id)>>)
         /\ DOMAIN Settle(B, <<Free(id)>>) = DOMAIN B \ {id}
         /\ \A b \in DOMAIN B \ {id} : Settle(B, <<Free(id)>>)[b] = B[b]
<1> DEFINE t == <<Free(id)>>
<1>1. t # <<>> /\ Len(t) = 1 /\ DOMAIN t = {1} /\ t[1] = Free(id) OBVIOUS
<1>2. Len(<<>>) <= MaxKeys BY Capacity
<1> HIDE DEF t
<1>3. Doable(B, f, t) BY <1>1, <1>2 DEF Doable, Free, NewLeaf
<1>4. Settle(B, t) = Effect(B, Free(id)) BY <1>1 DEF Settle
<1>5. Settle(B, t) = [ b \in DOMAIN B \ {id} |-> B[b] ] BY <1>4 DEF Effect, Free
<1> QED BY <1>3, <1>5 DEF t

(* C is B with the node l in the block id and r in one block more, f.      *)
PutTwo(B, C, f, id, l, r) ==
  /\ DOMAIN C = DOMAIN B \cup {f} /\ C[f] = r /\ C[id] = l
  /\ \A b \in DOMAIN B \ {id} : C[b] = B[b]

(* A node split: a new block for its right half.                           *)
LEMMA PlanSplit ==
  ASSUME FreshBlock \notin DOMAIN blocks, NEW id \in DOMAIN blocks,
         NEW l, NEW r
  PROVE  /\ PutTwo(blocks, Settle(blocks, SplitWrites(id, l, r)), FreshBlock, id, l, r)
         /\ id = ROOT_ID => SavesRoot(SplitWrites(id, l, r))
         /\ Len(l.keys) <= MaxKeys /\ Len(r.keys) <= MaxKeys =>
              Doable(blocks, FreshBlock, SplitWrites(id, l, r))
<1> DEFINE B == blocks
           f == FreshBlock
           a == Allocate
           t == SplitWrites(id, l, r)
           C1 == Effect(B, a)
           C2 == Effect(C1, Save(f, r))
           C3 == Effect(C2, Save(id, l))
<1>1. /\ t # <<>> /\ Len(t) = 3 /\ DOMAIN t = {1, 2, 3}
      /\ t[1] = a /\ t[2] = Save(f, r) /\ t[3] = Save(id, l)
  BY DEF SplitWrites
<1>2. Len(<<>>) <= MaxKeys BY Capacity
<1>0. a = [ do |-> "allocate", id |-> f, node |-> NewLeaf ] BY DEF Allocate
<1> HIDE DEF a, f, t
<1>3. ASSUME Len(l.keys) <= MaxKeys, Len(r.keys) <= MaxKeys PROVE Doable(B, f, t)
  BY <1>0, <1>1, <1>2, <1>3 DEF Doable, Save, NewLeaf, f
<1>4. Settle(B, t) = C3 BY <1>1 DEF Settle
<1>5. Put(B, C1, f, NewLeaf) BY <1>0 DEF Effect, Put
<1>6. Put(C1, C2, f, r) BY EffectOfSave
<1>7. Put(C2, C3, id, l) BY EffectOfSave
<1> HIDE DEF C1, C2, C3
<1>8. PutTwo(B, C3, f, id, l, r) BY <1>5, <1>6, <1>7 DEF Put, PutTwo, f
<1>9. id = ROOT_ID => SavesRoot(t) BY <1>1 DEF SavesRoot, Save
<1> QED BY <1>3, <1>4, <1>8, <1>9 DEF f, t

(* C is B with the nodes l, m and n in the blocks x, y and z.              *)
PutThree(B, C, x, l, y, m, z, n) ==
  /\ DOMAIN C = DOMAIN B /\ C[x] = l /\ C[y] = m /\ C[z] = n
  /\ \A b \in DOMAIN B \ {x, y, z} : C[b] = B[b]

ThreeSaves(x, l, y, m, z, n) == <<Save(x, l), Save(y, m), Save(z, n)>>

(* Three nodes saved.                                                      *)
LEMMA PlanThree ==
  ASSUME NEW B, NEW f, NEW x \in DOMAIN B, NEW y \in DOMAIN B, NEW z \in DOMAIN B,
         x # y, x # z, y # z,
         NEW l, NEW m, NEW n, NEW t, t = ThreeSaves(x, l, y, m, z, n)
  PROVE  /\ PutThree(B, Settle(B, t), x, l, y, m, z, n)
         /\ Len(l.keys) <= MaxKeys /\ Len(m.keys) <= MaxKeys /\ Len(n.keys) <= MaxKeys =>
              Doable(B, f, t)
<1> DEFINE C1 == Effect(B, Save(x, l))
           C2 == Effect(C1, Save(y, m))
           C3 == Effect(C2, Save(z, n))
<1>1. /\ t # <<>> /\ Len(t) = 3 /\ DOMAIN t = {1, 2, 3}
      /\ t[1] = Save(x, l) /\ t[2] = Save(y, m) /\ t[3] = Save(z, n)
  BY DEF ThreeSaves
<1>2. ASSUME Len(l.keys) <= MaxKeys, Len(m.keys) <= MaxKeys, Len(n.keys) <= MaxKeys
      PROVE  Doable(B, f, t)
  BY <1>1, <1>2 DEF Doable, Save
<1>3. Settle(B, t) = C3 BY <1>1 DEF Settle
<1>4. Put(B, C1, x, l) /\ Put(C1, C2, y, m) /\ Put(C2, C3, z, n) BY EffectOfSave
<1> HIDE DEF C1, C2, C3
<1>5. PutThree(B, C3, x, l, y, m, z, n) BY <1>4 DEF Put, PutThree
<1> QED BY <1>2, <1>3, <1>5

(* C is B with the nodes l and n in the blocks x and z, without block y.   *)
PutMerged(B, C, x, l, y, z, n) ==
  /\ DOMAIN C = DOMAIN B \ {y} /\ (x # z => C[x] = l) /\ C[z] = n
  /\ \A b \in DOMAIN B \ {x, y, z} : C[b] = B[b]

MergeCalls(x, l, y, z, n) == <<Save(x, l), Free(y), Save(z, n)>>

(* A node saved, another block freed, a third node saved.                  *)
LEMMA PlanMerge ==
  ASSUME NEW B, NEW f, NEW x \in DOMAIN B, NEW y \in DOMAIN B, NEW z \in DOMAIN B,
         x # y, y # z, NEW l, NEW n, NEW t, t = MergeCalls(x, l, y, z, n)
  PROVE  /\ PutMerged(B, Settle(B, t), x, l, y, z, n)
         /\ Len(l.keys) <= MaxKeys /\ Len(n.keys) <= MaxKeys => Doable(B, f, t)
         /\ z = ROOT_ID => SavesRoot(t)
<1> DEFINE C1 == Effect(B, Save(x, l))
           C2 == Effect(C1, Free(y))
           C3 == Effect(C2, Save(z, n))
<1>1. /\ t # <<>> /\ Len(t) = 3 /\ DOMAIN t = {1, 2, 3}
      /\ t[1] = Save(x, l) /\ t[2] = Free(y) /\ t[3] = Save(z, n)
  BY DEF MergeCalls
<1>2. Len(<<>>) <= MaxKeys BY Capacity
<1>3. ASSUME Len(l.keys) <= MaxKeys, Len(n.keys) <= MaxKeys PROVE Doable(B, f, t)
  BY <1>1, <1>2, <1>3 DEF Doable, Save, Free, NewLeaf
<1>4. Settle(B, t) = C3 BY <1>1 DEF Settle
<1>5. Put(B, C1, x, l) /\ Put(C2, C3, z, n) BY EffectOfSave
<1>6. C2 = [ b \in DOMAIN C1 \ {y} |-> C1[b] ] BY DEF Effect, Free
<1> HIDE DEF C1, C2, C3
<1>7. PutMerged(B, C3, x, l, y, z, n) BY <1>5, <1>6 DEF Put, PutMerged
<1>8. z = ROOT_ID => SavesRoot(t) BY <1>1 DEF SavesRoot, Save
<1> QED BY <1>3, <1>4, <1>7, <1>8

-----------------------------------------------------------------------------
(* The steps of the storage.                                               *)

(* What a call does to the blocks is its effect.                           *)
LEMMA DoneEffect ==
  ASSUME NEW c, Done(c), c.do \in {"save", "free", "allocate"},
         c.do = "allocate" => c.id = FreshBlock /\ c.node = NewLeaf
  PROVE  blocks' = Effect(blocks, c)
<1>1. CASE c.do = "save" BY <1>1 DEF Done, WriteBlock, WriteFile, Effect
<1>2. CASE c.do = "free"
  BY <1>2 DEF Done, DeallocateBlock, RemoveFile, RemoveFiles, Effect
<1>3. CASE c.do = "allocate" BY <1>3 DEF Done, AllocateBlock, WriteFile, Effect
<1> QED BY <1>1, <1>2, <1>3

(* The first call of a plan made, the rest comes to the same.              *)
LEMMA SettleStep ==
  ASSUME NEW S, NEW t \in Seq(S), t # <<>>, Len(t) <= 3, NEW B
  PROVE  /\ Settle(Effect(B, t[1]), Tail(t)) = Settle(B, t)
         /\ Head(t) = t[1] /\ 1 \in DOMAIN t
         /\ Len(Tail(t)) \in Nat /\ Len(Tail(t)) + 1 = Len(t)
         /\ \A i \in DOMAIN Tail(t) : i \in Nat /\ i + 1 \in DOMAIN t /\ Tail(t)[i] = t[i + 1]
         /\ \A i \in DOMAIN t : i = 1 \/ i - 1 \in DOMAIN Tail(t)
<1>1. Len(t) \in Nat /\ Len(t) # 0 /\ DOMAIN t = 1..Len(t) BY LenProperties, EmptySeq
<1>2. /\ Tail(t) \in Seq(S) /\ Len(Tail(t)) = Len(t) - 1 /\ Head(t) = t[1]
      /\ \A i \in 1..(Len(t) - 1) : Tail(t)[i] = t[i + 1]
  BY <1>1, EndsParts
<1>3. DOMAIN Tail(t) = 1..(Len(t) - 1) BY <1>2, LenProperties
<1>4. (Tail(t) = <<>>) <=> (Len(t) = 1)
  <2>1. (Tail(t) = <<>>) <=> (Len(Tail(t)) = 0) BY <1>2, EmptySeq
  <2> QED BY <1>1, <1>2, <2>1
<1>5. Settle(Effect(B, t[1]), Tail(t)) = Settle(B, t)
  <2>1. CASE Len(t) = 1 BY <1>4, <2>1 DEF Settle
  <2>2. CASE Len(t) = 2
    <3>1. Tail(t)[1] = t[2] /\ Len(Tail(t)) = 1 BY <1>2, <2>2
    <3> QED BY <1>4, <2>2, <3>1 DEF Settle
  <2>3. CASE Len(t) = 3
    <3>1. 1 \in 1..(Len(t) - 1) /\ 2 \in 1..(Len(t) - 1) /\ Len(Tail(t)) = 2 BY <1>2, <2>3
    <3>2. Tail(t)[1] = t[2] /\ Tail(t)[2] = t[3] BY <1>2, <3>1
    <3> DEFINE u == Tail(t)
               C == Effect(B, t[1])
    <3>3. u # <<>> /\ Len(u) = 2 /\ u[1] = t[2] /\ u[2] = t[3]
      <4>1. u # <<>> BY <1>4, <2>3
      <4>2. Len(u) = 2 BY <3>1
      <4> QED BY <3>2, <4>1, <4>2
    <3> HIDE DEF u
    <3>4. Settle(C, u) = Effect(Effect(C, t[2]), t[3]) BY <3>3 DEF Settle
    <3>5. Settle(B, t) = Effect(Effect(C, t[2]), t[3]) BY <2>3 DEF Settle
    <3> QED BY <3>4, <3>5 DEF u
  <2> QED BY <1>1, <2>1, <2>2, <2>3
<1> QED BY <1>1, <1>2, <1>3, <1>5

(* A free list with a new id pushed.                                       *)
LEMMA PushedOnce ==
  ASSUME NEW S, NEW s \in Seq(S), NEW e \in S, e \notin ToSet(s), IsInjective(s)
  PROVE  IsInjective(Append(s, e)) /\ ToSet(Append(s, e)) = ToSet(s) \cup {e}
<1>1. /\ Len(s) \in Nat /\ DOMAIN s = 1..Len(s)
      /\ DOMAIN Append(s, e) = 1..(Len(s) + 1)
      /\ Append(s, e)[Len(s) + 1] = e
      /\ \A i \in 1..Len(s) : Append(s, e)[i] = s[i]
  <2>1. Append(s, e) \in Seq(S) /\ Len(Append(s, e)) = Len(s) + 1 BY SnocType
  <2>2. DOMAIN Append(s, e) = 1..(Len(s) + 1) BY <2>1, LenProperties
  <2> QED BY <2>2, LenProperties
<1> DEFINE t == Append(s, e)
           m == Len(s) + 1
<1>2. /\ m \in 1..m /\ DOMAIN t = 1..m /\ t[m] = e
      /\ \A i \in DOMAIN s : i \in 1..m /\ t[i] = s[i]
      /\ \A i \in 1..m : i = m \/ i \in DOMAIN s
  BY <1>1
<1> HIDE DEF t, m
<1>3. ToSet(t) = ToSet(s) \cup {e} BY <1>2 DEF ToSet
<1>4. \A i \in DOMAIN s : s[i] # e BY DEF ToSet
<1>5. IsInjective(t) BY <1>2, <1>4 DEF IsInjective
<1> QED BY <1>3, <1>5 DEF t

(* A free list with its last id popped.                                    *)
LEMMA PoppedOnce ==
  ASSUME NEW S, NEW s \in Seq(S), s # <<>>, IsInjective(s)
  PROVE  /\ IsInjective(Front(s)) /\ Last(s) \in ToSet(s)
         /\ ToSet(Front(s)) = ToSet(s) \ {Last(s)}
<1>1. Len(s) \in Nat /\ Len(s) # 0 /\ DOMAIN s = 1..Len(s) BY LenProperties, EmptySeq
<1>2. /\ Front(s) \in Seq(S) /\ Len(Front(s)) = Len(s) - 1 /\ Last(s) = s[Len(s)]
      /\ \A i \in 1..(Len(s) - 1) : Front(s)[i] = s[i]
  <2>1. Len(s) # 0 BY <1>1
  <2> QED BY <2>1, EndsParts
<1>3. DOMAIN Front(s) = 1..(Len(s) - 1) BY <1>2, LenProperties
<1> DEFINE t == Front(s)
           m == Len(s)
<1>4. /\ m \in DOMAIN s /\ Last(s) = s[m]
      /\ \A i \in DOMAIN t : i \in DOMAIN s /\ i # m /\ t[i] = s[i]
      /\ \A i \in DOMAIN s : i = m \/ i \in DOMAIN t
  BY <1>1, <1>2, <1>3
<1> HIDE DEF t, m
<1>5. IsInjective(t) BY <1>4 DEF IsInjective
<1>6. ToSet(t) = ToSet(s) \ {Last(s)} BY <1>4 DEF IsInjective, ToSet
<1> QED BY <1>4, <1>5, <1>6 DEF t, ToSet

(* The block that is handed out next is in no use.                         *)
LEMMA FreshIsFree ==
  ASSUME StorageTypeOK, Accounted, saved = AllocatorMetadata
  PROVE  FreshBlock \notin DOMAIN blocks /\ FreshBlock # ROOT_ID
<1>1. saved.next_block_id = nextId /\ saved.free_blocks = freeList BY DEF AllocatorMetadata
<1>2. nextId \in Nat /\ freeList \in Seq(Allotted) /\ IsInjective(freeList)
  BY <1>1 DEF StorageTypeOK, StorageTypeIn, Allotted, Accounted
<1>3. CASE freeList = <<>>
  <2>1. nextId \notin 1..(nextId - 1) BY <1>2
  <2> QED BY <1>1, <1>3, <2>1 DEF FreshBlock, Accounted
<1>4. CASE freeList # <<>>
  <2>1. Last(freeList) \in ToSet(freeList) BY <1>2, <1>4, PoppedOnce
  <2> QED BY <1>1, <1>4, <2>1 DEF FreshBlock, Accounted
<1> QED BY <1>3, <1>4

(* A storage call leaves every id that was handed out with a file or on    *)
(* the free list.                                                          *)
LEMMA StorageCallAccounts ==
  ASSUME StorageTypeOK, Accounted, saved = AllocatorMetadata,
         NEW c \in StorageCalls, Done(c), blocks' = Effect(blocks, c),
         c.do = "save" => c.id \in DOMAIN blocks \cup {ROOT_ID},
         c.do = "free" => c.id \in DOMAIN blocks,
         c.do = "allocate" => c.id = FreshBlock
  PROVE  Accounted'
<1>1. saved.next_block_id = nextId /\ saved.free_blocks = freeList BY DEF AllocatorMetadata
<1>2. saved'.next_block_id = nextId' /\ saved'.free_blocks = freeList'
  BY DoneSaves DEF AllocatorMetadata
<1>3. nextId \in Nat /\ freeList \in Seq(Allotted) BY DEF StorageTypeOK, StorageTypeIn, Allotted
<1>4. /\ IsInjective(freeList)
      /\ ToSet(freeList) \cap (DOMAIN blocks \cup {ROOT_ID}) = {}
      /\ ToSet(freeList) \cup DOMAIN blocks \cup {ROOT_ID} = 1..(nextId - 1)
  BY <1>1 DEF Accounted
<1>5. c.do \in {"save", "free", "allocate"} /\ (c.do = "free" => c.id \in Allotted)
  BY StorageCallParts
<1>6. /\ c.do = "free" => DOMAIN blocks' = DOMAIN blocks \ {c.id}
      /\ c.do # "free" => DOMAIN blocks' = DOMAIN blocks \cup {c.id}
  BY DEF Effect
<1>7. CASE c.do = "save"
  <2>1. nextId' = nextId /\ freeList' = freeList
    BY <1>7 DEF Done, WriteBlock, allocator
  <2> QED BY <1>2, <1>4, <1>6, <1>7, <2>1 DEF Accounted
<1>8. CASE c.do = "free"
  <2>1. nextId' = nextId /\ freeList' = Append(freeList, c.id)
    BY <1>8 DEF Done, DeallocateBlock, PushFree
  <2>2. c.id \notin ToSet(freeList) /\ c.id # ROOT_ID BY <1>4, <1>5, <1>8, RootIdType
  <2>3. IsInjective(freeList') /\ ToSet(freeList') = ToSet(freeList) \cup {c.id}
    BY <1>3, <1>4, <1>5, <1>8, <2>1, <2>2, PushedOnce
  <2> QED BY <1>2, <1>4, <1>6, <1>8, <2>1, <2>2, <2>3 DEF Accounted
<1>9. CASE c.do = "allocate"
  <2>1. TakeFreshBlock BY <1>9 DEF Done, AllocateBlock
  <2>2. CASE freeList = <<>>
    <3>1. nextId' = nextId + 1 /\ freeList' = freeList /\ c.id = nextId
      BY <1>9, <2>1, <2>2 DEF TakeFreshBlock, FreshBlock
    <3>2. 1..(nextId' - 1) = 1..(nextId - 1) \cup {nextId} /\ nextId \notin 1..(nextId - 1)
      <4>1. nextId # 0 BY DEF StorageTypeOK, StorageTypeIn, Allotted
      <4> QED BY <1>3, <3>1, <4>1
    <3> QED BY <1>2, <1>4, <1>6, <1>9, <3>1, <3>2 DEF Accounted
  <2>3. CASE freeList # <<>>
    <3>1. nextId' = nextId /\ freeList' = Front(freeList) /\ c.id = Last(freeList)
      BY <1>9, <2>1, <2>3 DEF TakeFreshBlock, FreshBlock
    <3>2. /\ IsInjective(freeList') /\ c.id \in ToSet(freeList)
          /\ ToSet(freeList') = ToSet(freeList) \ {c.id}
      BY <1>3, <1>4, <2>3, <3>1, PoppedOnce
    <3> QED BY <1>2, <1>4, <1>6, <1>9, <3>1, <3>2 DEF Accounted
  <2> QED BY <2>2, <2>3
<1> QED BY <1>5, <1>7, <1>8, <1>9

(* A plan of which the first call has been made.                           *)
LEMMA DoableStep ==
  ASSUME NEW B, NEW f, NEW g, NEW t \in Seq(StorageCalls), t # <<>>, Doable(B, f, t)
  PROVE  Doable(Effect(B, t[1]), g, Tail(t))
<1>1. /\ Len(Tail(t)) \in Nat /\ Len(Tail(t)) + 1 = Len(t) /\ 1 \in DOMAIN t
      /\ \A i \in DOMAIN Tail(t) : i \in Nat /\ i + 1 \in DOMAIN t /\ Tail(t)[i] = t[i + 1]
      /\ Len(t) \in Nat /\ Len(t) <= 3 /\ DOMAIN t = 1..Len(t)
  BY SettleStep, LenProperties DEF Doable
<1>2. Len(Tail(t)) <= 3 BY <1>1
<1> DEFINE u == Tail(t)
           C == Effect(B, t[1])
<1>3. /\ t[1].do = "free" => DOMAIN C = DOMAIN B \ {t[1].id}
      /\ t[1].do # "free" => DOMAIN C = DOMAIN B \cup {t[1].id}
  BY DEF Effect
<1>4. \A i \in DOMAIN u : i + 1 # 1 /\ (\A j \in DOMAIN u : i # j => i + 1 # j + 1)
  BY <1>1
<1>5. ASSUME NEW i \in DOMAIN u
      PROVE  /\ Len(u[i].node.keys) <= MaxKeys
             /\ u[i].do # "allocate"
             /\ u[i].do = "free" =>
                  u[i].id \in DOMAIN C /\ \A j \in DOMAIN u \ {i} : u[j].id # u[i].id
             /\ u[i].do = "save" => u[i].id \in DOMAIN C \cup {ROOT_ID}
  <2> DEFINE h == i + 1
  <2>1. h \in DOMAIN t /\ u[i] = t[h] /\ h # 1 BY <1>1, <1>4
  <2>2. \A j \in DOMAIN u \ {i} : \E g1 \in DOMAIN t \ {h} : u[j] = t[g1] BY <1>1, <1>4
  <2> HIDE DEF h, u, C
  <2>3. Len(u[i].node.keys) <= MaxKeys /\ u[i].do # "allocate" BY <2>1 DEF Doable
  <2>4. ASSUME u[i].do = "free"
        PROVE  u[i].id \in DOMAIN C /\ \A j \in DOMAIN u \ {i} : u[j].id # u[i].id
    <3>1. t[h].id \in DOMAIN B /\ \A j \in DOMAIN t \ {h} : t[j].id # t[h].id
      BY <2>1, <2>4 DEF Doable
    <3>2. t[1].id # t[h].id BY <1>1, <2>1, <3>1
    <3> QED BY <1>3, <2>1, <2>2, <3>1, <3>2
  <2>5. ASSUME u[i].do = "save" PROVE u[i].id \in DOMAIN C \cup {ROOT_ID}
    <3>1. \/ t[h].id \in DOMAIN B \cup {ROOT_ID}
          \/ t[1].do = "allocate" /\ t[1].id = t[h].id
      BY <2>1, <2>5 DEF Doable
    <3>2. t[1].do = "free" => t[1].id # t[h].id BY <1>1, <2>1 DEF Doable
    <3> QED BY <1>3, <2>1, <3>1, <3>2
  <2> QED BY <2>3, <2>4, <2>5
<1> HIDE DEF u, C
<1>6. Len(u) <= 3 BY <1>2 DEF u
<1>7. Doable(C, g, u) BY <1>5, <1>6 DEF Doable
<1> QED BY <1>7 DEF u, C

(* A storage call changes nothing when the plan is taken as carried out.   *)
LEMMA StorageCallIntact ==
  ASSUME IInv, AllocatorPersisted, errors = 0,
         Ready, Accounted, HeaderFollows, InPlace, StorageCall
  PROVE  Ready' /\ Accounted' /\ HeaderFollows' /\ InPlace'
<1> DEFINE c == todo[1]
<1>1. /\ todo # <<>> /\ todo' = Tail(todo) /\ Perform(Head(todo))
      /\ tree' = tree /\ call' = call
  BY DEF StorageCall
<1>2. StorageTypeOK /\ todo \in Seq(StorageCalls) BY Running
<1>3. Doable(blocks, FreshBlock, todo) BY DEF Ready
<1>4. /\ Settle(Effect(blocks, c), Tail(todo)) = Settle(blocks, todo)
      /\ Head(todo) = c /\ 1 \in DOMAIN todo
      /\ \A i \in DOMAIN todo : i = 1 \/ i - 1 \in DOMAIN Tail(todo)
      /\ \A i \in DOMAIN Tail(todo) : i \in Nat /\ i + 1 \in DOMAIN todo
                                     /\ Tail(todo)[i] = todo[i + 1]
  <2>1. Len(todo) <= 3 BY <1>3 DEF Doable
  <2> QED BY <1>1, <1>2, <2>1, SettleStep
<1>5. Done(c) /\ WriteHeader(c) BY <1>1, <1>4 DEF Perform
<1>6. c \in StorageCalls
  <2>1. 1 \in 1..Len(todo) BY <1>2, <1>4, LenProperties
  <2> QED BY <1>2, <2>1, ElementOfSeq
<1>7. /\ c.do = "save" => c.id \in DOMAIN blocks \cup {ROOT_ID}
      /\ c.do = "free" => c.id \in DOMAIN blocks
      /\ c.do = "allocate" => c.id = FreshBlock /\ c.node = NewLeaf
  BY <1>3, <1>4 DEF Doable
<1>8. blocks' = Effect(blocks, c)
  BY <1>5, <1>6, <1>7, DoneEffect, StorageCallParts
<1>9. saved = AllocatorMetadata
  <2>1. call.pc # "closed" BY <1>1 DEF IInv, InvIn, NothingPending
  <2> QED BY <2>1 DEF AllocatorPersisted
<1>10. Accounted' BY <1>2, <1>5, <1>6, <1>7, <1>8, <1>9, StorageCallAccounts
<1>11. Ready'
  <2>1. Effect(blocks, c) = [ b \in DOMAIN Effect(blocks, c) |-> Effect(blocks, c)[b] ]
    BY DEF Effect
  <2>2. Doable(Effect(blocks, c), FreshBlock', Tail(todo)) BY <1>1, <1>2, <1>3, DoableStep
  <2> QED BY <1>1, <1>8, <2>1, <2>2 DEF Ready
<1>12. HeaderFollows'
  <2>1. CASE call.pc \in {"closed", "root_underflow"} BY <1>1, <2>1 DEF HeaderFollows
  <2>2. CASE tree = header BY <1>1, <1>5, <2>2 DEF HeaderFollows, WriteHeader, SaveHeader
  <2>3. CASE SavesRoot(todo)
    <3>1. PICK i \in DOMAIN todo : todo[i].do = "save" /\ todo[i].id = ROOT_ID
      BY <2>3 DEF SavesRoot
    <3>2. CASE i = 1
      <4>1. header' = tree BY <1>5, <3>1, <3>2 DEF WriteHeader, SaveHeader
      <4> QED BY <1>1, <4>1 DEF HeaderFollows
    <3>3. CASE i # 1
      <4> DEFINE j == i - 1
      <4>1. j \in DOMAIN Tail(todo) /\ j + 1 = i
        <5>1. i \in Nat BY <1>2, LenProperties
        <5> QED BY <1>4, <3>3, <5>1
      <4> HIDE DEF j
      <4>2. Tail(todo)[j] = todo[i] BY <1>4, <4>1
      <4>3. SavesRoot(Tail(todo)) BY <3>1, <4>1, <4>2 DEF SavesRoot
      <4> QED BY <1>1, <4>3 DEF HeaderFollows
    <3> QED BY <3>2, <3>3
  <2> QED BY <2>1, <2>2, <2>3 DEF HeaderFollows
<1>13. InPlace'
  <2>1. Settled' = Settled BY <1>1, <1>4, <1>8 DEF Settled
  <2>2. Exists' = Exists
    <3>1. call.pc # "closed" BY <1>1 DEF IInv, InvIn, NothingPending
    <3> QED BY <1>1, <3>1 DEF Exists
  <2> QED BY <1>1, <2>1, <2>2 DEF InPlace
<1> QED BY <1>10, <1>11, <1>12, <1>13

-----------------------------------------------------------------------------
(* The path from the root.                                                 *)

(* The path without its last frame leads to the last frame's node.         *)
LEMMA PathFront ==
  ASSUME NEW B, NEW s, NEW stack \in Seq(Frames), stack # <<>>, OnPath(B, s, stack)
  PROVE  /\ Front(stack) \in Seq(Frames) /\ OnPath(B, s, Front(stack))
         /\ Target(Front(stack)) = Last(stack).id
         /\ Len(Front(stack)) \in Nat /\ Len(Front(stack)) + 1 = Len(stack)
         /\ Last(stack) \in Frames /\ Last(stack).id \in DOMAIN B
         /\ \A j \in DOMAIN Front(stack) : j \in DOMAIN stack /\ Front(stack)[j] = stack[j]
         /\ s.ht[Last(stack).id] + Len(stack) = s.ht[ROOT_ID] + 1
<1>1. Len(stack) \in Nat /\ Len(stack) # 0 /\ DOMAIN stack = 1..Len(stack)
  BY LenProperties, EmptySeq
<1>2. /\ Front(stack) \in Seq(Frames) /\ Len(Front(stack)) = Len(stack) - 1
      /\ Last(stack) \in Frames /\ Last(stack) = stack[Len(stack)]
      /\ \A j \in 1..(Len(stack) - 1) : Front(stack)[j] = stack[j]
  <2>1. Len(stack) # 0 BY <1>1
  <2> QED BY <2>1, EndsParts
<1>3. DOMAIN Front(stack) = 1..(Len(stack) - 1) BY <1>2, LenProperties
<1> DEFINE m == Len(stack)
           u == Front(stack)
<1>4. /\ m \in Nat /\ m # 0 /\ m \in DOMAIN stack /\ Last(stack) = stack[m]
      /\ DOMAIN u = 1..(m - 1) /\ Len(u) = m - 1 /\ DOMAIN stack = 1..m
      /\ \A j \in DOMAIN u : j \in DOMAIN stack /\ u[j] = stack[j]
  BY <1>1, <1>2, <1>3
<1>5. u \in Seq(Frames) BY <1>2
<1> HIDE DEF m, u
<1>6. OnPath(B, s, u)
  <2>1. \A j \in DOMAIN u : j # 1 => j - 1 \in DOMAIN u BY <1>4
  <2>2. \A j \in DOMAIN u : j # 1 => u[j-1] = stack[j-1] BY <1>4, <2>1
  <2> QED BY <1>4, <2>2 DEF OnPath
<1>7. Target(u) = stack[m].id
  <2>1. CASE m = 1
    <3>1. Len(u) = 0 BY <1>4, <2>1
    <3>2. u = <<>> BY <1>5, <3>1, EmptySeq
    <3> QED BY <1>4, <2>1, <3>2 DEF Target, OnPath
  <2>2. CASE m # 1
    <3>1. Len(u) # 0 /\ m - 1 \in DOMAIN u /\ Len(u) = m - 1 BY <1>4, <2>2
    <3>2. u # <<>> /\ Last(u) = u[m - 1] BY <1>5, <3>1, EndsParts, EmptySeq
    <3>3. u[m - 1] = stack[m - 1] BY <1>4, <3>1
    <3>4. stack[m].id = Child(stack[m - 1]) BY <1>4, <2>2 DEF OnPath
    <3> QED BY <3>2, <3>3, <3>4 DEF Target
  <2> QED BY <2>1, <2>2
<1>8. /\ Last(stack).id \in DOMAIN B
      /\ s.ht[Last(stack).id] + m = s.ht[ROOT_ID] + 1
  BY <1>4 DEF OnPath
<1>9. Len(u) \in Nat /\ Len(u) + 1 = m BY <1>4
<1> QED BY <1>2, <1>4, <1>5, <1>6, <1>7, <1>8, <1>9 DEF m, u

(* The nodes on the path are higher than whatever is below it.             *)
LEMMA PathAbove ==
  ASSUME NEW B, NEW s, Tree(B, s, ROOT_ID), NEW stack \in Seq(Frames), OnPath(B, s, stack),
         NEW b \in DOMAIN B, s.ht[b] + Len(stack) <= s.ht[ROOT_ID]
  PROVE  \A j \in DOMAIN stack : stack[j].id # b
<1>1. SUFFICES ASSUME NEW j \in DOMAIN stack, stack[j].id = b PROVE FALSE
  OBVIOUS
<1>2. j \in Nat /\ Len(stack) \in Nat /\ j <= Len(stack) BY LenProperties
<1>3. s.ht[b] + j = s.ht[ROOT_ID] + 1 BY <1>1 DEF OnPath
<1>4. s.ht[b] \in Nat /\ s.ht[ROOT_ID] \in Nat
  <2>1. ROOT_ID \in DOMAIN B BY DEF Tree
  <2> QED BY <2>1, TreeNode
<1> QED BY <1>2, <1>3, <1>4

(* The path leads to a block, as far below the root as the path is long.   *)
LEMMA PathTarget ==
  ASSUME NEW B, NEW s, Tree(B, s, ROOT_ID), NEW stack \in Seq(Frames), OnPath(B, s, stack),
         Fresh(B, stack)
  PROVE  /\ Target(stack) \in DOMAIN B
         /\ s.ht[Target(stack)] + Len(stack) = s.ht[ROOT_ID]
         /\ \A j \in DOMAIN stack : stack[j].id # Target(stack)
         /\ stack # <<>> =>
              /\ Target(stack) # ROOT_ID /\ Target(stack) \in Allotted
              /\ Last(stack).id \in DOMAIN B /\ B[Last(stack).id] = Last(stack).node
              /\ IsInternal(B[Last(stack).id])
              /\ Last(stack).idx \in 1..(Len(B[Last(stack).id].keys) + 1)
              /\ Target(stack) = B[Last(stack).id].child_ids[Last(stack).idx]
              /\ Last(stack).id # Target(stack)
<1>1. ROOT_ID \in DOMAIN B /\ s.ht[ROOT_ID] \in Nat
  <2>1. ROOT_ID \in DOMAIN B BY DEF Tree
  <2> QED BY <2>1, TreeNode
<1>2. CASE stack = <<>>
  <2>1. Len(stack) = 0 /\ Target(stack) = ROOT_ID /\ DOMAIN stack = {}
    BY <1>2 DEF Target
  <2> QED BY <1>1, <1>2, <2>1
<1>3. CASE stack # <<>>
  <2> DEFINE f == Last(stack)
             x == Target(stack)
  <2>1. /\ f \in Frames /\ f.id \in DOMAIN B
        /\ s.ht[f.id] + Len(stack) = s.ht[ROOT_ID] + 1
    BY <1>3, PathFront
  <2>2. Len(stack) \in Nat /\ Len(stack) \in DOMAIN stack /\ f = stack[Len(stack)]
    <3>1. Len(stack) \in Nat /\ Len(stack) # 0 /\ DOMAIN stack = 1..Len(stack)
      BY <1>3, LenProperties, EmptySeq
    <3>2. f = stack[Len(stack)]
      <4>1. Len(stack) # 0 BY <3>1
      <4> QED BY <4>1, EndsParts
    <3> QED BY <3>1, <3>2
  <2>3. B[f.id] = f.node BY <2>2 DEF Fresh
  <2>4. x = f.node.child_ids[f.idx] BY <1>3 DEF Target, Child
  <2>5. f.node \in WellShaped /\ IsInternal(f.node) /\ f.idx \in DOMAIN f.node.child_ids
    BY <2>1 DEF Frames, FramesIn
  <2> HIDE DEF f
  <2>6. f.idx \in 1..(Len(B[f.id].keys) + 1) /\ IsInternal(B[f.id]) /\ B[f.id] \in WellShaped
    BY <2>3, <2>5, NodeParts
  <2>7. x = B[f.id].child_ids[f.idx] BY <2>3, <2>4
  <2>8. /\ x \in DOMAIN B /\ s.ht[x] + 1 = s.ht[f.id] /\ x # f.id /\ x # ROOT_ID
        /\ x \in Allotted
    <3>1. LET c == B[f.id].child_ids[f.idx]
          IN /\ c \in DOMAIN B /\ s.ht[c] + 1 = s.ht[f.id] /\ c # f.id /\ c # ROOT_ID
             /\ c \in Allotted
      BY <2>1, <2>6, TreeChild
    <3> QED BY <2>7, <3>1
  <2>9. s.ht[x] + Len(stack) = s.ht[ROOT_ID]
    <3>1. s.ht[x] \in Nat /\ s.ht[f.id] \in Nat BY <2>1, <2>8, TreeNode
    <3> DEFINE hx == s.ht[x]
               hf == s.ht[f.id]
               hr == s.ht[ROOT_ID]
               m == Len(stack)
    <3>2. hx \in Nat /\ hf \in Nat /\ hr \in Nat /\ m \in Nat BY <1>1, <2>2, <3>1
    <3>3. hx + 1 = hf /\ hf + m = hr + 1 BY <2>1, <2>8
    <3> HIDE DEF hx, hf, hr, m
    <3>4. hx + m = hr BY <3>2, <3>3
    <3> QED BY <3>4 DEF hx, hr, m
  <2>10. s.ht[x] + Len(stack) <= s.ht[ROOT_ID] BY <1>1, <2>9
  <2> HIDE DEF x
  <2>11. \A j \in DOMAIN stack : stack[j].id # x BY <2>8, <2>10, PathAbove
  <2> QED BY <1>3, <2>1, <2>3, <2>6, <2>7, <2>8, <2>9, <2>11 DEF f, x
<1> QED BY <1>2, <1>3

(* No frame before the last is of the last one's node.                     *)
LEMMA PathApart ==
  ASSUME NEW B, NEW s, Tree(B, s, ROOT_ID), NEW stack \in Seq(Frames), stack # <<>>,
         OnPath(B, s, stack)
  PROVE  /\ \A j \in DOMAIN Front(stack) : Front(stack)[j].id # Last(stack).id
         /\ Len(stack) > 1 => Last(stack).id # ROOT_ID
         /\ Front(stack) = <<>> => Last(stack).id = ROOT_ID
<1> DEFINE u == Front(stack)
           x == Last(stack).id
<1>1. /\ u \in Seq(Frames) /\ OnPath(B, s, u) /\ Target(u) = x /\ x \in DOMAIN B
      /\ Len(u) \in Nat /\ Len(u) + 1 = Len(stack)
      /\ s.ht[x] + Len(stack) = s.ht[ROOT_ID] + 1
  BY PathFront
<1>2. s.ht[x] \in Nat /\ s.ht[ROOT_ID] \in Nat
  <2>1. ROOT_ID \in DOMAIN B BY DEF Tree
  <2> QED BY <1>1, <2>1, TreeNode
<1> HIDE DEF u, x
<1>3. s.ht[x] + Len(u) <= s.ht[ROOT_ID] BY <1>1, <1>2
<1>4. \A j \in DOMAIN u : u[j].id # x BY <1>1, <1>3, PathAbove
<1>5. Len(stack) > 1 => x # ROOT_ID BY <1>1, <1>2
<1>6. u = <<>> => x = ROOT_ID BY <1>1 DEF Target
<1> QED BY <1>4, <1>5, <1>6 DEF u, x

(* The path one level further down.                                        *)
LEMMA PathPush ==
  ASSUME NEW B, NEW s, Tree(B, s, ROOT_ID), NEW stack \in Seq(Frames), OnPath(B, s, stack),
         Fresh(B, stack), IsInternal(B[Target(stack)]),
         NEW i \in DOMAIN B[Target(stack)].child_ids
  PROVE  LET u == Append(stack, Frame(Target(stack), B[Target(stack)], i))
         IN /\ u \in Seq(Frames) /\ u # <<>>
            /\ OnPath(B, s, u) /\ Fresh(B, u)
            /\ Target(u) = B[Target(stack)].child_ids[i]
            /\ Len(u) = Len(stack) + 1
            /\ \A j \in DOMAIN stack : u[j] = stack[j]
            /\ u[Len(stack) + 1] = Frame(Target(stack), B[Target(stack)], i)
            /\ \A j \in DOMAIN u : j \in DOMAIN stack \/ j = Len(stack) + 1
<1> DEFINE x == Target(stack)
           f == Frame(x, B[x], i)
           u == Append(stack, f)
           m == Len(stack)
<1>1. x \in DOMAIN B /\ s.ht[x] + m = s.ht[ROOT_ID] BY PathTarget
<1>2. x \in BlockId /\ B[x] \in WellShaped /\ s.ht[x] \in Nat /\ s.ht[ROOT_ID] \in Nat
  <2>1. ROOT_ID \in DOMAIN B BY DEF Tree
  <2> QED BY <1>1, <2>1, TreeNode
<1>3. f \in Frames BY <1>2, FrameType
<1> HIDE DEF f
<1>4. u \in Seq(Frames) /\ Len(u) = m + 1 BY <1>3, SnocType
<1>5. m \in Nat /\ DOMAIN stack = 1..m BY LenProperties
<1>6. DOMAIN u = 1..(m + 1) BY <1>4, LenProperties
<1>7. u[m + 1] = f /\ \A j \in 1..m : u[j] = stack[j] BY <1>3, <1>5
<1> DEFINE n == m + 1
<1>8. /\ n \in DOMAIN u /\ u[n] = f /\ n # 0 /\ n \in Nat
      /\ \A j \in DOMAIN stack : j \in DOMAIN u /\ u[j] = stack[j] /\ j # n
      /\ \A j \in DOMAIN u : j \in DOMAIN stack \/ j = n
      /\ n = 1 => stack = <<>>
  <2>1. m = 0 => stack = <<>> BY EmptySeq
  <2> QED BY <1>5, <1>6, <1>7, <2>1
<1>9. u # <<>> /\ Last(u) = f
  <2>1. Len(u) # 0 /\ Len(u) = n BY <1>4, <1>5
  <2> QED BY <1>4, <1>8, <2>1, EndsParts, EmptySeq
<1> HIDE DEF u
<1>10. Target(u) = B[x].child_ids[i]
  <2>1. Target(u) = Child(f) BY <1>9 DEF Target
  <2>2. Child(f) = B[x].child_ids[i] BY DEF Child, f, Frame
  <2> QED BY <2>1, <2>2
<1>11. Fresh(B, u) BY <1>8 DEF Fresh, f, Frame
<1>12. OnPath(B, s, u)
  <2>1. ASSUME NEW j \in DOMAIN stack
        PROVE  /\ u[j].id \in DOMAIN B
               /\ u[j].id = IF j = 1 THEN ROOT_ID ELSE Child(u[j-1])
               /\ s.ht[u[j].id] + j = s.ht[ROOT_ID] + 1
    <3>1. j # 1 => j - 1 \in DOMAIN stack BY <1>5
    <3> QED BY <1>8, <3>1 DEF OnPath
  <2>2. u[n].id = x BY <1>8 DEF f, Frame
  <2>3. x = IF n = 1 THEN ROOT_ID ELSE Child(u[n-1])
    <3>1. CASE n = 1 BY <1>8, <3>1 DEF Target
    <3>2. CASE n # 1
      <4>1. m # 0 /\ m \in DOMAIN stack /\ n - 1 = m BY <1>5, <3>2
      <4>2. stack # <<>> /\ Last(stack) = stack[m] BY <4>1, EndsParts, EmptySeq
      <4> QED BY <1>8, <3>2, <4>1, <4>2 DEF Target
    <3> QED BY <3>1, <3>2
  <2>4. s.ht[x] + n = s.ht[ROOT_ID] + 1
    <3> DEFINE hx == s.ht[x]
               hr == s.ht[ROOT_ID]
    <3>1. hx \in Nat /\ hr \in Nat /\ m \in Nat /\ hx + m = hr BY <1>1, <1>2, <1>5
    <3> HIDE DEF hx, hr, m
    <3>2. hx + (m + 1) = hr + 1 BY <3>1
    <3> QED BY <3>2 DEF hx, hr
  <2> HIDE DEF n
  <2> QED BY <1>1, <1>8, <2>1, <2>2, <2>3, <2>4 DEF OnPath
<1> QED BY <1>4, <1>8, <1>9, <1>10, <1>11, <1>12 DEF u, f

(* The path in another tree with the same nodes on it, at their heights.   *)
LEMMA PathKept ==
  ASSUME NEW B, NEW s, NEW stack, OnPath(B, s, stack),
         NEW C, NEW t, t.ht[ROOT_ID] = s.ht[ROOT_ID],
         \A j \in DOMAIN stack : stack[j].id \in DOMAIN C /\ t.ht[stack[j].id] = s.ht[stack[j].id]
  PROVE  OnPath(C, t, stack)
BY DEF OnPath

-----------------------------------------------------------------------------
(* What every handler has in common.                                       *)

(* The place of a call, by where it is.                                    *)
LEMMA PlaceOf ==
  ASSUME NEW c, NEW e \in BOOLEAN, NEW S, NEW s, NEW U
  PROVE  /\ c.pc \in Resting => (Place(c, e, S, s, U) <=> AtRest(c, e, S, s))
         /\ c.pc = "descend" => (Place(c, e, S, s, U) <=> e /\ Searching(c, S, s))
         /\ c.pc = "scan" => (Place(c, e, S, s, U) <=> e /\ Scanning(c, S, s))
         /\ c.pc = "insert_up" => (Place(c, e, S, s, U) <=> e /\ Inserting(c, S, s, U))
         /\ c.pc = "delete_up" => (Place(c, e, S, s, U) <=> e /\ Deleting(c, S, s))
         /\ c.pc = "reload" => (Place(c, e, S, s, U) <=> e /\ Rebalanced(c, S, s))
         /\ c.pc = "root_underflow" => (Place(c, e, S, s, U) <=> e /\ Counted(c, S, s))
         /\ c.pc \in {"clear", "clear_up"} =>
              (Place(c, e, S, s, U) <=> e /\ Clearing(c, S, s, U))
         /\ c.pc \in {"rollback", "rolled_back"} => ~Place(c, e, S, s, U)
<1>1. c.pc \in Resting => (Place(c, e, S, s, U) <=> AtRest(c, e, S, s)) BY DEF Place, Resting
<1>2. c.pc = "descend" => (Place(c, e, S, s, U) <=> e /\ Searching(c, S, s))
  BY DEF Place, Resting
<1>3. c.pc = "scan" => (Place(c, e, S, s, U) <=> e /\ Scanning(c, S, s))
  BY DEF Place, Resting
<1>4. c.pc = "insert_up" => (Place(c, e, S, s, U) <=> e /\ Inserting(c, S, s, U))
  BY DEF Place, Resting
<1>5. c.pc = "delete_up" => (Place(c, e, S, s, U) <=> e /\ Deleting(c, S, s))
  BY DEF Place, Resting
<1>6. c.pc = "reload" => (Place(c, e, S, s, U) <=> e /\ Rebalanced(c, S, s))
  BY DEF Place, Resting
<1>7. c.pc = "root_underflow" => (Place(c, e, S, s, U) <=> e /\ Counted(c, S, s))
  BY DEF Place, Resting
<1>8. c.pc \in {"clear", "clear_up"} =>
        (Place(c, e, S, s, U) <=> e /\ Clearing(c, S, s, U))
  BY DEF Place, Resting
<1>9. c.pc \in {"rollback", "rolled_back"} => ~Place(c, e, S, s, U) BY DEF Place
<1> QED BY <1>1, <1>2, <1>3, <1>4, <1>5, <1>6, <1>7, <1>8, <1>9

(* What the invariant says while nothing has failed.                       *)
Sound == Ready /\ Accounted /\ HeaderFollows /\ InPlace

Good == IInv /\ AllocatorPersisted /\ NoFaults /\ Sound

(* What a handler finds: nothing outstanding, so the blocks are settled.   *)
LEMMA Situation ==
  ASSUME Good, todo = <<>>, call.pc # "closed"
  PROVE  /\ FreshBlock \in Allotted /\ FreshBlock \notin DOMAIN blocks
         /\ call.pc # "root_underflow" => tree = header
         /\ tree.root_exists \in BOOLEAN
         /\ \E s, U : Place(call, tree.root_exists, blocks, s, U)
<1>1. IInv /\ Accounted /\ HeaderFollows /\ InPlace BY DEF Good, Sound
<1>2. saved = AllocatorMetadata BY DEF Good, NoFaults, AllocatorPersisted
<1>3. FreshBlock \in Allotted BY <1>1, Running, FreshBlockType
<1>4. FreshBlock \notin DOMAIN blocks BY <1>1, <1>2, Running, FreshIsFree
<1>5. ~SavesRoot(todo) BY DEF SavesRoot
<1>6. call.pc # "root_underflow" => tree = header BY <1>1, <1>5 DEF HeaderFollows
<1>7. tree.root_exists \in BOOLEAN BY <1>1, Running DEF Metadata
<1>8. Settled = blocks BY DEF Settled, Settle
<1>9. Exists = tree.root_exists BY DEF Exists
<1> QED BY <1>1, <1>3, <1>4, <1>6, <1>7, <1>8, <1>9 DEF InPlace

(* A handler that leaves a plan that can be carried out, and comes to a    *)
(* place that the plan, carried out, leads to.                             *)
LEMMA AfterHandler ==
  ASSUME Good, NoStorageCall, Doable(blocks, FreshBlock, todo'), call'.pc # "closed",
         call'.pc # "root_underflow" => tree' = header \/ SavesRoot(todo'),
         \E s, U : Place(call', tree'.root_exists, Settle(blocks, todo'), s, U)
  PROVE  Sound'
<1>1. /\ blocks' = blocks /\ saved' = saved /\ header' = header
      /\ nextId' = nextId /\ freeList' = freeList
  BY DEF NoStorageCall
<1>2. FreshBlock' = FreshBlock BY <1>1 DEF FreshBlock
<1>3. Ready' BY <1>1, <1>2 DEF Good, Sound, Ready
<1>4. Accounted' BY <1>1 DEF Good, Sound, Accounted, ROOT_ID
<1>5. HeaderFollows' BY <1>1 DEF HeaderFollows
<1>6. InPlace' BY <1>1 DEF InPlace, Settled, Exists
<1> QED BY <1>3, <1>4, <1>5, <1>6 DEF Sound

(* A handler that leaves nothing to be done.                               *)
LEMMA AfterQuietHandler ==
  ASSUME Good, NoStorageCall, todo = <<>>, UNCHANGED <<tree, todo>>,
         call.pc \notin {"closed", "root_underflow"}, call'.pc # "closed",
         \E s, U : Place(call', tree.root_exists, blocks, s, U)
  PROVE  Sound'
<1>1. todo' = <<>> /\ tree' = tree BY DEF NoStorageCall
<1>2. Doable(blocks, FreshBlock, todo') /\ Settle(blocks, todo') = blocks BY <1>1, PlanNone
<1>3. tree' = header BY <1>1, Situation
<1> QED BY <1>1, <1>2, <1>3, AfterHandler

(* A call that has its answer rests.                                       *)
LEMMA Answered ==
  ASSUME NEW a, call \in Calls, call' = Answer(a), NEW e \in BOOLEAN, NEW S, NEW s, NEW U,
         e => WholeTree(S, s),
         ~e => DOMAIN S = {ROOT_ID}
  PROVE  call'.pc = "return" /\ Place(call', e, S, s, U)
<1>1. call'.pc = "return" /\ call'.stack = <<>> /\ call'.outcome = "NoChange"
  BY DEF Answer, Calls, CallsIn
<1>2. AtRest(call', e, S, s) BY <1>1 DEF AtRest
<1> QED BY <1>1, <1>2, PlaceOf DEF Resting

-----------------------------------------------------------------------------
(* Calls begin and end.                                                    *)

(* The handle is ready.                                                    *)
LEMMA OpenedIntact == ASSUME Good, Opened PROVE Sound'
<1>1. /\ call.pc = "opening" /\ todo = <<>> /\ call' = Blank /\ NoStorageCall
      /\ UNCHANGED <<tree, todo>>
  BY DEF Opened, Runs
<1>2. PICK s, U : Place(call, tree.root_exists, blocks, s, U) BY <1>1, Situation
<1>3. call'.pc = "idle" /\ call'.stack = <<>> /\ call'.outcome = "NoChange"
  BY <1>1 DEF Blank
<1>4. AtRest(call, tree.root_exists, blocks, s) BY <1>1, <1>2, PlaceOf, Situation DEF Resting
<1>5. AtRest(call', tree.root_exists, blocks, s) BY <1>1, <1>3, <1>4 DEF AtRest
<1>6. Place(call', tree.root_exists, blocks, s, U)
  BY <1>1, <1>3, <1>5, PlaceOf, Situation DEF Resting
<1> QED BY <1>1, <1>3, <1>6, AfterQuietHandler

(* The last call is over.                                                  *)
LEMMA ReturnIntact == ASSUME Good, Return PROVE Sound'
<1>1. /\ call.pc = "return" /\ todo = <<>> /\ call' = Blank /\ NoStorageCall
      /\ UNCHANGED <<tree, todo>>
  BY DEF Return, Runs
<1>2. PICK s, U : Place(call, tree.root_exists, blocks, s, U) BY <1>1, Situation
<1>3. call'.pc = "idle" /\ call'.stack = <<>> /\ call'.outcome = "NoChange"
  BY <1>1 DEF Blank
<1>4. AtRest(call, tree.root_exists, blocks, s) BY <1>1, <1>2, PlaceOf, Situation DEF Resting
<1>5. AtRest(call', tree.root_exists, blocks, s) BY <1>1, <1>3, <1>4 DEF AtRest
<1>6. Place(call', tree.root_exists, blocks, s, U)
  BY <1>1, <1>3, <1>5, PlaceOf, Situation DEF Resting
<1> QED BY <1>1, <1>3, <1>6, AfterQuietHandler

(* A call begins.                                                          *)
LEMMA InvokeIntact == ASSUME NEW r, Good, Invoke(r) PROVE Sound'
<1>1. /\ call.pc = "idle" /\ NoStorageCall /\ UNCHANGED <<tree, todo>>
      /\ call'.pc = "start" /\ call'.stack = <<>> /\ call'.outcome = "NoChange"
  BY DEF Invoke, Blank
<1>2. todo = <<>> BY <1>1 DEF Good, IInv, InvIn, NothingPending
<1>3. PICK s, U : Place(call, tree.root_exists, blocks, s, U) BY <1>1, <1>2, Situation
<1>4. AtRest(call, tree.root_exists, blocks, s)
  BY <1>1, <1>2, <1>3, PlaceOf, Situation DEF Resting
<1>5. AtRest(call', tree.root_exists, blocks, s) BY <1>1, <1>4 DEF AtRest
<1>6. Place(call', tree.root_exists, blocks, s, U)
  BY <1>1, <1>2, <1>5, PlaceOf, Situation DEF Resting
<1> QED BY <1>1, <1>2, <1>6, AfterQuietHandler

(* The handle is dropped: what it knew is on disk.                         *)
LEMMA CloseIntact == ASSUME Good, Close PROVE Sound'
<1>1. /\ call.pc = "idle" /\ call' = Closed /\ todo' = <<>>
      /\ blocks' = blocks /\ saved' = saved /\ header' = header
  BY DEF Close, Forget, disk
<1>2. todo = <<>> BY <1>1 DEF Good, IInv, InvIn, NothingPending
<1>3. PICK s, U : Place(call, tree.root_exists, blocks, s, U) BY <1>1, <1>2, Situation
<1>4. call'.pc = "closed" /\ call'.stack = <<>> /\ call'.outcome = "NoChange"
  BY <1>1 DEF Closed, Blank
<1>5. AtRest(call, tree.root_exists, blocks, s)
  BY <1>1, <1>2, <1>3, PlaceOf, Situation DEF Resting
<1>6. AtRest(call', tree.root_exists, blocks, s) BY <1>4, <1>5 DEF AtRest
<1>7. Place(call', tree.root_exists, blocks, s, U)
  BY <1>1, <1>2, <1>4, <1>6, PlaceOf, Situation DEF Resting
<1>8. tree = header BY <1>1, <1>2, Situation
<1>9. InPlace'
  <2>1. Settled' = blocks BY <1>1, PlanNone DEF Settled
  <2>2. Exists' = tree.root_exists BY <1>1, <1>4, <1>8 DEF Exists
  <2> QED BY <1>7, <2>1, <2>2 DEF InPlace
<1>10. Ready'
  <2>1. Doable(blocks, FreshBlock', <<>>) BY PlanNone
  <2> QED BY <1>1, <2>1 DEF Good, Sound, Ready
<1>11. Accounted' BY <1>1 DEF Good, Sound, Accounted, ROOT_ID
<1>12. HeaderFollows' BY <1>4 DEF HeaderFollows
<1> QED BY <1>9, <1>10, <1>11, <1>12 DEF Sound

(* A handle is made: on what was left, or on nothing.                      *)
LEMMA OpenIntact == ASSUME Good, Open PROVE Sound'
<1>1. /\ call.pc = "closed" /\ blocks' = blocks /\ saved' = saved /\ header' = header
      /\ todo = <<>>
  BY DEF Open, OpenStorage, disk, Good, IInv, InvIn, NothingPending
<1>2. header.root_exists \in BOOLEAN BY Running DEF Good, Metadata
<1>3. PICK s, U : Place(call, header.root_exists, blocks, s, U)
  <2>1. Settled = blocks BY <1>1, PlanNone DEF Settled
  <2>2. Exists = header.root_exists BY <1>1 DEF Exists
  <2> QED BY <2>1, <2>2 DEF Good, Sound, InPlace
<1>4. AtRest(call, header.root_exists, blocks, s)
  BY <1>1, <1>2, <1>3, PlaceOf DEF Resting
<1>5. Accounted' BY <1>1 DEF Good, Sound, Accounted, ROOT_ID
<1>6. CASE ROOT_ID \in DOMAIN blocks
  <2>1. tree' = header /\ call' = Blank /\ todo' = <<>> BY <1>1, <1>6 DEF Open
  <2>2. call'.pc = "idle" /\ call'.stack = <<>> /\ call'.outcome = "NoChange"
    BY <2>1 DEF Blank
  <2>3. AtRest(call', header.root_exists, blocks, s) BY <1>4, <1>6, <2>2 DEF AtRest
  <2>4. Place(call', header.root_exists, blocks, s, U)
    BY <1>2, <2>2, <2>3, PlaceOf DEF Resting
  <2>5. InPlace'
    <3>1. Settled' = blocks BY <1>1, <2>1, PlanNone DEF Settled
    <3>2. Exists' = header.root_exists BY <2>1, <2>2 DEF Exists
    <3> QED BY <2>4, <3>1, <3>2 DEF InPlace
  <2>6. Ready'
    <3>1. Doable(blocks, FreshBlock', <<>>) BY PlanNone
    <3> QED BY <1>1, <2>1, <3>1 DEF Good, Sound, Ready
  <2>7. HeaderFollows' BY <1>1, <2>1 DEF HeaderFollows
  <2> QED BY <1>5, <2>5, <2>6, <2>7 DEF Sound
<1>7. CASE ROOT_ID \notin DOMAIN blocks
  <2>1. /\ tree' = EmptyTree /\ todo' = << Save(ROOT_ID, NewLeaf) >>
        /\ call'.pc = "opening" /\ call'.stack = <<>> /\ call'.outcome = "NoChange"
    BY <1>7 DEF Open, Blank
  <2>2. DOMAIN blocks = {}
    <3>1. ~header.root_exists BY <1>4, <1>7 DEF AtRest, WholeTree, Tree
    <3> QED BY <1>4, <1>7, <3>1 DEF AtRest
  <2>3. Len(NewLeaf.keys) <= MaxKeys BY Capacity DEF NewLeaf
  <2> DEFINE C == Settle(blocks, todo')
  <2>4. /\ Doable(blocks, FreshBlock', todo') /\ Put(blocks, C, ROOT_ID, NewLeaf)
        /\ SavesRoot(todo')
    BY <2>1, <2>3, PlanSave
  <2>5. DOMAIN C = {ROOT_ID} BY <2>2, <2>4 DEF Put
  <2> HIDE DEF C
  <2> DEFINE e == tree'.root_exists
  <2>0. e \in BOOLEAN /\ ~e BY <2>1 DEF EmptyTree
  <2> HIDE DEF e
  <2>6. AtRest(call', e, C, s) BY <2>0, <2>1, <2>5 DEF AtRest
  <2>7. Place(call', e, C, s, U) BY <2>0, <2>1, <2>6, PlaceOf DEF Resting
  <2>8. InPlace'
    <3>1. Settled' = C BY <1>1 DEF Settled, C
    <3>2. Exists' = e BY <2>1 DEF Exists, e
    <3> QED BY <2>7, <3>1, <3>2 DEF InPlace
  <2>9. Ready' BY <1>1, <2>4 DEF Good, Sound, Ready
  <2>10. HeaderFollows' BY <2>4 DEF HeaderFollows
  <2> QED BY <1>5, <2>8, <2>9, <2>10 DEF Sound
<1> QED BY <1>6, <1>7

(* A tree of one leaf.                                                     *)
LEMMA SingleLeaf ==
  ASSUME NEW B, DOMAIN B = {ROOT_ID}, B[ROOT_ID] \in WellShaped, IsLeaf(B[ROOT_ID]),
         Ordered(B[ROOT_ID].keys), B[ROOT_ID].next_leaf = NoBlock
  PROVE  \E s : Tree(B, s, ROOT_ID)
<1> DEFINE t == [ ht  |-> [ b \in DOMAIN B |-> 0 ], par |-> [ b \in DOMAIN B |-> NoBlock ],
                  lo  |-> [ b \in DOMAIN B |-> {} ], hi |-> [ b \in DOMAIN B |-> {} ] ]
<1>1. t \in Places(B) BY DEF Places, Bounds, NoBlock
<1>2. t.ht[ROOT_ID] = 0 /\ t.par[ROOT_ID] = NoBlock /\ t.lo[ROOT_ID] = {} /\ t.hi[ROOT_ID] = {}
  OBVIOUS
<1> HIDE DEF t
<1>3. NodeOK(B, t, ROOT_ID)
  BY <1>2, Lengths DEF NodeOK, LeafOK, AtLeast, Below
<1>4. HasParent(B, t, ROOT_ID, ROOT_ID) BY <1>2 DEF HasParent
<1>5. LeavesApart(B, t) BY DEF LeavesApart
<1>6. DOMAIN B \subseteq BlockId BY RootIdType
<1> QED BY <1>1, <1>3, <1>4, <1>5, <1>6 DEF Tree

(* The call finds a tree: it goes to its root.                             *)
LEMMA StartOnTreeIntact == ASSUME Good, StartOnTree PROVE Sound'
<1>1. /\ call.pc = "start" /\ todo = <<>> /\ NoStorageCall /\ UNCHANGED <<tree, todo>>
      /\ tree.root_exists
  BY DEF StartOnTree, Runs
<1>2. /\ call' = [ call EXCEPT !.pc = IF call.req.op = "clear" THEN "clear" ELSE "descend",
                               !.at = ROOT_ID ]
      /\ call \in Calls
  BY Running DEF StartOnTree, Good
<1>3. PICK s, U : Place(call, tree.root_exists, blocks, s, U) BY <1>1, Situation
<1>4. AtRest(call, tree.root_exists, blocks, s) BY <1>1, <1>3, PlaceOf, Situation DEF Resting
<1>5. /\ WholeTree(blocks, s) /\ call.stack = <<>> /\ call.outcome = "NoChange"
      /\ Tree(blocks, s, ROOT_ID) /\ ROOT_ID \in DOMAIN blocks /\ Sized(blocks, NoBlock)
  BY <1>1, <1>4 DEF AtRest, WholeTree, Tree
<1>6. /\ call'.stack = <<>> /\ call'.outcome = "NoChange" /\ call'.at = ROOT_ID
      /\ call'.pc \in {"clear", "descend"} /\ call'.req = call.req
  BY <1>2, <1>5 DEF Calls, CallsIn
<1>7. /\ OnPath(blocks, s, <<>>) /\ Fresh(blocks, <<>>) /\ Target(<<>>) = ROOT_ID
  BY DEF OnPath, Fresh, Target
<1>8. CASE call'.pc = "descend"
  <2>1. s.lo[ROOT_ID] = {} /\ s.hi[ROOT_ID] = {} BY <1>5, TreeNode DEF HasParent
  <2>2. \A k : InRange(s, ROOT_ID, k) BY <2>1 DEF InRange, AtLeast, Below
  <2>3. Searching(call', blocks, s) BY <1>5, <1>6, <1>7, <2>2 DEF Searching
  <2>4. Place(call', tree.root_exists, blocks, s, U) BY <1>1, <1>8, <2>3, PlaceOf, Situation
  <2> QED BY <1>1, <1>8, <2>4, AfterQuietHandler
<1>9. CASE call'.pc = "clear"
  <2>1. \A b \in DOMAIN blocks : \A i \in DOMAIN blocks[b].child_ids :
          blocks[b].child_ids[i] \in DOMAIN blocks
    <3> SUFFICES ASSUME NEW b \in DOMAIN blocks, NEW i \in DOMAIN blocks[b].child_ids
                 PROVE  blocks[b].child_ids[i] \in DOMAIN blocks
      OBVIOUS
    <3>1. blocks[b] \in WellShaped BY <1>5, TreeNode
    <3>2. IsInternal(blocks[b]) BY <3>1, Lengths
    <3>3. i \in 1..(Len(blocks[b].keys) + 1) BY <3>1, <3>2, Lengths
    <3> DEFINE c == blocks[b].child_ids[i]
    <3>4. c \in DOMAIN blocks BY <1>5, <3>2, <3>3, TreeChild
    <3> QED BY <3>4
  <2>2. \A b, i : Ahead(call', b, i) BY <1>6, <1>9 DEF Ahead
  <2>3. \A b \in DOMAIN blocks : Len(blocks[b].keys) <= MaxKeys BY <1>5 DEF Sized
  <2>4. Clearing(call', blocks, s, blocks)
    BY <1>5, <1>6, <1>7, <1>9, <2>1, <2>2, <2>3 DEF Clearing
  <2>5. Place(call', tree.root_exists, blocks, s, blocks)
    BY <1>1, <1>9, <2>4, PlaceOf, Situation
  <2> QED BY <1>1, <1>9, <2>5, AfterQuietHandler
<1> QED BY <1>6, <1>8, <1>9

(* The call finds no tree: upsert makes one of a single leaf.              *)
LEMMA StartOnEmptyTreeIntact == ASSUME Good, StartOnEmptyTree PROVE Sound'
<1>1. /\ call.pc = "start" /\ todo = <<>> /\ NoStorageCall /\ ~tree.root_exists
      /\ call' = Answer(call.answer) /\ call \in Calls
  BY Running DEF StartOnEmptyTree, Runs, Good
<1>2. PICK s, U : Place(call, tree.root_exists, blocks, s, U) BY <1>1, Situation
<1>3. AtRest(call, tree.root_exists, blocks, s) BY <1>1, <1>2, PlaceOf, Situation DEF Resting
<1>4. DOMAIN blocks = {ROOT_ID} BY <1>1, <1>3 DEF AtRest
<1>5. CASE call.req.op = "upsert"
  <2> DEFINE n == InsertLeaf(NewLeaf, call.req.key, call.req.val)
  <2>1. /\ tree' = [ root_exists |-> TRUE, entry_count |-> 1 ]
        /\ todo' = << Save(ROOT_ID, n) >>
    BY <1>5 DEF StartOnEmptyTree
  <2>2. call.req.key \in Key /\ call.req.val \in Val BY <1>5, RequestType DEF Good
  <2>3. NewLeaf \in WellShaped /\ IsLeaf(NewLeaf) /\ Ordered(NewLeaf.keys)
    BY NewLeafShaped DEF NewLeaf, Ordered
  <2>4. n \in WellShaped /\ IsLeaf(n) BY <2>2, <2>3, InsertLeafShaped
  <2>5. Ordered(n.keys) /\ n.next_leaf = NoBlock /\ Len(n.keys) \in {0, 1}
    <3>1. /\ Ordered(n.keys) /\ n.next_leaf = NewLeaf.next_leaf
          /\ Len(n.keys) \in {Len(NewLeaf.keys), Len(NewLeaf.keys) + 1}
      BY <2>2, <2>3, InsertLeafOrdered
    <3>2. Len(NewLeaf.keys) = 0 /\ NewLeaf.next_leaf = NoBlock BY DEF NewLeaf
    <3> QED BY <3>1, <3>2
  <2> HIDE DEF n
  <2>6. Len(n.keys) <= MaxKeys
    <3> DEFINE m == Len(n.keys)
    <3>1. m \in {0, 1} BY <2>5
    <3> HIDE DEF m
    <3>2. m <= MaxKeys BY <3>1, MaxKeysAssumption
    <3> QED BY <3>2 DEF m
  <2> DEFINE C == Settle(blocks, todo')
  <2>7. /\ Doable(blocks, FreshBlock, todo') /\ Put(blocks, C, ROOT_ID, n)
        /\ SavesRoot(todo')
    BY <2>1, <2>6, PlanSave
  <2> HIDE DEF C
  <2>8. DOMAIN C = {ROOT_ID} /\ C[ROOT_ID] = n BY <1>4, <2>7 DEF Put
  <2>9. PICK t : Tree(C, t, ROOT_ID) BY <2>4, <2>5, <2>8, SingleLeaf
  <2>10. WholeTree(C, t)
    <3>1. ~IsInternal(n) BY <2>4, Lengths
    <3> QED BY <2>6, <2>8, <2>9, <3>1 DEF WholeTree, Sized, RootSized
  <2>11. tree'.root_exists \in BOOLEAN /\ tree'.root_exists BY <2>1
  <2>12. call'.pc = "return" /\ Place(call', tree'.root_exists, C, t, C)
    BY <1>1, <2>10, <2>11, Answered
  <2> QED BY <1>1, <2>7, <2>12, AfterHandler DEF C
<1>6. CASE call.req.op # "upsert"
  <2>1. UNCHANGED <<tree, todo>> BY <1>6 DEF StartOnEmptyTree
  <2>2. call'.pc = "return" /\ Place(call', tree.root_exists, blocks, s, U)
    BY <1>1, <1>4, Answered, Situation
  <2> QED BY <1>1, <2>1, <2>2, AfterQuietHandler
<1> QED BY <1>5, <1>6

-----------------------------------------------------------------------------
(* Searching.                                                              *)

(* What a call that goes down finds where it is.                           *)
LEMMA Arrived ==
  ASSUME Good, Runs("descend")
  PROVE  /\ tree.root_exists /\ tree = header /\ todo = <<>> /\ call.pc = "descend"
         /\ call \in Calls /\ call.stack \in Seq(Frames)
         /\ \E s : /\ Searching(call, blocks, s) /\ WholeTree(blocks, s)
                   /\ Tree(blocks, s, ROOT_ID) /\ call.at \in DOMAIN blocks
                   /\ OnPath(blocks, s, call.stack) /\ Fresh(blocks, call.stack)
                   /\ call.at = Target(call.stack) /\ call.outcome = "NoChange"
                   /\ call.req.op \in ByKey => InRange(s, call.at, call.req.key)
<1>1. call.pc = "descend" /\ todo = <<>> BY DEF Runs
<1>2. call.stack \in Seq(Frames) /\ call \in Calls BY Running DEF Good
<1>3. PICK s, U : Place(call, tree.root_exists, blocks, s, U) BY <1>1, Situation
<1>4. Searching(call, blocks, s) /\ tree.root_exists BY <1>1, <1>3, PlaceOf, Situation
<1>5. call.at \in DOMAIN blocks BY Here DEF Good
<1> QED BY <1>1, <1>2, <1>4, <1>5, Situation DEF Searching, WholeTree

(* Down to the child whose bounds the key is within.                       *)
LEMMA DescendIntact == ASSUME Good, Descend PROVE Sound'
<1> DEFINE n == blocks[call.at]
           i == ChildPosition(n)
           c == n.child_ids[i]
<1>1. /\ Runs("descend") /\ IsInternal(n) /\ NoStorageCall /\ UNCHANGED <<tree, todo>>
      /\ call' = [ call EXCEPT !.at = c, !.stack = Append(call.stack, Frame(call.at, n, i)) ]
  BY DEF Descend
<1>2. /\ tree.root_exists /\ todo = <<>> /\ call.pc = "descend"
      /\ call \in Calls /\ call.stack \in Seq(Frames)
  BY <1>1, Arrived
<1>3. PICK s : /\ WholeTree(blocks, s) /\ Tree(blocks, s, ROOT_ID) /\ call.at \in DOMAIN blocks
               /\ OnPath(blocks, s, call.stack) /\ Fresh(blocks, call.stack)
               /\ call.at = Target(call.stack) /\ call.outcome = "NoChange"
               /\ call.req.op \in ByKey => InRange(s, call.at, call.req.key)
  BY <1>1, Arrived
<1>4. n \in WellShaped /\ Ordered(n.keys) BY <1>3, TreeNode
<1>5. i \in DOMAIN n.child_ids /\ i \in 1..(Len(n.keys) + 1)
  BY <1>1, <1>4, ChildPositionType, Lengths
<1> HIDE DEF i
<1> DEFINE u == Append(call.stack, Frame(call.at, n, i))
<1>6. u \in Seq(Frames) /\ OnPath(blocks, s, u) /\ Fresh(blocks, u) /\ Target(u) = c
  <2>1. IsInternal(blocks[Target(call.stack)]) BY <1>1, <1>3
  <2>2. i \in DOMAIN blocks[Target(call.stack)].child_ids BY <1>3, <1>5
  <2>3. LET w == Append(call.stack, Frame(Target(call.stack), blocks[Target(call.stack)], i))
        IN /\ w \in Seq(Frames) /\ OnPath(blocks, s, w) /\ Fresh(blocks, w)
           /\ Target(w) = blocks[Target(call.stack)].child_ids[i]
    BY <1>2, <1>3, <2>1, <2>2, PathPush
  <2> QED BY <1>3, <2>3
<1> HIDE DEF u
<1>7. /\ call'.pc = "descend" /\ call'.stack = u /\ call'.at = c
      /\ call'.outcome = "NoChange" /\ call'.req = call.req
  BY <1>1, <1>2, <1>3 DEF Calls, CallsIn, u
<1>8. call.req.op \in ByKey => InRange(s, c, call.req.key)
  <2> SUFFICES ASSUME call.req.op \in ByKey PROVE InRange(s, c, call.req.key) OBVIOUS
  <2> DEFINE k == call.req.key
             p == FindKeyIndex(n, k)
  <2>1. k \in Key /\ k \in Int BY RequestType, KeyAssumption DEF Good, ByKey
  <2>2. i = p + 1 BY DEF i, ChildPosition, ByKey
  <2>3. p \in Nat BY <1>4, FindKeyIndexType
  <2>4. \A j \in 1..Len(n.keys) : j <= p <=> n.keys[j] < k \/ n.keys[j] = k
    BY <1>1, <1>4, <2>1, KeyPosition
  <2>5. s.lo[c] = LowOf(n, s.lo[call.at], i) /\ s.hi[c] = HighOf(n, s.hi[call.at], i)
    BY <1>1, <1>3, <1>5, TreeChild
  <2>6. AtLeast(s.lo[call.at], k) /\ Below(k, s.hi[call.at]) BY <1>3 DEF InRange
  <2>7. \A j \in 1..Len(n.keys) : n.keys[j] \in Int BY <1>4, NodeParts
  <2>8. Len(n.keys) \in Nat BY <1>4, Lengths
  <2> HIDE DEF k, p, n, c
  <2>9. AtLeast(s.lo[c], k)
    <3>1. CASE i = 1 BY <2>5, <2>6, <3>1 DEF LowOf
    <3>2. CASE i # 1
      <4>1. i - 1 \in 1..Len(n.keys) /\ i - 1 <= p BY <1>5, <2>2, <2>3, <2>8, <3>2
      <4> DEFINE a == n.keys[i-1]
      <4>2. a \in Int /\ (a < k \/ a = k) BY <2>4, <2>7, <4>1
      <4>3. s.lo[c] = {a} BY <2>5, <3>2 DEF LowOf
      <4> HIDE DEF a
      <4>4. a <= k BY <2>1, <4>2
      <4> QED BY <4>3, <4>4 DEF AtLeast
    <3> QED BY <3>1, <3>2
  <2>10. Below(k, s.hi[c])
    <3>1. CASE i = Len(n.keys) + 1 BY <2>5, <2>6, <3>1 DEF HighOf
    <3>2. CASE i # Len(n.keys) + 1
      <4>1. i \in 1..Len(n.keys) /\ ~(i <= p) BY <1>5, <2>2, <2>3, <2>8, <3>2
      <4> DEFINE a == n.keys[i]
      <4>2. a \in Int /\ ~(a < k \/ a = k) BY <2>4, <2>7, <4>1
      <4>3. s.hi[c] = {a} BY <2>5, <3>2 DEF HighOf
      <4> HIDE DEF a
      <4>4. k < a BY <2>1, <4>2
      <4> QED BY <4>3, <4>4 DEF Below
    <3> QED BY <3>1, <3>2
  <2> QED BY <2>9, <2>10 DEF InRange, k
<1>9. Searching(call', blocks, s) BY <1>3, <1>6, <1>7, <1>8 DEF Searching
<1>10. Place(call', tree.root_exists, blocks, s, blocks)
  BY <1>2, <1>7, <1>9, PlaceOf, Situation
<1> QED BY <1>1, <1>2, <1>7, <1>10, AfterQuietHandler

(* The value, or none.                                                     *)
LEMMA GetFromLeafIntact == ASSUME Good, GetFromLeaf PROVE Sound'
<1>1. /\ Runs("descend") /\ NoStorageCall /\ UNCHANGED <<tree, todo>>
      /\ \E a : call' = Answer(a)
  BY DEF GetFromLeaf, AtLeaf
<1>2. tree.root_exists /\ todo = <<>> /\ call.pc = "descend" /\ call \in Calls
  BY <1>1, Arrived
<1>3. PICK s : WholeTree(blocks, s) BY <1>1, Arrived
<1>4. call'.pc = "return" /\ Place(call', tree.root_exists, blocks, s, blocks)
  BY <1>1, <1>2, <1>3, Answered, Situation
<1> QED BY <1>1, <1>2, <1>4, AfterQuietHandler

(* A key that is not there is not updated.                                 *)
LEMMA UpdateMissingIntact == ASSUME Good, UpdateMissing PROVE Sound'
<1>1. /\ Runs("descend") /\ NoStorageCall /\ UNCHANGED <<tree, todo>>
      /\ \E a : call' = Answer(a)
  BY DEF UpdateMissing, AtLeaf
<1>2. tree.root_exists /\ todo = <<>> /\ call.pc = "descend" /\ call \in Calls
  BY <1>1, Arrived
<1>3. PICK s : WholeTree(blocks, s) BY <1>1, Arrived
<1>4. call'.pc = "return" /\ Place(call', tree.root_exists, blocks, s, blocks)
  BY <1>1, <1>2, <1>3, Answered, Situation
<1> QED BY <1>1, <1>2, <1>4, AfterQuietHandler

(* From leaf to leaf.                                                      *)
LEMMA ScanLeafIntact == ASSUME Good, ScanLeaf PROVE Sound'
<1>1. /\ NoStorageCall /\ UNCHANGED <<tree, todo>> /\ todo = <<>>
      /\ call.pc \in {"descend", "scan"} /\ call \in Calls
      /\ Runs("descend") \/ Runs("scan")
  BY Running DEF ScanLeaf, AtLeaf, Runs, Good
<1>2. tree.root_exists \in BOOLEAN BY <1>1, Situation
<1>3. PICK s : /\ tree.root_exists /\ WholeTree(blocks, s) /\ Tree(blocks, s, ROOT_ID)
               /\ call.at \in DOMAIN blocks /\ call.outcome = "NoChange"
  <2>1. CASE Runs("descend") BY <2>1, Arrived
  <2>2. CASE Runs("scan")
    <3>1. call.pc = "scan" BY <2>2 DEF Runs
    <3>2. PICK s, U : Place(call, tree.root_exists, blocks, s, U) BY <1>1, Situation
    <3>3. Scanning(call, blocks, s) /\ tree.root_exists BY <1>2, <3>1, <3>2, PlaceOf
    <3> QED BY <3>3 DEF Scanning, WholeTree
  <2> QED BY <1>1, <2>1, <2>2
<1>4. IsLeaf(blocks[call.at]) BY DEF ScanLeaf, AtLeaf
<1> DEFINE n     == blocks[call.at]
           first == Cardinality({ i \in DOMAIN n.keys : BeforeStart(n.keys[i]) }) + 1
           last  == Cardinality({ i \in DOMAIN n.keys : ~PastEnd(n.keys[i]) })
           found == [ i \in 1..Len(n.keys) |-> <<n.keys[i], n.values[i]>> ]
           acc   == call.answer \o SubSeq(found, first, last)
<1>5. call' = IF last < Len(n.keys) \/ n.next_leaf = NoBlock
              THEN Answer(acc)
              ELSE [ call EXCEPT !.pc = "scan", !.at = n.next_leaf,
                                 !.stack = <<>>, !.answer = acc ]
  BY DEF ScanLeaf
<1> HIDE DEF last, acc
<1>6. CASE last < Len(n.keys) \/ n.next_leaf = NoBlock
  <2>1. call' = Answer(acc) BY <1>5, <1>6
  <2>2. call'.pc = "return" /\ Place(call', tree.root_exists, blocks, s, blocks)
    BY <1>1, <1>2, <1>3, <2>1, Answered
  <2> QED BY <1>1, <2>2, AfterQuietHandler
<1>7. CASE ~(last < Len(n.keys) \/ n.next_leaf = NoBlock)
  <2>0. /\ call' = [ call EXCEPT !.pc = "scan", !.at = n.next_leaf,
                                 !.stack = <<>>, !.answer = acc ]
        /\ n.next_leaf # NoBlock
    BY <1>5, <1>7
  <2>1. s.ht[call.at] = 0 BY <1>3, <1>4, TreeNode
  <2>2. blocks[call.at].next_leaf \in DOMAIN blocks /\ s.ht[blocks[call.at].next_leaf] = 0
    BY <1>3, <2>0, <2>1, NextLeaf
  <2>3. /\ call'.pc = "scan" /\ call'.at = blocks[call.at].next_leaf
        /\ call'.stack = <<>> /\ call'.outcome = "NoChange"
    BY <1>1, <1>3, <2>0 DEF Calls, CallsIn
  <2>4. Scanning(call', blocks, s) BY <1>3, <2>2, <2>3 DEF Scanning
  <2>5. Place(call', tree.root_exists, blocks, s, blocks) BY <1>2, <1>3, <2>3, <2>4, PlaceOf
  <2> QED BY <1>1, <2>3, <2>5, AfterQuietHandler
<1> QED BY <1>6, <1>7

-----------------------------------------------------------------------------
(* Inserting.                                                              *)

(* A node with one key too many has halves that are big enough, and the    *)
(* key it is cut at is strictly within its bounds.                         *)
LEMMA SplitNode ==
  ASSUME NEW n \in WellShaped, Ordered(n.keys), Len(n.keys) = MaxKeys + 1
  PROVE  /\ Halves(n, Split(n).left, Split(n).right, Split(n).key)
         /\ Split(n).key \in Key
         /\ Len(Split(n).left.keys) <= MaxKeys /\ Len(Split(n).right.keys) <= MaxKeys
         /\ MinKeys <= Len(Split(n).left.keys) /\ MinKeys <= Len(Split(n).right.keys)
         /\ \A lo, hi \in Bounds :
              Within(n, lo, hi) => Above(lo, Split(n).key) /\ Below(Split(n).key, hi)
<1> DEFINE len == Len(n.keys)
           m == len \div 2
           a == Len(Split(n).left.keys)
           b == Len(Split(n).right.keys)
           k == Split(n).key
<1>1. /\ MaxKeys \in Nat /\ MaxKeys >= 2 /\ MinKeys \in Nat
      /\ MinKeys + MinKeys + 1 <= MaxKeys /\ MaxKeys <= MinKeys + MinKeys + 2
  BY Capacity
<1>2. len = MaxKeys + 1 /\ m = MinKeys + 1 BY Capacity
<1>3. len \in Nat /\ len > 2 BY <1>1, <1>2
<1>4. /\ Halves(n, Split(n).left, Split(n).right, k) /\ k = n.keys[m + 1] /\ k \in Key
      /\ a = m /\ b = len - (IF IsLeaf(n) THEN m ELSE m + 1)
  BY <1>3, SplitHalves
<1>5. b = len - m \/ b = len - (m + 1) BY <1>4
<1> HIDE DEF len, m, a, b, k
<1>6. a <= MaxKeys /\ b <= MaxKeys /\ MinKeys <= a /\ MinKeys <= b
  BY <1>1, <1>2, <1>4, <1>5
<1>7. 1 \in 1..len /\ m + 1 \in 1..len /\ 1 < m + 1 /\ m \in Nat BY <1>1, <1>2
<1>8. ASSUME NEW lo \in Bounds, NEW hi \in Bounds, Within(n, lo, hi)
      PROVE  Above(lo, k) /\ Below(k, hi)
  <2>1. Below(k, hi) BY <1>4, <1>7, <1>8 DEF Within, len
  <2>2. CASE IsInternal(n) BY <1>4, <1>7, <1>8, <2>1, <2>2 DEF Within, len
  <2>3. CASE IsLeaf(n)
    <3> DEFINE j == n.keys[1]
    <3>1. DOMAIN n.keys = 1..len /\ j \in Key /\ j \in Int /\ k \in Int
      <4>1. j \in Key BY <1>7, NodeParts DEF len
      <4> QED BY <1>4, <4>1, NodeParts, KeyAssumption DEF len
    <3>2. j < k
      <4> DEFINE h == m + 1
      <4>1. 1 \in DOMAIN n.keys /\ h \in DOMAIN n.keys /\ 1 < h BY <1>7, <3>1
      <4> HIDE DEF h
      <4>2. n.keys[1] < n.keys[h] BY <4>1 DEF Ordered
      <4> QED BY <1>4, <4>2 DEF h
    <3>3. AtLeast(lo, j) BY <1>7, <1>8, <2>3 DEF Within, len
    <3> HIDE DEF j
    <3>4. \A l \in lo : l \in Int BY BoundsType
    <3>5. \A l, c, d \in Int : l <= c /\ c < d => l < d OBVIOUS
    <3>6. Above(lo, k) BY <3>1, <3>2, <3>3, <3>4, <3>5 DEF AtLeast, Above
    <3> QED BY <2>1, <3>6
  <2> QED BY <2>2, <2>3, NodeParts
<1> QED BY <1>4, <1>6, <1>8 DEF a, b, k

(* C is B with the halves of n in the block id and in a new block.         *)
PutHalves(B, C, id, n, split) ==
  /\ DOMAIN C = DOMAIN B \cup {split.id}
  /\ \A b \in DOMAIN B \ {id} : C[b] = B[b]
  /\ split.key \in Key /\ Halves(n, C[id], C[split.id], split.key)
  /\ IsLeaf(n) => C[id].next_leaf = split.id
  /\ Len(C[id].keys) <= MaxKeys /\ Len(C[split.id].keys) <= MaxKeys
  /\ MinKeys <= Len(C[id].keys) /\ MinKeys <= Len(C[split.id].keys)
  /\ \A lo, hi \in Bounds :
       Within(n, lo, hi) => Above(lo, split.key) /\ Below(split.key, hi)

(* What saving a changed node comes to, whole or in two halves.            *)
LEMMA SaveOrSplitPlan ==
  ASSUME NEW id \in DOMAIN blocks, FreshBlock \in Allotted, FreshBlock \notin DOMAIN blocks,
         NEW n \in WellShaped, Ordered(n.keys), Len(n.keys) <= MaxKeys + 1,
         NEW res, res = SaveOrSplit(id, n)
  PROVE  /\ Doable(blocks, FreshBlock, res.writes)
         /\ Len(n.keys) <= MaxKeys =>
              res.split = NoSplit /\ Put(blocks, Settle(blocks, res.writes), id, n)
         /\ ~(Len(n.keys) <= MaxKeys) =>
              /\ res.split # NoSplit /\ res.split.id = FreshBlock
              /\ PutHalves(blocks, Settle(blocks, res.writes), id, n, res.split)
<1> DEFINE len == Len(n.keys)
           C   == Settle(blocks, res.writes)
           l   == Split(n).left
           r   == Split(n).right
           k   == Split(n).key
           l2  == LinkToRight(l)
<1>1. len \in Nat /\ MaxKeys \in Nat BY Lengths, Capacity
<1>2. CASE len <= MaxKeys
  <2>1. res.split = NoSplit /\ res.writes = <<Save(id, n)>> BY <1>2 DEF SaveOrSplit
  <2>2. Doable(blocks, FreshBlock, res.writes) /\ Put(blocks, C, id, n)
    BY <1>2, <2>1, PlanSave
  <2> QED BY <1>2, <2>1, <2>2
<1>3. CASE ~(len <= MaxKeys)
  <2>1. /\ res.split = [ key |-> k, id |-> FreshBlock ]
        /\ res.writes = SplitWrites(id, l2, r)
    BY <1>3 DEF SaveOrSplit
  <2>3. len = MaxKeys + 1 BY <1>1, <1>3
  <2>4. /\ Halves(n, l, r, k) /\ k \in Key
        /\ Len(l.keys) <= MaxKeys /\ Len(r.keys) <= MaxKeys
        /\ MinKeys <= Len(l.keys) /\ MinKeys <= Len(r.keys)
        /\ \A lo, hi \in Bounds : Within(n, lo, hi) => Above(lo, k) /\ Below(k, hi)
    BY <2>3, SplitNode
  <2> HIDE DEF l, r, k
  <2>5. /\ Halves(n, l2, r, k) /\ l2.keys = l.keys
        /\ IsLeaf(n) => l2.next_leaf = FreshBlock
    <3>1. IsLeaf(l) <=> IsLeaf(n) BY <2>4 DEF Halves, IsLeaf
    <3>2. CASE IsLeaf(n)
      <4>1. l2 = [ l EXCEPT !.next_leaf = FreshBlock ] BY <3>1, <3>2 DEF LinkToRight
      <4>2. FreshBlock \in OptionBlockId BY DEF Allotted, OptionBlockId
      <4> QED BY <2>4, <3>2, <4>1, <4>2, HalvesLinked
    <3>3. CASE ~IsLeaf(n) BY <2>4, <3>1, <3>3 DEF LinkToRight
    <3> QED BY <3>2, <3>3
  <2> HIDE DEF l2
  <2>6. Len(l2.keys) <= MaxKeys BY <2>4, <2>5
  <2> DEFINE q == FreshBlock
  <2>7. /\ Doable(blocks, FreshBlock, res.writes)
        /\ DOMAIN C = DOMAIN blocks \cup {q} /\ C[q] = r /\ C[id] = l2
        /\ \A b \in DOMAIN blocks \ {id} : C[b] = blocks[b]
    <3> DEFINE w == SplitWrites(id, l2, r)
    <3>1. Len(r.keys) <= MaxKeys BY <2>4
    <3>2. Doable(blocks, FreshBlock, w) /\ PutTwo(blocks, Settle(blocks, w), FreshBlock, id, l2, r)
      BY <2>6, <3>1, PlanSplit
    <3>3. res.writes = w BY <2>1
    <3> HIDE DEF w
    <3> QED BY <3>2, <3>3 DEF PutTwo
  <2>8. res.split # NoSplit /\ res.split.key = k /\ res.split.id = q
    BY <2>1 DEF NoSplit, NoBlock, Allotted
  <2> HIDE DEF C, q
  <2>9. /\ Halves(n, C[id], C[q], k) /\ (IsLeaf(n) => C[id].next_leaf = q)
        /\ Len(C[id].keys) <= MaxKeys /\ Len(C[q].keys) <= MaxKeys
        /\ MinKeys <= Len(C[id].keys) /\ MinKeys <= Len(C[q].keys)
    BY <2>4, <2>5, <2>6, <2>7 DEF q
  <2>10. PutHalves(blocks, C, id, n, res.split) BY <2>4, <2>7, <2>8, <2>9 DEF PutHalves
  <2> QED BY <1>3, <2>7, <2>8, <2>10 DEF C, q
<1> QED BY <1>2, <1>3

(* The path's nodes are still the ones on disk when the only block that    *)
(* changes is not on it.                                                   *)
LEMMA StillFresh ==
  ASSUME NEW B, NEW stack, Fresh(B, stack), NEW C, NEW x,
         \A j \in DOMAIN stack : stack[j].id # x /\ stack[j].id \in DOMAIN B,
         \A b \in DOMAIN B \ {x} : C[b] = B[b]
  PROVE  Fresh(C, stack)
BY DEF Fresh

(* Every node has its share of keys.                                       *)
LEMMA AllSized ==
  ASSUME NEW C, DOMAIN C \subseteq BlockId,
         \A b \in DOMAIN C : /\ Len(C[b].keys) <= MaxKeys
                             /\ b # ROOT_ID => Len(C[b].keys) >= MinKeys
  PROVE  Sized(C, NoBlock)
<1>1. \A b \in DOMAIN C : b # NoBlock BY DEF BlockId, NoBlock
<1> QED BY <1>1 DEF Sized

(* A key more, or a new value, in the leaf the key belongs to.             *)
LEMMA InsertIntoLeafIntact == ASSUME Good, InsertIntoLeaf PROVE Sound'
<1> DEFINE x   == call.at
           k   == call.req.key
           n   == InsertLeaf(blocks[x], k, call.req.val)
           res == SaveOrSplit(x, n)
           C   == Settle(blocks, todo')
<1>1. /\ Runs("descend") /\ IsLeaf(blocks[x]) /\ call.req.op \in {"upsert", "update"}
      /\ NoStorageCall /\ tree' = tree /\ AfterInsert(res, call.stack)
  BY DEF InsertIntoLeaf, AtLeaf
<1>2. /\ tree.root_exists /\ tree = header /\ todo = <<>> /\ call.pc = "descend"
      /\ call \in Calls /\ call.stack \in Seq(Frames)
  BY <1>1, Arrived
<1>3. PICK s : /\ WholeTree(blocks, s) /\ Tree(blocks, s, ROOT_ID) /\ x \in DOMAIN blocks
               /\ OnPath(blocks, s, call.stack) /\ Fresh(blocks, call.stack)
               /\ x = Target(call.stack) /\ call.outcome = "NoChange"
               /\ call.req.op \in ByKey => InRange(s, x, k)
  BY <1>1, Arrived
<1>4. k \in Key /\ call.req.val \in Val /\ InRange(s, x, k)
  BY <1>1, <1>3, RequestType DEF Good, ByKey
<1>5. Sized(blocks, NoBlock) /\ RootSized(blocks) BY <1>3 DEF WholeTree
<1>6. /\ blocks[x] \in WellShaped /\ Ordered(blocks[x].keys) /\ Len(blocks[x].keys) \in Nat
      /\ Len(blocks[x].keys) <= MaxKeys /\ s.lo[x] \in Bounds /\ s.hi[x] \in Bounds
      /\ x \in BlockId /\ x # NoBlock /\ (x # ROOT_ID => MinKeys <= Len(blocks[x].keys))
  <2>1. x \in BlockId /\ x # NoBlock BY <1>3, TreeNode DEF NoBlock, BlockId
  <2>2. x # ROOT_ID => Len(blocks[x].keys) >= MinKeys BY <1>3, <1>5, <2>1 DEF Sized
  <2>3. Len(blocks[x].keys) \in Nat /\ MinKeys \in Nat BY <1>3, TreeNode, Lengths, Capacity
  <2> QED BY <1>3, <1>5, <2>1, <2>2, <2>3, TreeNode DEF Sized
<1>7. n \in WellShaped /\ IsLeaf(n) BY <1>1, <1>4, <1>6, InsertLeafShaped
<1>8. /\ Ordered(n.keys) /\ n.next_leaf = blocks[x].next_leaf
      /\ \A i \in 1..Len(n.keys) :
           n.keys[i] = k \/ \E j \in 1..Len(blocks[x].keys) : n.keys[i] = blocks[x].keys[j]
      /\ Len(n.keys) \in {Len(blocks[x].keys), Len(blocks[x].keys) + 1}
  BY <1>1, <1>4, <1>6, InsertLeafOrdered
<1>9. \A i \in 1..Len(n.keys) : AtLeast(s.lo[x], n.keys[i]) /\ Below(n.keys[i], s.hi[x])
  <2>1. Within(blocks[x], s.lo[x], s.hi[x]) BY <1>3, TreeWithin
  <2>2. \A j \in 1..Len(blocks[x].keys) :
          AtLeast(s.lo[x], blocks[x].keys[j]) /\ Below(blocks[x].keys[j], s.hi[x])
    BY <1>1, <2>1 DEF Within
  <2> QED BY <1>4, <1>8, <2>2 DEF InRange
<1>10. Len(n.keys) <= MaxKeys + 1 /\ Len(blocks[x].keys) <= Len(n.keys) /\ Len(n.keys) \in Nat
  <2> DEFINE a == Len(n.keys)
             b == Len(blocks[x].keys)
  <2>1. a \in {b, b + 1} /\ b \in Nat /\ b <= MaxKeys /\ MaxKeys \in Nat
    BY <1>6, <1>8, Capacity
  <2> HIDE DEF a, b
  <2>2. a <= MaxKeys + 1 /\ b <= a /\ a \in Nat BY <2>1
  <2> QED BY <2>2 DEF a, b
<1> HIDE DEF n
<1>11. /\ todo' = res.writes /\ call'.pc = "insert_up" /\ call'.split = res.split
       /\ call'.stack = (IF res.split = NoSplit THEN <<>> ELSE call.stack)
       /\ call'.outcome = "NoChange"
  BY <1>1, <1>2, <1>3 DEF AfterInsert, Calls, CallsIn
<1>12. FreshBlock \in Allotted /\ FreshBlock \notin DOMAIN blocks /\ tree.root_exists \in BOOLEAN
  BY <1>2, Situation
<1>13. /\ Doable(blocks, FreshBlock, res.writes)
       /\ Len(n.keys) <= MaxKeys =>
            res.split = NoSplit /\ Put(blocks, Settle(blocks, res.writes), x, n)
       /\ ~(Len(n.keys) <= MaxKeys) =>
            /\ res.split # NoSplit /\ res.split.id = FreshBlock
            /\ PutHalves(blocks, Settle(blocks, res.writes), x, n, res.split)
  BY <1>3, <1>7, <1>8, <1>10, <1>12, SaveOrSplitPlan
<1> HIDE DEF x, res
<1>14. CASE Len(n.keys) <= MaxKeys
  <2>1. Put(blocks, C, x, n) /\ call'.split = NoSplit /\ call'.stack = <<>>
    BY <1>11, <1>13, <1>14
  <2> HIDE DEF C
  <2>2. DOMAIN C = DOMAIN blocks /\ C[x] = n /\ \A b \in DOMAIN blocks \ {x} : C[b] = blocks[b]
    BY <1>3, <2>1 DEF Put
  <2>3. Tree(C, s, ROOT_ID)
    BY <1>1, <1>3, <1>7, <1>8, <1>9, <2>2, PutLeaf DEF x
  <2>4. Sized(C, NoBlock)
    <3> SUFFICES ASSUME NEW b \in DOMAIN C
                 PROVE  /\ Len(C[b].keys) <= MaxKeys
                        /\ b # ROOT_ID => Len(C[b].keys) >= MinKeys
      BY <2>3, AllSized DEF Tree
    <3>1. CASE b = x
      <4> DEFINE l == Len(n.keys)
                 m == Len(blocks[x].keys)
      <4>1. l \in Nat /\ m \in Nat /\ m <= l /\ (x # ROOT_ID => MinKeys <= m) /\ MinKeys \in Nat
        BY <1>6, <1>10, Capacity
      <4> HIDE DEF l, m
      <4>2. x # ROOT_ID => l >= MinKeys BY <4>1
      <4> QED BY <1>14, <2>2, <3>1, <4>2 DEF l
    <3>2. CASE b # x
      <4>1. b \in DOMAIN blocks /\ C[b] = blocks[b] /\ b # NoBlock
        BY <1>3, <2>2, <3>2, TreeNode DEF NoBlock, BlockId
      <4> QED BY <1>5, <4>1 DEF Sized
    <3> QED BY <3>1, <3>2
  <2>5. RootSized(C)
    <3>1. CASE x = ROOT_ID BY <1>7, <2>2, <3>1, Lengths DEF RootSized
    <3>2. CASE x # ROOT_ID
      <4>1. ROOT_ID \in DOMAIN blocks BY <1>3 DEF Tree
      <4> QED BY <1>5, <2>2, <3>2, <4>1 DEF RootSized
    <3> QED BY <3>1, <3>2
  <2>6. Inserting(call', C, s, C) BY <1>11, <2>1, <2>3, <2>4, <2>5 DEF Inserting, WholeTree
  <2>7. Place(call', tree'.root_exists, C, s, C) BY <1>1, <1>2, <1>11, <1>12, <2>6, PlaceOf
  <2> QED BY <1>1, <1>2, <1>11, <1>13, <2>7, AfterHandler DEF C
<1>15. CASE ~(Len(n.keys) <= MaxKeys)
  <2> DEFINE U == [ b \in DOMAIN blocks |-> IF b = x THEN n ELSE blocks[b] ]
             q == call'.split.id
  <2>1. /\ PutHalves(blocks, C, x, n, call'.split) /\ call'.split # NoSplit
        /\ q = FreshBlock /\ call'.stack = call.stack
    BY <1>11, <1>13, <1>15
  <2>2. DOMAIN U = DOMAIN blocks /\ U[x] = n /\ \A b \in DOMAIN blocks \ {x} : U[b] = blocks[b]
    BY <1>3
  <2> HIDE DEF C, U, q
  <2>3. Tree(U, s, ROOT_ID)
    BY <1>1, <1>3, <1>7, <1>8, <1>9, <2>2, PutLeaf DEF x
  <2>4. /\ DOMAIN C = DOMAIN U \cup {q} /\ q \in Allotted \ DOMAIN U
        /\ \A b \in DOMAIN U \ {x} : C[b] = U[b]
        /\ Halves(U[x], C[x], C[q], call'.split.key) /\ (IsLeaf(U[x]) => C[x].next_leaf = q)
        /\ call'.split.key \in Key
        /\ Len(C[x].keys) <= MaxKeys /\ Len(C[q].keys) <= MaxKeys
        /\ MinKeys <= Len(C[x].keys) /\ MinKeys <= Len(C[q].keys)
    BY <1>12, <2>1, <2>2 DEF PutHalves, q
  <2>5. Above(s.lo[x], call'.split.key) /\ Below(call'.split.key, s.hi[x])
    <3>1. Within(n, s.lo[x], s.hi[x]) BY <1>3, <2>2, <2>3, TreeWithin
    <3> QED BY <1>6, <2>1, <3>1 DEF PutHalves
  <2>6. CutAt(C, s, U, x, q, call'.split.key)
    BY <1>3, <2>2, <2>4, <2>5 DEF CutAt
  <2>7. /\ C[x].keys \in Seq(Key) /\ C[q].keys \in Seq(Key)
        /\ Len(C[x].keys) \in Nat /\ Len(C[q].keys) \in Nat
    <3>1. C[x] \in WellShaped /\ C[q] \in WellShaped BY <2>4 DEF Halves
    <3> QED BY <3>1, NodeParts
  <2>8. MinKeys \in Nat BY Capacity
  <2>9. Len(C[x].keys) >= MinKeys /\ Len(C[q].keys) >= MinKeys BY <2>4, <2>7, <2>8
  <2>10. Sized(C, NoBlock)
    <3>0. DOMAIN C \subseteq BlockId
      BY <2>3, <2>4 DEF Tree, BlockId, Allotted
    <3> SUFFICES ASSUME NEW b \in DOMAIN C
                 PROVE  /\ Len(C[b].keys) <= MaxKeys
                        /\ b # ROOT_ID => Len(C[b].keys) >= MinKeys
      BY <3>0, AllSized
    <3>1. CASE b = x \/ b = q BY <2>4, <2>9, <3>1
    <3>2. CASE b # x /\ b # q
      <4>1. b \in DOMAIN blocks /\ C[b] = blocks[b] /\ b # NoBlock
        BY <1>3, <2>2, <2>4, <3>2, TreeNode DEF NoBlock, BlockId
      <4> QED BY <1>5, <4>1 DEF Sized
    <3> QED BY <3>1, <3>2
  <2>11. \A j \in DOMAIN call.stack : call.stack[j].id # x /\ call.stack[j].id \in DOMAIN blocks
    BY <1>2, <1>3, PathTarget DEF OnPath
  <2>12. OnPath(U, s, call.stack) BY <1>3, <2>2, <2>11, PathKept
  <2>13. Fresh(U, call.stack) BY <1>3, <2>2, <2>11, StillFresh
  <2>14. call.stack # <<>> => RootSized(C)
    <3> SUFFICES ASSUME call.stack # <<>> PROVE RootSized(C) OBVIOUS
    <3>1. x # ROOT_ID BY <1>2, <1>3, PathTarget
    <3>2. ROOT_ID \in DOMAIN blocks BY <1>3 DEF Tree
    <3>3. C[ROOT_ID] = blocks[ROOT_ID] BY <2>2, <2>4, <3>1, <3>2
    <3> QED BY <1>5, <3>3 DEF RootSized
  <2>15. Target(call'.stack) = x BY <1>3, <2>1
  <2>16. Splitting(call', C, s, U)
    BY <2>1, <2>3, <2>6, <2>9, <2>10, <2>12, <2>13, <2>14, <2>15 DEF Splitting, q
  <2>17. Inserting(call', C, s, U) BY <1>11, <2>1, <2>16 DEF Inserting
  <2>18. Place(call', tree'.root_exists, C, s, U) BY <1>1, <1>2, <1>11, <1>12, <2>17, PlaceOf
  <2> QED BY <1>1, <1>2, <1>11, <1>13, <2>18, AfterHandler DEF C
<1> QED BY <1>14, <1>15

(* A key between the separators around a child is between all the ones     *)
(* before it and all the ones after it.                                    *)
LEMMA AddPosition ==
  ASSUME NEW n \in WellShaped, Ordered(n.keys), NEW i \in 1..(Len(n.keys) + 1), NEW k \in Key,
         NEW lo, NEW hi, Above(LowOf(n, lo, i), k), Below(k, HighOf(n, hi, i))
  PROVE  \A j \in 1..Len(n.keys) : IF j < i THEN n.keys[j] < k ELSE k < n.keys[j]
<1> SUFFICES ASSUME NEW j \in 1..Len(n.keys)
             PROVE  IF j < i THEN n.keys[j] < k ELSE k < n.keys[j]
  OBVIOUS
<1>1. /\ Len(n.keys) \in Nat /\ DOMAIN n.keys = 1..Len(n.keys) /\ k \in Int
      /\ \A m \in 1..Len(n.keys) : n.keys[m] \in Int
  BY NodeParts, KeyAssumption
<1>2. CASE j < i
  <2> DEFINE h == i - 1
             a == n.keys[j]
             b == n.keys[h]
  <2>1. h \in 1..Len(n.keys) /\ i # 1 /\ (j < h \/ j = h) BY <1>1, <1>2
  <2>2. LowOf(n, lo, i) = {b} BY <2>1 DEF LowOf
  <2>3. a \in Int /\ b \in Int BY <1>1, <2>1
  <2>4. a < b \/ a = b BY <1>1, <2>1 DEF Ordered
  <2> HIDE DEF a, b
  <2>5. b < k BY <2>2 DEF Above
  <2>6. a < k BY <1>1, <2>3, <2>4, <2>5
  <2> QED BY <1>2, <2>6 DEF a
<1>3. CASE ~(j < i)
  <2> DEFINE a == n.keys[j]
             b == n.keys[i]
  <2>1. i \in 1..Len(n.keys) /\ i # Len(n.keys) + 1 /\ (i < j \/ i = j) BY <1>1, <1>3
  <2>2. HighOf(n, hi, i) = {b} BY <2>1 DEF HighOf
  <2>3. a \in Int /\ b \in Int BY <1>1, <2>1
  <2>4. b < a \/ a = b BY <1>1, <2>1 DEF Ordered
  <2> HIDE DEF a, b
  <2>5. k < b BY <2>2 DEF Below
  <2>6. k < a BY <1>1, <2>3, <2>4, <2>5
  <2> QED BY <1>3, <2>6 DEF a
<1> QED BY <1>2, <1>3

(* What an ancestor finds whose child has split.                           *)
LEMMA SplitBelow ==
  ASSUME Good, Runs("insert_up"), call.split # NoSplit
  PROVE  /\ tree.root_exists /\ tree = header /\ todo = <<>> /\ call \in Calls
         /\ call.stack \in Seq(Frames) /\ call.outcome = "NoChange"
         /\ \E s, U : Splitting(call, blocks, s, U)
<1>1. call.pc = "insert_up" /\ todo = <<>> BY DEF Runs
<1>2. PICK s, U : Place(call, tree.root_exists, blocks, s, U) BY <1>1, Situation
<1>3. Inserting(call, blocks, s, U) /\ tree.root_exists BY <1>1, <1>2, PlaceOf, Situation
<1> QED BY <1>1, <1>3, Situation, Running DEF Inserting, Good

(* The new half is linked to its parent, which may be one too many there.  *)
LEMMA InsertIntoParentIntact == ASSUME Good, InsertIntoParent PROVE Sound'
<1> DEFINE f   == Last(call.stack)
           p   == f.id
           i   == f.idx
           k   == call.split.key
           q   == call.split.id
           x   == Target(call.stack)
           n   == InsertInternal(f.node, k, f.node.child_ids[i], q)
           res == SaveOrSplit(p, n)
           C   == Settle(blocks, todo')
           rest == Front(call.stack)
<1>1. /\ Runs("insert_up") /\ call.stack # <<>> /\ NoStorageCall /\ tree' = tree
      /\ AfterInsert(res, rest) /\ call.pc = "insert_up" /\ todo = <<>>
  BY DEF InsertIntoParent, Runs
<1>2. call.split # NoSplit
  <2>1. PICK s, U : Place(call, tree.root_exists, blocks, s, U) BY <1>1, Situation
  <2>2. Inserting(call, blocks, s, U) BY <1>1, <2>1, PlaceOf, Situation
  <2> QED BY <1>1, <2>2 DEF Inserting
<1>3. /\ tree.root_exists /\ tree = header /\ call \in Calls
      /\ call.stack \in Seq(Frames) /\ call.outcome = "NoChange"
  BY <1>1, <1>2, SplitBelow
<1>4. PICK s, U : Splitting(call, blocks, s, U) BY <1>1, <1>2, SplitBelow
<1>5. /\ Tree(U, s, ROOT_ID) /\ Sized(blocks, NoBlock) /\ RootSized(blocks)
      /\ OnPath(U, s, call.stack) /\ Fresh(U, call.stack)
      /\ Len(blocks[x].keys) >= MinKeys /\ CutAt(blocks, s, U, x, q, k)
  BY <1>1, <1>4 DEF Splitting
<1>6. /\ x \in DOMAIN U /\ q \in Allotted /\ q \notin DOMAIN U
      /\ DOMAIN blocks = DOMAIN U \cup {q}
      /\ \A b \in DOMAIN U \ {x} : blocks[b] = U[b]
      /\ Halves(U[x], blocks[x], blocks[q], k) /\ (IsLeaf(U[x]) => blocks[x].next_leaf = q)
      /\ k \in Key /\ Above(s.lo[x], k) /\ Below(k, s.hi[x])
  BY <1>5 DEF CutAt
<1>7. /\ p \in DOMAIN U /\ U[p] = f.node /\ IsInternal(U[p]) /\ p # x
      /\ i \in 1..(Len(U[p].keys) + 1) /\ x = U[p].child_ids[i]
      /\ \A j \in DOMAIN call.stack : call.stack[j].id # x
  BY <1>1, <1>3, <1>5, PathTarget
<1>8. /\ rest \in Seq(Frames) /\ OnPath(U, s, rest) /\ Target(rest) = p
      /\ \A j \in DOMAIN rest : j \in DOMAIN call.stack /\ rest[j] = call.stack[j]
      /\ \A j \in DOMAIN rest : rest[j].id # p
      /\ Len(rest) \in Nat /\ Len(rest) + 1 = Len(call.stack)
      /\ Len(call.stack) > 1 => p # ROOT_ID
  BY <1>1, <1>3, <1>5, PathFront, PathApart
<1>9. U[p] \in WellShaped /\ Ordered(U[p].keys) /\ p \in BlockId /\ ROOT_ID \in DOMAIN U
  BY <1>5, <1>7, TreeNode DEF Tree
<1>30. n = InsertInternal(U[p], k, U[p].child_ids[i], q) BY <1>7
<1> HIDE DEF f, x, p, i, k, q, n
<1>10. p \in DOMAIN blocks /\ blocks[p] = U[p] /\ q # p /\ q # x BY <1>6, <1>7
<1>11. ChildAdded(U[p], i, k, q, n)
  <2>1. s.lo[x] = LowOf(U[p], s.lo[p], i) /\ s.hi[x] = HighOf(U[p], s.hi[p], i)
    BY <1>5, <1>7, TreeChild
  <2>2. /\ k \in Key /\ q \in Allotted /\ i \in 1..(Len(U[p].keys) + 1) /\ IsInternal(U[p])
        /\ U[p] \in WellShaped /\ Ordered(U[p].keys)
    BY <1>6, <1>7, <1>9
  <2>3. \A j \in 1..Len(U[p].keys) : IF j < i THEN U[p].keys[j] < k ELSE k < U[p].keys[j]
    BY <1>6, <2>1, <2>2, AddPosition
  <2> DEFINE m == U[p]
             g == InsertInternal(m, k, m.child_ids[i], q)
  <2> HIDE DEF m
  <2>4. ChildAdded(m, i, k, q, g)
    <3>1. /\ k \in Key /\ q \in Allotted /\ i \in 1..(Len(m.keys) + 1) /\ IsInternal(m)
          /\ m \in WellShaped /\ Ordered(m.keys)
      BY <2>2 DEF m
    <3>2. \A j \in 1..Len(m.keys) : IF j < i THEN m.keys[j] < k ELSE k < m.keys[j]
      BY <2>3 DEF m
    <3> QED BY <3>1, <3>2, InsertInternalAdds
  <2> QED BY <1>30, <2>4 DEF m
<1>12. /\ n \in WellShaped /\ IsInternal(n) /\ Len(n.keys) = Len(U[p].keys) + 1
       /\ Len(n.keys) \in Nat /\ Len(U[p].keys) \in Nat
  BY <1>9, <1>11, Lengths DEF ChildAdded, Inserted
<1>13. /\ Len(U[p].keys) <= MaxKeys /\ (p # ROOT_ID => Len(U[p].keys) >= MinKeys)
       /\ \A b \in DOMAIN blocks : /\ Len(blocks[b].keys) <= MaxKeys
                                   /\ b # ROOT_ID /\ b # NoBlock => Len(blocks[b].keys) >= MinKeys
  <2>1. p # NoBlock BY <1>9 DEF BlockId, NoBlock
  <2> QED BY <1>5, <1>10, <2>1 DEF Sized
<1>14. Len(n.keys) <= MaxKeys + 1 /\ (p # ROOT_ID => Len(n.keys) >= MinKeys) /\ Len(n.keys) # 0
  <2> DEFINE a == Len(n.keys)
             b == Len(U[p].keys)
  <2>1. /\ a = b + 1 /\ b \in Nat /\ b <= MaxKeys /\ (p # ROOT_ID => b >= MinKeys)
        /\ MaxKeys \in Nat /\ MinKeys \in Nat
    BY <1>12, <1>13, Capacity
  <2> HIDE DEF a, b
  <2>2. a <= MaxKeys + 1 /\ (p # ROOT_ID => a >= MinKeys) /\ a # 0 BY <2>1
  <2> QED BY <2>2 DEF a
<1>15. Within(n, s.lo[p], s.hi[p]) => Ordered(n.keys) BY DEF Within
<1> DEFINE V == [ b \in DOMAIN blocks |-> IF b = p THEN n ELSE blocks[b] ]
<1>16. /\ DOMAIN V = DOMAIN blocks /\ V[p] = n
       /\ \A b \in DOMAIN blocks \ {p} : V[b] = blocks[b]
  BY <1>10, SMTT(20)
<1> HIDE DEF V
<1>17. CutIn(U, s, V, p, i, x, q, k)
  <2>1. \A b \in DOMAIN U \ {p, x} : V[b] = U[b] BY <1>6, <1>16
  <2>2. V[x] = blocks[x] /\ V[q] = blocks[q] BY <1>6, <1>7, <1>10, <1>16
  <2> QED BY <1>6, <1>7, <1>11, <1>16, <2>1, <2>2 DEF CutIn
<1>18. PICK t : Tree(V, t, ROOT_ID) /\ \A b \in DOMAIN U : t.ht[b] = s.ht[b]
  BY <1>5, <1>17, Cut
<1>19. Ordered(n.keys) /\ t.lo[p] \in Bounds /\ t.hi[p] \in Bounds /\ Within(n, t.lo[p], t.hi[p])
  BY <1>10, <1>16, <1>18, TreeNode, TreeWithin
<1>20. /\ todo' = res.writes /\ call'.pc = "insert_up" /\ call'.split = res.split
       /\ call'.stack = (IF res.split = NoSplit THEN <<>> ELSE rest)
       /\ call'.outcome = "NoChange"
  BY <1>1, <1>3 DEF AfterInsert, Calls, CallsIn
<1>21. FreshBlock \in Allotted /\ FreshBlock \notin DOMAIN blocks /\ tree.root_exists \in BOOLEAN
  BY <1>1, Situation
<1>22. /\ Doable(blocks, FreshBlock, res.writes)
       /\ Len(n.keys) <= MaxKeys =>
            res.split = NoSplit /\ Put(blocks, Settle(blocks, res.writes), p, n)
       /\ ~(Len(n.keys) <= MaxKeys) =>
            /\ res.split # NoSplit /\ res.split.id = FreshBlock
            /\ PutHalves(blocks, Settle(blocks, res.writes), p, n, res.split)
  BY <1>10, <1>12, <1>14, <1>19, <1>21, SaveOrSplitPlan
<1> HIDE DEF res, rest
<1>23. CASE Len(n.keys) <= MaxKeys
  <2>1. Put(blocks, C, p, n) /\ call'.split = NoSplit /\ call'.stack = <<>>
    BY <1>20, <1>22, <1>23
  <2> HIDE DEF C
  <2>2. DOMAIN C = DOMAIN blocks /\ C[p] = n /\ \A b \in DOMAIN blocks \ {p} : C[b] = blocks[b]
    <3>1. /\ DOMAIN C = DOMAIN blocks \cup {p} /\ C[p] = n
          /\ \A b \in DOMAIN blocks \ {p} : C[b] = blocks[b]
      BY <2>1 DEF Put
    <3>2. p \in DOMAIN blocks BY <1>10
    <3> QED BY <3>1, <3>2
  <2>3. CutIn(U, s, C, p, i, x, q, k)
    <3>1. \A b \in DOMAIN U \ {p, x} : C[b] = U[b] BY <1>6, <2>2
    <3>2. C[x] = blocks[x] /\ C[q] = blocks[q] BY <1>6, <1>7, <1>10, <2>2
    <3> QED BY <1>6, <1>7, <1>11, <2>2, <3>1, <3>2 DEF CutIn
  <2>4. PICK u : Tree(C, u, ROOT_ID) BY <1>5, <2>3, Cut
  <2>5. Sized(C, NoBlock)
    <3> SUFFICES ASSUME NEW b \in DOMAIN C
                 PROVE  /\ Len(C[b].keys) <= MaxKeys
                        /\ b # ROOT_ID => Len(C[b].keys) >= MinKeys
      BY <2>4, AllSized DEF Tree
    <3>1. CASE b = p BY <1>14, <1>23, <2>2, <3>1
    <3>2. CASE b # p
      <4>1. b # NoBlock BY <2>4, TreeNode DEF BlockId, NoBlock
      <4> QED BY <1>13, <2>2, <3>2, <4>1
    <3> QED BY <3>1, <3>2
  <2>6. RootSized(C)
    <3>1. CASE p = ROOT_ID
      <4>1. n.keys # <<>> BY <1>14
      <4> QED BY <2>2, <3>1, <4>1 DEF RootSized
    <3>2. CASE p # ROOT_ID BY <1>5, <1>6, <1>9, <2>2, <3>2 DEF RootSized
    <3> QED BY <3>1, <3>2
  <2>7. Inserting(call', C, u, C) BY <1>20, <2>1, <2>4, <2>5, <2>6 DEF Inserting, WholeTree
  <2>8. Place(call', tree'.root_exists, C, u, C) BY <1>1, <1>3, <1>20, <1>21, <2>7, PlaceOf
  <2> QED BY <1>1, <1>3, <1>20, <1>22, <2>8, AfterHandler DEF C
<1>24. CASE ~(Len(n.keys) <= MaxKeys)
  <2> DEFINE r == call'.split.id
  <2>1. /\ PutHalves(blocks, C, p, n, call'.split) /\ call'.split # NoSplit
        /\ r = FreshBlock /\ call'.stack = rest
    BY <1>20, <1>22, <1>24
  <2> HIDE DEF C, r
  <2>2. /\ DOMAIN C = DOMAIN V \cup {r} /\ r \in Allotted \ DOMAIN V
        /\ \A b \in DOMAIN V \ {p} : C[b] = V[b]
        /\ Halves(V[p], C[p], C[r], call'.split.key) /\ (IsLeaf(V[p]) => C[p].next_leaf = r)
        /\ call'.split.key \in Key
        /\ Len(C[p].keys) <= MaxKeys /\ Len(C[r].keys) <= MaxKeys
        /\ MinKeys <= Len(C[p].keys) /\ MinKeys <= Len(C[r].keys)
    BY <1>10, <1>16, <1>21, <2>1 DEF PutHalves, r
  <2>3. Above(t.lo[p], call'.split.key) /\ Below(call'.split.key, t.hi[p])
    BY <1>19, <2>1 DEF PutHalves
  <2>4. CutAt(C, t, V, p, r, call'.split.key) BY <1>10, <1>16, <2>2, <2>3 DEF CutAt
  <2>5. Len(C[p].keys) \in Nat /\ Len(C[r].keys) \in Nat /\ MinKeys \in Nat
    <3>1. C[p] \in WellShaped /\ C[r] \in WellShaped BY <2>2 DEF Halves
    <3> QED BY <3>1, Lengths, Capacity
  <2>6. Len(C[p].keys) >= MinKeys /\ Len(C[r].keys) >= MinKeys BY <2>2, <2>5
  <2>7. Sized(C, NoBlock)
    <3>1. DOMAIN C \subseteq BlockId BY <1>18, <2>2 DEF Tree, BlockId, Allotted
    <3> SUFFICES ASSUME NEW b \in DOMAIN C
                 PROVE  /\ Len(C[b].keys) <= MaxKeys
                        /\ b # ROOT_ID => Len(C[b].keys) >= MinKeys
      BY <3>1, AllSized
    <3>2. CASE b = p \/ b = r BY <2>2, <2>6, <3>2
    <3>3. CASE b # p /\ b # r
      <4>1. b \in DOMAIN blocks /\ C[b] = blocks[b] /\ b # NoBlock
        BY <1>16, <2>2, <3>1, <3>3 DEF NoBlock, BlockId
      <4> QED BY <1>13, <4>1
    <3> QED BY <3>2, <3>3
  <2>8. \A j \in DOMAIN rest : /\ rest[j].id \in DOMAIN U /\ rest[j].id # p /\ rest[j].id # x
                               /\ U[rest[j].id] = rest[j].node
    BY <1>5, <1>7, <1>8 DEF OnPath, Fresh
  <2>9. OnPath(V, t, rest)
    <3>1. t.ht[ROOT_ID] = s.ht[ROOT_ID] BY <1>9, <1>18
    <3>2. \A j \in DOMAIN rest : rest[j].id \in DOMAIN V /\ t.ht[rest[j].id] = s.ht[rest[j].id]
      BY <1>6, <1>16, <1>18, <2>8
    <3> QED BY <1>8, <3>1, <3>2, PathKept
  <2>10. Fresh(V, rest) BY <1>6, <1>16, <2>8 DEF Fresh
  <2>11. rest # <<>> => RootSized(C)
    <3> SUFFICES ASSUME rest # <<>> PROVE RootSized(C) OBVIOUS
    <3>1. Len(rest) # 0 BY <1>8, EmptySeq
    <3>2. Len(call.stack) > 1 BY <1>8, <3>1
    <3>3. p # ROOT_ID BY <1>8, <3>2
    <3>4. C[ROOT_ID] = blocks[ROOT_ID] BY <1>6, <1>9, <1>16, <2>2, <3>3
    <3> QED BY <1>5, <3>4 DEF RootSized
  <2>12. Target(call'.stack) = p BY <1>8, <2>1
  <2>13. Splitting(call', C, t, V)
    BY <1>18, <2>1, <2>4, <2>6, <2>7, <2>9, <2>10, <2>11, <2>12 DEF Splitting, r
  <2>14. Inserting(call', C, t, V) BY <1>20, <2>1, <2>13 DEF Inserting
  <2>15. Place(call', tree'.root_exists, C, t, V) BY <1>1, <1>3, <1>20, <1>21, <2>14, PlaceOf
  <2> QED BY <1>1, <1>3, <1>20, <1>22, <2>15, AfterHandler DEF C
<1> QED BY <1>23, <1>24

(* Saving a node as it is changes nothing.                                 *)
LEMMA PlanResave ==
  ASSUME NEW B, B = [ b \in DOMAIN B |-> B[b] ], NEW f, NEW id \in DOMAIN B,
         Len(B[id].keys) <= MaxKeys
  PROVE  /\ Doable(B, f, <<Save(id, B[id])>>)
         /\ Settle(B, <<Save(id, B[id])>>) = B
         /\ id = ROOT_ID => SavesRoot(<<Save(id, B[id])>>)
<1> DEFINE t == <<Save(id, B[id])>>
<1>1. t # <<>> /\ Len(t) = 1 /\ t[1] = Save(id, B[id]) OBVIOUS
<1>2. Doable(B, f, t) /\ (id = ROOT_ID => SavesRoot(t)) BY PlanSave
<1> HIDE DEF t
<1>3. Settle(B, t) = Effect(B, Save(id, B[id])) BY <1>1 DEF Settle
<1>4. Effect(B, Save(id, B[id])) = [ b \in DOMAIN B |-> B[b] ]
  <2>1. DOMAIN B \cup {id} = DOMAIN B OBVIOUS
  <2>2. Effect(B, Save(id, B[id])) = [ b \in DOMAIN B |-> IF b = id THEN B[id] ELSE B[b] ]
    BY <2>1 DEF Effect, Save
  <2> QED BY <2>2
<1> QED BY <1>2, <1>3, <1>4 DEF t

(* A root of one key above the two halves of the old one.                  *)
LEMMA NewRoot ==
  ASSUME NEW k \in Key, NEW r \in Allotted, NEW q \in Allotted,
         NEW g, g = [ NewInternal EXCEPT !.child_ids = <<r>> ]
  PROVE  LET n == InsertInternal(NewInternal, k, r, q)
         IN /\ ChildAdded(g, 1, k, q, n) /\ Len(n.keys) = 1
            /\ g \in WellShaped /\ IsInternal(g) /\ Len(g.keys) = 0 /\ g.child_ids[1] = r
<1> DEFINE e == NewInternal
           p == FindKeyIndex(e, k) + 1
           T == { i \in DOMAIN e.keys : e.keys[i] < k \/ (IsInternal(e) /\ e.keys[i] = k) }
           n == InsertInternal(e, k, r, q)
<1>1. /\ e \in Node /\ e.node_type = "Internal" /\ e.keys = <<>> /\ e.child_ids = <<>>
      /\ e.key_count = 0 /\ e.values = <<>> /\ e.next_leaf = NoBlock
  BY NewLeafShaped DEF NewInternal, NewLeaf, NoBlock, OptionBlockId, Node, WellShaped
<1>2. T = {} BY <1>1
<1>3. p = 1 BY <1>2, FS_EmptySet DEF FindKeyIndex
<1>4. n.keys = InsertAt(<<>>, 1, k) /\ n.child_ids = <<r, q>> /\ n.node_type = "Internal"
  <2>1. n = [ e EXCEPT !.keys = InsertAt(<<>>, p, k), !.key_count = e.key_count + 1,
                       !.child_ids = <<r, q>> ]
    BY <1>1 DEF InsertInternal
  <2> HIDE DEF e, n
  <2> QED BY <1>1, <1>3, <2>1 DEF Node
<1>5. n \in WellShaped BY NewRootShaped
<1>6. /\ g \in Node /\ g.node_type = "Internal" /\ g.keys = <<>> /\ g.child_ids = <<r>>
      /\ g.key_count = 0 /\ g.values = <<>> /\ g.next_leaf = NoBlock
  <2>1. <<r>> \in Seq(Allotted) OBVIOUS
  <2>2. g = [ e EXCEPT !.child_ids = <<r>> ] OBVIOUS
  <2> HIDE DEF e
  <2> QED BY <1>1, <2>1, <2>2 DEF Node
<1>7. g \in WellShaped /\ IsInternal(g)
  <2>1. Len(g.keys) = 0 /\ Len(g.child_ids) = 1 BY <1>6
  <2>2. g.key_count = Len(g.keys) /\ Len(g.child_ids) = Len(g.keys) + 1 BY <1>6, <2>1
  <2> QED BY <1>6, <2>2, InternalShaped
<1>8. Inserted(n.keys, g.keys, 1, k)
  <2>1. <<>> \in Seq(Key) /\ 1 \in 1..(Len(<<>>) + 1) BY EmptySeq
  <2>2. Inserted(InsertAt(<<>>, 1, k), <<>>, 1, k) BY <2>1, InsertAtInserted
  <2> QED BY <1>4, <1>6, <2>2
<1>9. Inserted(n.child_ids, g.child_ids, 2, q) BY <1>4, <1>6 DEF Inserted
<1>10. Len(n.keys) = 1
  <2>1. Len(g.keys) = 0 BY <1>6
  <2> QED BY <1>8, <2>1 DEF Inserted
<1>11. IsInternal(n) BY <1>4 DEF IsInternal
<1>12. ChildAdded(g, 1, k, q, n)
  <2> HIDE DEF n
  <2>1. 1 + 1 = 2 OBVIOUS
  <2> QED BY <1>5, <1>7, <1>8, <1>9, <1>11, <2>1 DEF ChildAdded
<1>13. Len(g.keys) = 0 /\ g.child_ids[1] = r BY <1>6
<1> QED BY <1>7, <1>10, <1>12, <1>13

(* Back at the top: the metadata is saved, or the root grows.              *)
LEMMA FinishInsertIntact == ASSUME Good, FinishInsert PROVE Sound'
<1> DEFINE C == Settle(blocks, todo')
<1>1. /\ Runs("insert_up") /\ call.pc = "insert_up" /\ todo = <<>> /\ call.stack = <<>>
      /\ NoStorageCall /\ call' = Answer(call.answer) /\ call \in Calls
      /\ tree'.root_exists = tree.root_exists
  <2>1. tree \in Metadata BY Running DEF Good
  <2>2. tree'.root_exists = tree.root_exists BY <2>1 DEF FinishInsert, Metadata
  <2> QED BY <2>2, Running DEF FinishInsert, Runs, Good
<1>2. FreshBlock \in Allotted /\ FreshBlock \notin DOMAIN blocks /\ tree.root_exists \in BOOLEAN
  BY <1>1, Situation
<1>3. blocks = [ b \in DOMAIN blocks |-> blocks[b] ] BY DEF Good, Sound, Ready
<1>4. PICK s, U : tree.root_exists /\ Inserting(call, blocks, s, U)
  <2>1. PICK s, U : Place(call, tree.root_exists, blocks, s, U) BY <1>1, Situation
  <2> QED BY <1>1, <1>2, <2>1, PlaceOf
<1>5. ROOT_ID \in DOMAIN blocks BY <1>1, Running DEF Good
<1>6. CASE call.split = NoSplit
  <2>1. WholeTree(blocks, s) BY <1>4, <1>6 DEF Inserting
  <2>2. todo' = << Save(ROOT_ID, blocks[ROOT_ID]) >>
    BY <1>4, <1>6 DEF FinishInsert, SaveMetadata
  <2>3. Len(blocks[ROOT_ID].keys) <= MaxKeys BY <1>5, <2>1 DEF WholeTree, Sized
  <2>4. Doable(blocks, FreshBlock, todo') /\ C = blocks /\ SavesRoot(todo')
    BY <1>3, <1>5, <2>2, <2>3, PlanResave
  <2> HIDE DEF C
  <2>5. call'.pc = "return" /\ Place(call', tree'.root_exists, C, s, U)
    BY <1>1, <1>2, <1>4, <2>1, <2>4, Answered
  <2> QED BY <1>1, <2>4, <2>5, AfterHandler DEF C
<1>7. CASE call.split # NoSplit
  <2> DEFINE k == call.split.key
             q == call.split.id
             r == FreshBlock
             n == InsertInternal(NewInternal, k, r, q)
             g == [ NewInternal EXCEPT !.child_ids = <<r>> ]
             G == [ b \in DOMAIN U \cup {r} |->
                      IF b = ROOT_ID THEN g ELSE IF b = r THEN U[ROOT_ID] ELSE U[b] ]
  <2>1. Splitting(call, blocks, s, U) BY <1>4, <1>7 DEF Inserting
  <2>2. /\ Tree(U, s, ROOT_ID) /\ Sized(blocks, NoBlock) /\ Len(blocks[ROOT_ID].keys) >= MinKeys
        /\ CutAt(blocks, s, U, ROOT_ID, q, k)
    BY <1>1, <2>1 DEF Splitting, Target
  <2>3. /\ ROOT_ID \in DOMAIN U /\ q \in Allotted /\ q \notin DOMAIN U
        /\ DOMAIN blocks = DOMAIN U \cup {q}
        /\ \A b \in DOMAIN U \ {ROOT_ID} : blocks[b] = U[b]
        /\ Halves(U[ROOT_ID], blocks[ROOT_ID], blocks[q], k)
        /\ (IsLeaf(U[ROOT_ID]) => blocks[ROOT_ID].next_leaf = q)
        /\ k \in Key /\ Above(s.lo[ROOT_ID], k) /\ Below(k, s.hi[ROOT_ID])
    BY <2>2 DEF CutAt
  <2>4. todo' = SplitWrites(ROOT_ID, n, blocks[ROOT_ID])
    BY <1>7 DEF FinishInsert, SplitWrites
  <2> HIDE DEF k, q
  <2>5. /\ ChildAdded(g, 1, k, q, n) /\ Len(n.keys) = 1
        /\ g \in WellShaped /\ IsInternal(g) /\ Len(g.keys) = 0 /\ g.child_ids[1] = r
    BY <1>2, <2>3, NewRoot
  <2>6. Len(n.keys) <= MaxKeys /\ Len(blocks[ROOT_ID].keys) <= MaxKeys
    <3>1. 1 <= MaxKeys BY Capacity
    <3> QED BY <1>5, <2>2, <2>5, <3>1 DEF Sized
  <2> HIDE DEF n, g
  <2>7. /\ Doable(blocks, r, todo') /\ PutTwo(blocks, C, r, ROOT_ID, n, blocks[ROOT_ID])
        /\ SavesRoot(todo')
    BY <1>2, <1>5, <2>4, <2>6, PlanSplit
  <2> HIDE DEF C
  <2>8. /\ DOMAIN C = DOMAIN blocks \cup {r} /\ C[r] = blocks[ROOT_ID] /\ C[ROOT_ID] = n
        /\ \A b \in DOMAIN blocks \ {ROOT_ID} : C[b] = blocks[b]
    BY <2>7 DEF PutTwo
  <2>9. r \in Allotted /\ r \notin DOMAIN blocks /\ r # ROOT_ID /\ r # q /\ q # ROOT_ID
        /\ r \notin DOMAIN U
    BY <1>2, <1>5, <2>3
  <2> HIDE DEF r
  <2>10. /\ DOMAIN G = DOMAIN U \cup {r} /\ G[ROOT_ID] = g /\ G[r] = U[ROOT_ID]
         /\ \A b \in DOMAIN U \ {ROOT_ID} : G[b] = U[b]
    BY <2>3, <2>9
  <2> HIDE DEF G
  <2>11. GrowIn(U, G, ROOT_ID, r) BY <2>5, <2>9, <2>10 DEF GrowIn
  <2>12. PICK t : Tree(G, t, ROOT_ID) /\ t.lo[r] = {} /\ t.hi[r] = {}
    <3>1. Tree(U, s, ROOT_ID) BY <2>2
    <3> QED BY <2>11, <3>1, Grow
  <2>13. CutIn(G, t, C, ROOT_ID, 1, r, q, k)
    <3>1. 1 \in 1..(Len(G[ROOT_ID].keys) + 1)
      <4>1. Len(G[ROOT_ID].keys) = 0 BY <2>5, <2>10
      <4> QED BY <4>1
    <3>2. r = G[ROOT_ID].child_ids[1] /\ IsInternal(G[ROOT_ID]) BY <2>5, <2>10
    <3>3. q \notin DOMAIN G /\ DOMAIN C = DOMAIN G \cup {q}
      <4>1. DOMAIN C = DOMAIN U \cup {q} \cup {r} BY <2>3, <2>8
      <4> QED BY <2>3, <2>9, <2>10, <4>1
    <3>4. \A b \in DOMAIN G \ {ROOT_ID, r} : C[b] = G[b]
      <4> SUFFICES ASSUME NEW b \in DOMAIN G, b # ROOT_ID, b # r PROVE C[b] = G[b] OBVIOUS
      <4>1. b \in DOMAIN U BY <2>10
      <4>2. b \in DOMAIN blocks BY <2>3, <4>1
      <4> QED BY <2>3, <2>8, <2>10, <4>1, <4>2
    <3>5. Above(t.lo[r], k) /\ Below(k, t.hi[r]) BY <2>12 DEF Above, Below
    <3>6. C[r] = blocks[ROOT_ID] /\ C[q] = blocks[q] /\ G[r] = U[ROOT_ID]
      <4>1. q \in DOMAIN blocks BY <2>3
      <4> QED BY <2>8, <2>9, <2>10, <4>1
    <3>7. ROOT_ID \in DOMAIN G BY <2>3, <2>10
    <3>8. ChildAdded(G[ROOT_ID], 1, k, q, C[ROOT_ID]) BY <2>5, <2>8, <2>10
    <3> QED BY <2>3, <3>1, <3>2, <3>3, <3>4, <3>5, <3>6, <3>7, <3>8 DEF CutIn
  <2>14. PICK u : Tree(C, u, ROOT_ID) BY <2>12, <2>13, Cut
  <2>15. Sized(C, NoBlock)
    <3> SUFFICES ASSUME NEW b \in DOMAIN C
                 PROVE  /\ Len(C[b].keys) <= MaxKeys
                        /\ b # ROOT_ID => Len(C[b].keys) >= MinKeys
      BY <2>14, AllSized DEF Tree
    <3>1. CASE b = ROOT_ID BY <2>6, <2>8, <3>1
    <3>2. CASE b = r BY <2>2, <2>6, <2>8, <3>2
    <3>3. CASE b # ROOT_ID /\ b # r
      <4>1. b # NoBlock BY <2>14, TreeNode DEF BlockId, NoBlock
      <4>2. b \in DOMAIN blocks /\ C[b] = blocks[b] BY <2>8, <3>3
      <4> QED BY <2>2, <3>3, <4>1, <4>2 DEF Sized
    <3> QED BY <3>1, <3>2, <3>3
  <2>16. RootSized(C)
    <3>1. Len(n.keys) = 1 BY <2>5
    <3>2. n.keys # <<>> BY <3>1
    <3> QED BY <2>8, <3>2 DEF RootSized
  <2>17. WholeTree(C, u) BY <2>14, <2>15, <2>16 DEF WholeTree
  <2>18. call'.pc = "return" /\ Place(call', tree'.root_exists, C, u, U)
    BY <1>1, <1>2, <1>4, <2>17, Answered
  <2> QED BY <1>1, <2>7, <2>18, AfterHandler DEF C, r
<1> QED BY <1>6, <1>7

-----------------------------------------------------------------------------
(* Deleting.                                                               *)

(* Every node has its share of keys, but that one may be one key short.    *)
LEMMA SizedBut ==
  ASSUME NEW C, NEW short,
         \A b \in DOMAIN C : /\ Len(C[b].keys) <= MaxKeys
                             /\ b # ROOT_ID /\ b # short => Len(C[b].keys) >= MinKeys
                             /\ b # ROOT_ID /\ b = short => Len(C[b].keys) >= MinKeys - 1
  PROVE  Sized(C, short)
BY DEF Sized

(* The key is taken out of the leaf, which may be too small then.          *)
LEMMA DeleteFromLeafIntact == ASSUME Good, DeleteFromLeaf PROVE Sound'
<1> DEFINE x == call.at
           k == call.req.key
           n == RemoveLeaf(blocks[x], k)
           C == Settle(blocks, todo')
<1>1. /\ Runs("descend") /\ IsLeaf(blocks[x]) /\ call.req.op \in {"delete", "delete_safe"}
      /\ NoStorageCall /\ tree' = tree
  BY DEF DeleteFromLeaf, AtLeaf
<1>2. /\ tree.root_exists /\ tree = header /\ todo = <<>> /\ call.pc = "descend"
      /\ call \in Calls /\ call.stack \in Seq(Frames)
  BY <1>1, Arrived
<1>3. PICK s : /\ WholeTree(blocks, s) /\ Tree(blocks, s, ROOT_ID) /\ x \in DOMAIN blocks
               /\ OnPath(blocks, s, call.stack) /\ Fresh(blocks, call.stack)
               /\ x = Target(call.stack) /\ call.outcome = "NoChange"
               /\ call.req.op \in ByKey => InRange(s, x, k)
  BY <1>1, Arrived
<1>4. k \in Key BY <1>1, RequestType DEF Good
<1>5. Sized(blocks, NoBlock) /\ RootSized(blocks) BY <1>3 DEF WholeTree
<1>6. /\ blocks[x] \in WellShaped /\ Ordered(blocks[x].keys) /\ Len(blocks[x].keys) \in Nat
      /\ Len(blocks[x].keys) <= MaxKeys
      /\ x \in BlockId /\ x # NoBlock /\ (x # ROOT_ID => MinKeys <= Len(blocks[x].keys))
  <2>1. x \in BlockId /\ x # NoBlock BY <1>3, TreeNode DEF NoBlock, BlockId
  <2>2. x # ROOT_ID => Len(blocks[x].keys) >= MinKeys BY <1>3, <1>5, <2>1 DEF Sized
  <2>3. Len(blocks[x].keys) \in Nat /\ MinKeys \in Nat BY <1>3, TreeNode, Lengths, Capacity
  <2> QED BY <1>3, <1>5, <2>1, <2>2, <2>3, TreeNode DEF Sized
<1>7. tree.root_exists \in BOOLEAN BY <1>2, Situation
<1>8. CASE ~HasKey(blocks[x], k)
  <2>1. todo' = <<>> /\ UNCHANGED <<tree, todo>>
        /\ call' = [ call EXCEPT !.pc = "delete_up", !.at = NoBlock ]
    BY <1>1, <1>2, <1>8 DEF DeleteFromLeaf
  <2>2. call'.pc = "delete_up" /\ call'.stack = call.stack /\ call'.outcome = "NoChange"
    BY <1>2, <1>3, <2>1 DEF Calls, CallsIn
  <2>3. Deleting(call', blocks, s)
    BY <1>3, <1>5, <2>2 DEF Deleting, Short
  <2>4. Place(call', tree.root_exists, blocks, s, blocks) BY <1>2, <1>7, <2>2, <2>3, PlaceOf
  <2> QED BY <1>1, <1>2, <2>1, <2>2, <2>4, AfterQuietHandler
<1>9. CASE HasKey(blocks[x], k)
  <2>1. /\ todo' = << Save(x, n) >>
        /\ call'.pc = "delete_up" /\ call'.stack = call.stack
        /\ call'.outcome = IF Underflows(x, n) THEN "Underflow" ELSE "KeyRemoved"
    BY <1>1, <1>2, <1>9 DEF DeleteFromLeaf, Calls, CallsIn
  <2>2. /\ Ordered(n.keys)
        /\ \A i \in 1..Len(n.keys) : \E j \in 1..Len(blocks[x].keys) : n.keys[i] = blocks[x].keys[j]
        /\ n.next_leaf = blocks[x].next_leaf
        /\ Len(n.keys) = Len(blocks[x].keys) - 1 /\ n.node_type = blocks[x].node_type
    BY <1>1, <1>4, <1>6, <1>9, RemoveLeafOrdered
  <2>3. n \in WellShaped BY <1>1, <1>4, <1>6, <1>9, RemoveLeafShaped
  <2>4. /\ n.key_count = Len(n.keys) /\ Len(n.keys) \in Nat /\ Len(n.keys) <= MaxKeys
        /\ MinKeys \in Nat /\ (x # ROOT_ID => Len(n.keys) >= MinKeys - 1)
        /\ Underflows(x, n) <=> x # ROOT_ID /\ Len(n.keys) < MinKeys
    <3>1. n.key_count = Len(n.keys) /\ Len(n.keys) \in Nat BY <2>3, Lengths
    <3>2. MaxKeys \in Nat /\ MinKeys \in Nat BY Capacity
    <3>3. Underflows(x, n) <=> x # ROOT_ID /\ Len(n.keys) < MinKeys BY <3>1 DEF Underflows
    <3> DEFINE a == Len(n.keys)
               b == Len(blocks[x].keys)
    <3>4. a \in Nat /\ b \in Nat /\ a = b - 1 /\ b <= MaxKeys /\ (x # ROOT_ID => MinKeys <= b)
      BY <1>6, <2>2, <3>1
    <3> HIDE DEF a, b, n, x
    <3>5. a <= MaxKeys /\ (x # ROOT_ID => a >= MinKeys - 1) BY <3>2, <3>4
    <3> QED BY <3>1, <3>2, <3>3, <3>5 DEF a
  <2> HIDE DEF n
  <2>5. /\ Doable(blocks, FreshBlock, todo') /\ Put(blocks, C, x, n)
    BY <1>3, <2>1, <2>4, PlanSave
  <2> HIDE DEF C
  <2>6. DOMAIN C = DOMAIN blocks /\ C[x] = n /\ \A b \in DOMAIN blocks \ {x} : C[b] = blocks[b]
    BY <1>3, <2>5 DEF Put
  <2>7. IsLeaf(n) BY <1>1, <2>2 DEF IsLeaf
  <2>8. \A i \in 1..Len(n.keys) : AtLeast(s.lo[x], n.keys[i]) /\ Below(n.keys[i], s.hi[x])
    <3>1. Within(blocks[x], s.lo[x], s.hi[x]) BY <1>3, TreeWithin
    <3>2. \A j \in 1..Len(blocks[x].keys) :
            AtLeast(s.lo[x], blocks[x].keys[j]) /\ Below(blocks[x].keys[j], s.hi[x])
      BY <1>1, <3>1 DEF Within
    <3> QED BY <2>2, <3>2
  <2>9. Tree(C, s, ROOT_ID) BY <1>1, <1>3, <2>2, <2>3, <2>6, <2>7, <2>8, PutLeaf
  <2>10. Short(call') = IF Underflows(x, n) THEN x ELSE NoBlock
    BY <1>3, <2>1 DEF Short
  <2>11. Sized(C, Short(call'))
    <3> SUFFICES ASSUME NEW b \in DOMAIN C
                 PROVE  /\ Len(C[b].keys) <= MaxKeys
                        /\ b # ROOT_ID /\ b # Short(call') => Len(C[b].keys) >= MinKeys
                        /\ b # ROOT_ID /\ b = Short(call') => Len(C[b].keys) >= MinKeys - 1
      BY SizedBut
    <3>1. CASE b = x
      <4>1. ~Underflows(x, n) /\ x # ROOT_ID => Len(n.keys) >= MinKeys BY <2>4
      <4> QED BY <2>4, <2>6, <2>10, <3>1, <4>1
    <3>2. CASE b # x
      <4>1. b \in DOMAIN blocks /\ C[b] = blocks[b] /\ b # NoBlock
        BY <1>3, <2>6, <3>2, TreeNode DEF NoBlock, BlockId
      <4> QED BY <1>5, <2>10, <3>2, <4>1 DEF Sized
    <3> QED BY <3>1, <3>2
  <2>12. RootSized(C)
    <3>1. CASE x = ROOT_ID BY <2>3, <2>6, <2>7, <3>1, Lengths DEF RootSized
    <3>2. CASE x # ROOT_ID
      <4>1. ROOT_ID \in DOMAIN blocks BY <1>3 DEF Tree
      <4> QED BY <1>5, <2>6, <3>2, <4>1 DEF RootSized
    <3> QED BY <3>1, <3>2
  <2>13. \A j \in DOMAIN call.stack : call.stack[j].id # x /\ call.stack[j].id \in DOMAIN blocks
    BY <1>2, <1>3, PathTarget DEF OnPath
  <2>14. OnPath(C, s, call.stack) BY <1>3, <2>6 DEF OnPath
  <2>15. Fresh(C, call.stack) BY <1>3, <2>6, <2>13, StillFresh
  <2>16. Target(call'.stack) = x BY <1>3, <2>1
  <2>17. Underflows(x, n) => call.stack # <<>> /\ Len(C[x].keys) < MinKeys
    BY <1>3, <2>4, <2>6 DEF Target
  <2>18. Deleting(call', C, s)
    BY <2>1, <2>9, <2>11, <2>12, <2>14, <2>15, <2>16, <2>17 DEF Deleting
  <2>19. Place(call', tree'.root_exists, C, s, C) BY <1>1, <1>2, <1>7, <2>1, <2>18, PlaceOf
  <2> QED BY <1>1, <1>2, <2>1, <2>5, <2>19, AfterHandler DEF C
<1> QED BY <1>8, <1>9

(* What an ancestor finds when the recursion comes back to it.             *)
LEMMA GoingUp ==
  ASSUME Good, call.pc = "delete_up", todo = <<>>
  PROVE  /\ tree.root_exists /\ tree = header /\ todo = <<>> /\ call \in Calls
         /\ call.pc = "delete_up" /\ call.stack \in Seq(Frames)
         /\ FreshBlock \in Allotted /\ FreshBlock \notin DOMAIN blocks
         /\ \E s : Deleting(call, blocks, s)
<1>1. /\ tree = header /\ tree.root_exists \in BOOLEAN
      /\ FreshBlock \in Allotted /\ FreshBlock \notin DOMAIN blocks
      /\ \E s, U : Place(call, tree.root_exists, blocks, s, U)
  BY Situation
<1>2. PICK s, U : Place(call, tree.root_exists, blocks, s, U) BY <1>1
<1>3. tree.root_exists /\ Deleting(call, blocks, s) BY <1>1, <1>2, PlaceOf
<1>4. call \in Calls /\ call.stack \in Seq(Frames) BY Running DEF Good
<1> QED BY <1>1, <1>3, <1>4

(* An ancestor whose child is not too small saves its node as it was.      *)
LEMMA SaveAncestorIntact == ASSUME Good, SaveAncestor PROVE Sound'
<1> DEFINE f == Last(call.stack)
           C == Settle(blocks, todo')
<1>1. /\ Runs("delete_up") /\ call.stack # <<>> /\ call.outcome # "Underflow"
      /\ NoStorageCall /\ tree' = tree /\ todo' = << Save(f.id, f.node) >>
      /\ call' = [ call EXCEPT !.stack = Front(call.stack) ]
  BY DEF SaveAncestor
<1>2. /\ tree.root_exists /\ tree = header /\ call \in Calls /\ call.stack \in Seq(Frames)
      /\ call.pc = "delete_up" /\ tree.root_exists \in BOOLEAN
  BY <1>1, GoingUp DEF Runs
<1>3. PICK s : Deleting(call, blocks, s) BY <1>1, GoingUp DEF Runs
<1>4. /\ Tree(blocks, s, ROOT_ID) /\ Sized(blocks, NoBlock) /\ RootSized(blocks)
      /\ OnPath(blocks, s, call.stack) /\ Fresh(blocks, call.stack)
  BY <1>1, <1>3 DEF Deleting, Short
<1>5. call'.pc = "delete_up" /\ call'.stack = Front(call.stack) /\ call'.outcome = call.outcome
  BY <1>1, <1>2 DEF Calls, CallsIn
<1>6. /\ f.id \in DOMAIN blocks /\ blocks[f.id] = f.node
  BY <1>1, <1>2, <1>4, PathTarget
<1>7. Doable(blocks, FreshBlock, todo') /\ C = blocks
  <2>1. blocks = [ b \in DOMAIN blocks |-> blocks[b] ] BY DEF Good, Sound, Ready
  <2>2. Len(blocks[f.id].keys) <= MaxKeys BY <1>4, <1>6 DEF Sized
  <2>3. todo' = << Save(f.id, blocks[f.id]) >> BY <1>1, <1>6
  <2> HIDE DEF f
  <2> QED BY <1>6, <2>1, <2>2, <2>3, PlanResave
<1>8. OnPath(blocks, s, Front(call.stack)) /\ Fresh(blocks, Front(call.stack))
  <2>1. /\ OnPath(blocks, s, Front(call.stack))
        /\ \A j \in DOMAIN Front(call.stack) :
             j \in DOMAIN call.stack /\ Front(call.stack)[j] = call.stack[j]
    BY <1>1, <1>2, <1>4, PathFront
  <2> QED BY <1>4, <2>1 DEF Fresh
<1> HIDE DEF C
<1>9. Deleting(call', blocks, s) BY <1>1, <1>4, <1>5, <1>8 DEF Deleting, Short
<1>10. Place(call', tree'.root_exists, C, s, C) BY <1>1, <1>2, <1>5, <1>7, <1>9, PlaceOf
<1> QED BY <1>1, <1>2, <1>5, <1>7, <1>10, AfterHandler DEF C

(* Where the last key of the left half of a node is in the node, and where *)
(* the key is that follows the first one of its right half, or, in an      *)
(* inner node, the key it was cut at.                                      *)
LEMMA BoundaryKeys ==
  ASSUME NEW m \in WellShaped, NEW l, NEW r, NEW k, Halves(m, l, r, k)
  PROVE  /\ Len(l.keys) > 1 => InnerKey(m, l.keys[Len(l.keys)])
         /\ Len(r.keys) > 1 => InnerKey(m, IF IsLeaf(m) THEN r.keys[2] ELSE r.keys[1])
<1> DEFINE a == Len(l.keys)
           b == Len(r.keys)
           c == Len(m.keys)
<1>1. a \in Nat /\ b \in Nat BY NodeParts DEF Halves
<1>2. ~(IsLeaf(m) /\ IsInternal(m)) /\ (IsLeaf(m) \/ IsInternal(m)) BY NodeParts
<1>3. CASE IsLeaf(m)
  <2>1. c = a + b /\ (\A i \in 1..a : l.keys[i] = m.keys[i])
        /\ (\A i \in 1..b : r.keys[i] = m.keys[a + i])
    BY <1>3 DEF Halves, Joined
  <2> HIDE DEF a, b, c
  <2>2. ASSUME a > 1 PROVE InnerKey(m, l.keys[a])
    <3>1. a \in 1..c /\ a > 1 /\ m.keys[a] = l.keys[a] BY <1>1, <2>1, <2>2
    <3> QED BY <3>1 DEF InnerKey, c
  <2>3. ASSUME b > 1 PROVE InnerKey(m, r.keys[2])
    <3>1. a + 2 \in 1..c /\ a + 2 > 1 /\ m.keys[a + 2] = r.keys[2] BY <1>1, <2>1, <2>3
    <3> QED BY <3>1 DEF InnerKey, c
  <2> QED BY <1>3, <2>2, <2>3 DEF a, b
<1>4. CASE IsInternal(m)
  <2>1. c = a + 1 + b /\ (\A i \in 1..a : l.keys[i] = m.keys[i])
        /\ (\A i \in 1..b : r.keys[i] = m.keys[a + 1 + i])
    BY <1>4 DEF Halves, JoinedAt
  <2> HIDE DEF a, b, c
  <2>2. ASSUME a > 1 PROVE InnerKey(m, l.keys[a])
    <3>1. a \in 1..c /\ m.keys[a] = l.keys[a] BY <1>1, <2>1, <2>2
    <3> QED BY <1>2, <1>4, <3>1 DEF InnerKey, c
  <2>3. ASSUME b > 1 PROVE InnerKey(m, r.keys[1])
    <3>1. (a + 1) + 1 \in 1..c /\ m.keys[(a + 1) + 1] = r.keys[1] BY <1>1, <2>1, <2>3
    <3> QED BY <1>2, <1>4, <3>1 DEF InnerKey, c
  <2> QED BY <1>2, <1>4, <2>2, <2>3 DEF a, b
<1> QED BY <1>2, <1>3, <1>4

(* A parent with another separator has as many keys.                       *)
LEMMA SeparatorKeeps ==
  ASSUME NEW n \in WellShaped, NEW i \in 1..Len(n.keys), NEW k \in Key
  PROVE  Len(WithSeparator(n, i, k).keys) = Len(n.keys)
<1>1. n.keys \in Seq(Key) /\ n \in Node BY NodeParts
<1>2. WithSeparator(n, i, k).keys = [ n.keys EXCEPT ![i] = k ]
  BY <1>1 DEF WithSeparator, Node
<1>3. Len([ n.keys EXCEPT ![i] = k ]) = Len(n.keys) BY <1>1
<1> QED BY <1>2, <1>3

(* C is B with the nodes of a borrow in three blocks: a key has gone from  *)
(* the child x of p to its neighbour y.                                    *)
LentIn(B, C, p, x, y) ==
  /\ DOMAIN C = DOMAIN B
  /\ \A b \in DOMAIN B \ {p, x, y} : C[b] = B[b]
  /\ Len(C[p].keys) = Len(B[p].keys)
  /\ Len(C[x].keys) + 1 = Len(B[x].keys) /\ Len(C[y].keys) = Len(B[y].keys) + 1

(* Siblings side by side are neighbours, and halves of one node.           *)
LEMMA SiblingsParts ==
  ASSUME NEW B, NEW s, Tree(B, s, ROOT_ID), NEW p, NEW i, NEW l, NEW r, SiblingsAt(B, p, i, l, r)
  PROVE  /\ p \in DOMAIN B /\ i \in 1..Len(B[p].keys) /\ B[p] \in WellShaped
         /\ l \in DOMAIN B /\ r \in DOMAIN B /\ l # r /\ l # p /\ r # p
         /\ l # ROOT_ID /\ r # ROOT_ID /\ B[p].keys[i] \in Key
         /\ B[l] \in WellShaped /\ B[r] \in WellShaped /\ s.ht[l] = s.ht[r]
         /\ s.ht[l] + 1 = s.ht[p]
         /\ Len(B[l].keys) \in Nat /\ Len(B[r].keys) \in Nat /\ Len(B[p].keys) \in Nat
         /\ \E m : /\ m = Merge(B[l], B[r], B[p].keys[i]) /\ m \in WellShaped
                   /\ Ordered(m.keys) /\ Halves(m, B[l], B[r], B[p].keys[i])
<1>1. /\ p \in DOMAIN B /\ IsInternal(B[p]) /\ i \in 1..Len(B[p].keys)
      /\ l = B[p].child_ids[i] /\ r = B[p].child_ids[i + 1]
  BY DEF SiblingsAt
<1>2. /\ l \in DOMAIN B /\ r \in DOMAIN B /\ l # r /\ l # p /\ r # p
      /\ l # ROOT_ID /\ r # ROOT_ID /\ B[p].keys[i] \in Key /\ s.ht[l] = s.ht[r]
      /\ s.ht[l] + 1 = s.ht[p]
  BY <1>1, TreeNeighbours
<1>3. p \in DOMAIN B /\ i \in 1..Len(B[p].keys) BY <1>1
<1>4. /\ Halves(Merge(B[l], B[r], B[p].keys[i]), B[l], B[r], B[p].keys[i])
      /\ Within(Merge(B[l], B[r], B[p].keys[i]), s.lo[l], s.hi[r])
  BY <1>1, Merged
<1> DEFINE m == Merge(B[l], B[r], B[p].keys[i])
<1>5. Halves(m, B[l], B[r], B[p].keys[i]) BY <1>4
<1>6. Within(m, s.lo[l], s.hi[r]) BY <1>4
<1>7. \E z : z = m OBVIOUS
<1> HIDE DEF m
<1>8. m \in WellShaped /\ Ordered(m.keys) BY <1>6 DEF Within
<1>9. \A b \in DOMAIN B : B[b] \in WellShaped BY TreeNode
<1>10. B[l] \in WellShaped /\ B[r] \in WellShaped /\ B[p] \in WellShaped BY <1>2, <1>3, <1>9
<1>11. Len(B[l].keys) \in Nat /\ Len(B[r].keys) \in Nat /\ Len(B[p].keys) \in Nat
  BY <1>10, NodeParts
<1> QED BY <1>2, <1>3, <1>5, <1>8, <1>10, <1>11 DEF m

(* C is B after p's child r has borrowed from its left sibling l.          *)
BorrowedLeft(B, C, p, i, l, r) ==
  LET b == BorrowFromLeft(B[r], B[l], B[p].keys[i])
  IN PutThree(B, C, l, b.sibling, r, b.node, p, WithSeparator(B[p], i, b.separator))

(* The boundary between the two has moved.                                 *)
LEMMA BorrowLeftShift ==
  ASSUME NEW B, NEW s, Tree(B, s, ROOT_ID), NEW p, NEW i, NEW l, NEW r,
         SiblingsAt(B, p, i, l, r), Len(B[l].keys) > 1, NEW C, BorrowedLeft(B, C, p, i, l, r)
  PROVE  /\ \E m, e : ShiftIn(B, C, p, i, l, r, m, e)
         /\ LentIn(B, C, p, l, r)
<1> DEFINE k == B[p].keys[i]
           x == B[l]
           y == B[r]
           b == BorrowFromLeft(y, x, k)
<1>1. /\ l \in DOMAIN B /\ r \in DOMAIN B /\ l # r /\ l # p /\ r # p /\ k \in Key
      /\ x \in WellShaped /\ Len(x.keys) \in Nat /\ Len(y.keys) \in Nat
      /\ B[p] \in WellShaped /\ i \in 1..Len(B[p].keys)
  BY SiblingsParts
<1>2. PICK m : m \in WellShaped /\ Ordered(m.keys) /\ Halves(m, x, y, k) BY SiblingsParts
<1>3. /\ DOMAIN C = DOMAIN B /\ C[l] = b.sibling /\ C[r] = b.node
      /\ C[p] = WithSeparator(B[p], i, b.separator)
      /\ \A c \in DOMAIN B \ {p, l, r} : C[c] = B[c]
  BY DEF BorrowedLeft, PutThree
<1> HIDE DEF x, y, k
<1>4. /\ Halves(m, b.sibling, b.node, b.separator)
      /\ b.separator = x.keys[Len(x.keys)] /\ b.separator \in Key
      /\ Len(b.sibling.keys) = Len(x.keys) - 1 /\ Len(b.node.keys) = Len(y.keys) + 1
      /\ b.sibling.next_leaf = x.next_leaf
  <2>1. Len(x.keys) # 0 BY <1>1 DEF x
  <2> QED BY <1>1, <1>2, <2>1, BorrowLeftHalves
<1> HIDE DEF b
<1>5. InnerKey(m, b.separator) BY <1>2, <1>4, BoundaryKeys DEF x
<1>6. ShiftIn(B, C, p, i, l, r, m, b.separator)
  BY <1>2, <1>3, <1>4, <1>5 DEF ShiftIn, k, x, y
<1>7. Len(C[p].keys) = Len(B[p].keys) BY <1>1, <1>3, <1>4, SeparatorKeeps
<1>8. LentIn(B, C, p, l, r)
  <2>1. Len(C[l].keys) + 1 = Len(x.keys) /\ Len(C[r].keys) = Len(y.keys) + 1
    BY <1>1, <1>3, <1>4
  <2> QED BY <1>3, <1>7, <2>1 DEF LentIn, x, y
<1> QED BY <1>6, <1>8

(* C is B after p's child l has borrowed from its right sibling r.         *)
BorrowedRight(B, C, p, i, l, r) ==
  LET b == BorrowFromRight(B[l], B[r], B[p].keys[i])
  IN PutThree(B, C, r, b.sibling, l, b.node, p, WithSeparator(B[p], i, b.separator))

(* The boundary between the two has moved.                                 *)
LEMMA BorrowRightShift ==
  ASSUME NEW B, NEW s, Tree(B, s, ROOT_ID), NEW p, NEW i, NEW l, NEW r,
         SiblingsAt(B, p, i, l, r), Len(B[r].keys) > 1, NEW C, BorrowedRight(B, C, p, i, l, r)
  PROVE  /\ \E m, e : ShiftIn(B, C, p, i, l, r, m, e)
         /\ LentIn(B, C, p, r, l)
<1> DEFINE k == B[p].keys[i]
           x == B[l]
           y == B[r]
           b == BorrowFromRight(x, y, k)
<1>1. /\ l \in DOMAIN B /\ r \in DOMAIN B /\ l # r /\ l # p /\ r # p /\ k \in Key
      /\ y \in WellShaped /\ Len(x.keys) \in Nat /\ Len(y.keys) \in Nat
      /\ B[p] \in WellShaped /\ i \in 1..Len(B[p].keys)
  BY SiblingsParts
<1>2. PICK m : m \in WellShaped /\ Ordered(m.keys) /\ Halves(m, x, y, k) BY SiblingsParts
<1>3. /\ DOMAIN C = DOMAIN B /\ C[l] = b.node /\ C[r] = b.sibling
      /\ C[p] = WithSeparator(B[p], i, b.separator)
      /\ \A c \in DOMAIN B \ {p, l, r} : C[c] = B[c]
  BY DEF BorrowedRight, PutThree
<1> HIDE DEF x, y, k
<1>4. /\ Halves(m, b.node, b.sibling, b.separator)
      /\ b.separator = (IF IsLeaf(m) THEN y.keys[2] ELSE y.keys[1]) /\ b.separator \in Key
      /\ Len(b.sibling.keys) = Len(y.keys) - 1 /\ Len(b.node.keys) = Len(x.keys) + 1
      /\ b.node.next_leaf = x.next_leaf
  <2>1. Len(y.keys) > 1 BY DEF y
  <2> QED BY <1>1, <1>2, <2>1, BorrowRightHalves
<1> HIDE DEF b
<1>5. InnerKey(m, b.separator)
  <2>1. Len(y.keys) > 1 BY DEF y
  <2> QED BY <1>2, <1>4, <2>1, BoundaryKeys
<1>6. ShiftIn(B, C, p, i, l, r, m, b.separator)
  BY <1>2, <1>3, <1>4, <1>5 DEF ShiftIn, k, x, y
<1>7. Len(C[p].keys) = Len(B[p].keys) BY <1>1, <1>3, <1>4, SeparatorKeeps
<1>8. LentIn(B, C, p, r, l)
  <2>1. Len(C[r].keys) + 1 = Len(y.keys) /\ Len(C[l].keys) = Len(x.keys) + 1
    BY <1>1, <1>3, <1>4
  <2> QED BY <1>3, <1>7, <2>1 DEF LentIn, x, y
<1> QED BY <1>6, <1>8

(* From the height of p up the tree C is the tree B, but for p.            *)
KeptAbove(B, s, C, t, p) ==
  \A b \in DOMAIN B : s.ht[b] >= s.ht[p] =>
    b \in DOMAIN C /\ t.ht[b] = s.ht[b] /\ (b # p => C[b] = B[b])

(* C is the tree B after a child of p has been made up for.                *)
MadeUpFor(B, s, C, p) ==
  /\ SameEntries(B, C) /\ Sized(C, p)
  /\ \E t : Tree(C, t, ROOT_ID) /\ KeptAbove(B, s, C, t, p)

(* A borrow makes up for a child y that is one key short.                  *)
LEMMA BorrowDone ==
  ASSUME NEW B, NEW s, Tree(B, s, ROOT_ID), NEW p, NEW i, NEW l, NEW r,
         SiblingsAt(B, p, i, l, r), NEW C, NEW m, NEW e, ShiftIn(B, C, p, i, l, r, m, e),
         NEW x, NEW y, (x = l /\ y = r) \/ (x = r /\ y = l), LentIn(B, C, p, x, y),
         Sized(B, y), Len(B[y].keys) < MinKeys, Len(B[x].keys) > MinKeys
  PROVE  MadeUpFor(B, s, C, p)
<1>1. /\ p \in DOMAIN B /\ x \in DOMAIN B /\ y \in DOMAIN B /\ x # y /\ x # p /\ y # p
      /\ Len(B[x].keys) \in Nat /\ Len(B[y].keys) \in Nat /\ Len(B[p].keys) \in Nat
      /\ s.ht[x] + 1 = s.ht[p] /\ s.ht[y] + 1 = s.ht[p] /\ r \in {x, y}
      /\ x # ROOT_ID /\ y # ROOT_ID
  <2>1. /\ p \in DOMAIN B /\ l \in DOMAIN B /\ r \in DOMAIN B /\ l # r /\ l # p /\ r # p
        /\ Len(B[l].keys) \in Nat /\ Len(B[r].keys) \in Nat /\ Len(B[p].keys) \in Nat
        /\ s.ht[l] = s.ht[r] /\ s.ht[l] + 1 = s.ht[p] /\ l # ROOT_ID /\ r # ROOT_ID
    BY SiblingsParts
  <2>2. CASE x = l /\ y = r BY <2>1, <2>2
  <2>3. CASE x = r /\ y = l BY <2>1, <2>3
  <2> QED BY <2>2, <2>3
<1>2. /\ DOMAIN C = DOMAIN B
      /\ \A b \in DOMAIN B \ {p, x, y} : C[b] = B[b]
      /\ Len(C[p].keys) = Len(B[p].keys)
      /\ Len(C[x].keys) + 1 = Len(B[x].keys) /\ Len(C[y].keys) = Len(B[y].keys) + 1
  BY DEF LentIn
<1>3. PICK t : Tree(C, t, ROOT_ID) /\ \A b \in DOMAIN B \ {r} : t.ht[b] = s.ht[b] BY Shift
<1>4. KeptAbove(B, s, C, t, p)
  <2> SUFFICES ASSUME NEW b \in DOMAIN B, s.ht[b] >= s.ht[p]
               PROVE  b \in DOMAIN C /\ t.ht[b] = s.ht[b] /\ (b # p => C[b] = B[b])
    BY DEF KeptAbove
  <2>1. s.ht[b] \in Nat /\ s.ht[p] \in Nat /\ s.ht[x] \in Nat /\ s.ht[y] \in Nat
    BY <1>1, TreeNode
  <2>2. b # x /\ b # y BY <1>1, <2>1
  <2> QED BY <1>1, <1>2, <1>3, <2>2
<1>5. Sized(C, p)
  <2>0. MaxKeys \in Nat /\ MinKeys \in Nat /\ MinKeys <= MaxKeys
    <3>1. MaxKeys \in Nat /\ MinKeys \in Nat /\ MinKeys + MinKeys + 1 <= MaxKeys BY Capacity
    <3> QED BY <3>1
  <2>a. \A b \in DOMAIN B : /\ Len(B[b].keys) <= MaxKeys
                            /\ b # ROOT_ID /\ b # y => Len(B[b].keys) >= MinKeys
    BY DEF Sized
  <2>b. Len(B[y].keys) >= MinKeys - 1 BY <1>1 DEF Sized
  <2> SUFFICES ASSUME NEW b \in DOMAIN C
               PROVE  /\ Len(C[b].keys) <= MaxKeys
                      /\ b # ROOT_ID /\ b # p => Len(C[b].keys) >= MinKeys
                      /\ b # ROOT_ID /\ b = p => Len(C[b].keys) >= MinKeys - 1
    BY SizedBut
  <2>1. CASE b = p
    <3>1. Len(B[p].keys) <= MaxKeys /\ (p # ROOT_ID => Len(B[p].keys) >= MinKeys)
      BY <1>1, <2>a
    <3>2. p # ROOT_ID => Len(B[p].keys) >= MinKeys - 1 BY <1>1, <2>0, <3>1
    <3> QED BY <1>2, <2>1, <3>1, <3>2
  <2>2. CASE b = x
    <3>1. Len(B[x].keys) <= MaxKeys BY <1>1, <2>a
    <3> DEFINE u == Len(B[x].keys)
               v == Len(C[x].keys)
    <3>2. u <= MaxKeys /\ u \in Nat /\ v \in Int /\ v + 1 = u /\ u > MinKeys
      <4>1. v \in Int BY <1>2, <1>3, <2>2, TreeNode, NodeParts
      <4> QED BY <1>1, <1>2, <3>1, <4>1
    <3> HIDE DEF u, v
    <3>3. v <= MaxKeys /\ v >= MinKeys BY <2>0, <3>2
    <3> QED BY <1>1, <2>2, <3>3 DEF v
  <2>3. CASE b = y
    <3> DEFINE u == Len(B[y].keys)
               v == Len(C[y].keys)
    <3>1. u \in Nat /\ v = u + 1 /\ u < MinKeys /\ u >= MinKeys - 1 BY <1>1, <1>2, <2>b
    <3> HIDE DEF u, v
    <3>2. v <= MaxKeys /\ v >= MinKeys BY <2>0, <3>1
    <3> QED BY <1>1, <2>3, <3>2 DEF v
  <2>4. CASE b \notin {p, x, y} BY <1>2, <2>a, <2>4
  <2> QED BY <2>1, <2>2, <2>3, <2>4
<1>6. SameEntries(B, C) BY ShiftEntries
<1> QED BY <1>3, <1>4, <1>5, <1>6 DEF MadeUpFor

(* C is B after the child r of p has been merged into its left sibling l.  *)
MergedInto(B, C, p, i, l, r) ==
  PutMerged(B, C, l, Merge(B[l], B[r], B[p].keys[i]), r, p, WithoutChild(B[p], i))

(* The two are joined.                                                     *)
LEMMA MergeJoins ==
  ASSUME NEW B, NEW s, Tree(B, s, ROOT_ID), NEW p, NEW i, NEW l, NEW r,
         SiblingsAt(B, p, i, l, r), NEW C, MergedInto(B, C, p, i, l, r)
  PROVE  /\ JoinIn(B, C, p, i, l, r)
         /\ Len(C[l].keys) \in {Len(B[l].keys) + Len(B[r].keys), Len(B[l].keys) + 1 + Len(B[r].keys)}
<1> DEFINE k == B[p].keys[i]
           m == Merge(B[l], B[r], k)
           n == WithoutChild(B[p], i)
<1>1. /\ l \in DOMAIN B /\ r \in DOMAIN B /\ l # r /\ l # p /\ r # p /\ k \in Key
      /\ B[p] \in WellShaped /\ i \in 1..Len(B[p].keys) /\ p \in DOMAIN B
      /\ B[l] \in WellShaped /\ B[r] \in WellShaped
  BY SiblingsParts
<1>2. m \in WellShaped /\ Halves(m, B[l], B[r], k) BY SiblingsParts
<1>3. /\ DOMAIN C = DOMAIN B \ {r} /\ C[l] = m /\ C[p] = n
      /\ \A b \in DOMAIN B \ {l, r, p} : C[b] = B[b]
  BY <1>1 DEF MergedInto, PutMerged
<1> HIDE DEF m
<1>4. IsInternal(B[p]) /\ r = B[p].child_ids[i + 1] /\ l = B[p].child_ids[i] BY DEF SiblingsAt
<1>5. ChildAdded(n, i, k, r, B[p])
  <2>1. ChildAdded(WithoutChild(B[p], i), i, B[p].keys[i], B[p].child_ids[i + 1], B[p])
    <3> DEFINE x == B[p]
    <3>1. x \in WellShaped /\ IsInternal(x) /\ i \in 1..Len(x.keys) BY <1>1, <1>4
    <3> HIDE DEF x
    <3>2. ChildAdded(WithoutChild(x, i), i, x.keys[i], x.child_ids[i + 1], x)
      BY <3>1, ChildRemovedAdded
    <3> QED BY <3>2 DEF x
  <2> QED BY <1>4, <2>1
<1> HIDE DEF n, k
<1>6. JoinIn(B, C, p, i, l, r) BY <1>1, <1>2, <1>3, <1>4, <1>5 DEF JoinIn, k
<1>7. Len(m.keys) \in {Len(B[l].keys) + Len(B[r].keys), Len(B[l].keys) + 1 + Len(B[r].keys)}
  BY <1>2, NodeParts DEF Halves, Joined, JoinedAt
<1> QED BY <1>3, <1>6, <1>7

(* A merge makes up for a child y that is one key short.                   *)
LEMMA MergeDone ==
  ASSUME NEW B, NEW s, Tree(B, s, ROOT_ID), NEW p, NEW i, NEW l, NEW r,
         SiblingsAt(B, p, i, l, r), NEW C, MergedInto(B, C, p, i, l, r),
         NEW x, NEW y, (x = l /\ y = r) \/ (x = r /\ y = l),
         Sized(B, y), Len(B[y].keys) < MinKeys, Len(B[x].keys) <= MinKeys
  PROVE  MadeUpFor(B, s, C, p)
<1>1. /\ p \in DOMAIN B /\ l \in DOMAIN B /\ r \in DOMAIN B /\ l # r /\ l # p /\ r # p
      /\ Len(B[l].keys) \in Nat /\ Len(B[r].keys) \in Nat /\ Len(B[p].keys) \in Nat
      /\ s.ht[l] = s.ht[r] /\ s.ht[l] + 1 = s.ht[p] /\ l # ROOT_ID /\ r # ROOT_ID
  BY SiblingsParts
<1>2. /\ JoinIn(B, C, p, i, l, r)
      /\ Len(C[p].keys) + 1 = Len(B[p].keys)
      /\ Len(C[l].keys) \in {Len(B[l].keys) + Len(B[r].keys), Len(B[l].keys) + 1 + Len(B[r].keys)}
  <2>1. JoinIn(B, C, p, i, l, r) BY MergeJoins
  <2>2. Len(C[p].keys) + 1 = Len(B[p].keys)
    <3>1. ChildAdded(C[p], i, B[p].keys[i], r, B[p]) BY <2>1 DEF JoinIn
    <3>2. Len(B[p].keys) = Len(C[p].keys) + 1 BY <3>1 DEF ChildAdded, Inserted
    <3> QED BY <3>2
  <2>3. Len(C[l].keys) \in {Len(B[l].keys) + Len(B[r].keys),
                            Len(B[l].keys) + 1 + Len(B[r].keys)}
    BY MergeJoins
  <2> QED BY <2>1, <2>2, <2>3
<1>3. DOMAIN C = DOMAIN B \ {r} /\ \A b \in DOMAIN B \ {p, l, r} : C[b] = B[b]
  BY DEF MergedInto, PutMerged
<1>4. PICK t : Tree(C, t, ROOT_ID) /\ \A b \in DOMAIN C : t.ht[b] = s.ht[b] BY <1>2, Join
<1>5. KeptAbove(B, s, C, t, p)
  <2> SUFFICES ASSUME NEW b \in DOMAIN B, s.ht[b] >= s.ht[p]
               PROVE  b \in DOMAIN C /\ t.ht[b] = s.ht[b] /\ (b # p => C[b] = B[b])
    BY DEF KeptAbove
  <2>1. s.ht[b] \in Nat /\ s.ht[p] \in Nat /\ s.ht[l] \in Nat /\ s.ht[r] \in Nat
    BY <1>1, TreeNode
  <2>2. b # l /\ b # r BY <1>1, <2>1
  <2> QED BY <1>1, <1>3, <1>4, <2>2
<1>6. Sized(C, p)
  <2>0. MaxKeys \in Nat /\ MinKeys \in Nat /\ MinKeys + MinKeys + 1 <= MaxKeys BY Capacity
  <2>a. \A b \in DOMAIN B : /\ Len(B[b].keys) <= MaxKeys
                            /\ b # ROOT_ID /\ b # y => Len(B[b].keys) >= MinKeys
    BY DEF Sized
  <2>b. /\ Len(B[y].keys) >= MinKeys - 1 /\ Len(B[x].keys) >= MinKeys
        /\ Len(B[x].keys) \in Nat /\ Len(B[y].keys) \in Nat /\ p # y
    BY <1>1, <2>a DEF Sized
  <2> SUFFICES ASSUME NEW b \in DOMAIN C
               PROVE  /\ Len(C[b].keys) <= MaxKeys
                      /\ b # ROOT_ID /\ b # p => Len(C[b].keys) >= MinKeys
                      /\ b # ROOT_ID /\ b = p => Len(C[b].keys) >= MinKeys - 1
    BY SizedBut
  <2>1. CASE b = p
    <3>1. Len(B[p].keys) <= MaxKeys /\ (p # ROOT_ID => Len(B[p].keys) >= MinKeys)
      BY <1>1, <2>a, <2>b
    <3> DEFINE u == Len(B[p].keys)
               v == Len(C[p].keys)
    <3>2. v \in Int BY <1>4, <2>1, TreeNode, NodeParts
    <3>3. u \in Nat /\ v + 1 = u /\ u <= MaxKeys /\ (p # ROOT_ID => u >= MinKeys)
      BY <1>1, <1>2, <3>1
    <3> HIDE DEF u, v
    <3>4. v <= MaxKeys /\ (p # ROOT_ID => v >= MinKeys - 1) BY <2>0, <3>2, <3>3
    <3> QED BY <2>1, <3>4 DEF v
  <2>2. CASE b = l
    <3> DEFINE u == Len(B[x].keys)
               v == Len(B[y].keys)
               w == Len(C[l].keys)
    <3>1. w \in {u + v, u + 1 + v}
      <4>1. CASE x = l /\ y = r BY <1>2, <4>1
      <4>2. CASE x = r /\ y = l
        <5> DEFINE a == Len(B[l].keys)
                   c == Len(B[r].keys)
        <5>1. a \in Nat /\ c \in Nat /\ w \in {a + c, a + 1 + c} BY <1>1, <1>2
        <5> HIDE DEF a, c, w
        <5>2. w \in {c + a, c + 1 + a} BY <5>1
        <5> QED BY <4>2, <5>2 DEF a, c
      <4> QED BY <4>1, <4>2
    <3>2. u \in Nat /\ v \in Nat /\ v < MinKeys /\ v >= MinKeys - 1 /\ u <= MinKeys /\ u >= MinKeys
      BY <2>b
    <3> HIDE DEF u, v, w
    <3>3. w <= MaxKeys /\ w >= MinKeys BY <2>0, <3>1, <3>2
    <3> QED BY <1>1, <2>2, <3>3 DEF w
  <2>4. CASE b \notin {p, l} BY <1>3, <2>a, <2>4
  <2> QED BY <2>1, <2>2, <2>4
<1>7. SameEntries(B, C) BY <1>2, JoinEntries
<1> QED BY <1>4, <1>5, <1>6, <1>7 DEF MadeUpFor

(* What handle_child_underflow saves when r borrows from its left sibling, *)
(* when l borrows from its right one, and when the two are merged.         *)
BorrowLeftCalls(p, i, l, r) ==
  LET b == BorrowFromLeft(blocks[r], blocks[l], blocks[p].keys[i])
  IN ThreeSaves(l, b.sibling, r, b.node, p, WithSeparator(blocks[p], i, b.separator))

BorrowRightCalls(p, i, l, r) ==
  LET b == BorrowFromRight(blocks[l], blocks[r], blocks[p].keys[i])
  IN ThreeSaves(r, b.sibling, l, b.node, p, WithSeparator(blocks[p], i, b.separator))

MergeNodesCalls(p, i, l, r) ==
  MergeCalls(l, Merge(blocks[l], blocks[r], blocks[p].keys[i]), r, p, WithoutChild(blocks[p], i))

(* The first of these plans makes up for r.                                *)
LEMMA BorrowLeftPlan ==
  ASSUME NEW s, Tree(blocks, s, ROOT_ID), NEW p, NEW i, NEW l, NEW r,
         SiblingsAt(blocks, p, i, l, r), NEW t, t = BorrowLeftCalls(p, i, l, r),
         Sized(blocks, r), Len(blocks[r].keys) < MinKeys, Len(blocks[l].keys) > MinKeys
  PROVE  Doable(blocks, FreshBlock, t) /\ MadeUpFor(blocks, s, Settle(blocks, t), p)
<1> DEFINE b == BorrowFromLeft(blocks[r], blocks[l], blocks[p].keys[i])
           n == WithSeparator(blocks[p], i, b.separator)
           C == Settle(blocks, t)
<1>1. /\ p \in DOMAIN blocks /\ l \in DOMAIN blocks /\ r \in DOMAIN blocks
      /\ l # r /\ l # p /\ r # p /\ Len(blocks[r].keys) \in Nat
      /\ Len(blocks[l].keys) \in Nat
  BY SiblingsParts
<1>2. t = ThreeSaves(l, b.sibling, r, b.node, p, n) BY DEF BorrowLeftCalls
<1>3. /\ PutThree(blocks, C, l, b.sibling, r, b.node, p, n)
      /\ Len(b.sibling.keys) <= MaxKeys /\ Len(b.node.keys) <= MaxKeys
           /\ Len(n.keys) <= MaxKeys => Doable(blocks, FreshBlock, t)
  <2> HIDE DEF b, n
  <2> QED BY <1>1, <1>2, PlanThree
<1>4. BorrowedLeft(blocks, C, p, i, l, r) BY <1>3 DEF BorrowedLeft
<1> HIDE DEF b, n, C
<1>5. Len(blocks[l].keys) > 1
  <2>1. MinKeys \in Nat BY Capacity
  <2> QED BY <1>1, <2>1
<1>6. PICK m, e : ShiftIn(blocks, C, p, i, l, r, m, e) BY <1>4, <1>5, BorrowLeftShift
<1>7. LentIn(blocks, C, p, l, r) BY <1>4, <1>5, BorrowLeftShift
<1>8. MadeUpFor(blocks, s, C, p) BY <1>6, <1>7, BorrowDone
<1>9. Len(b.sibling.keys) <= MaxKeys /\ Len(b.node.keys) <= MaxKeys /\ Len(n.keys) <= MaxKeys
  <2>1. /\ C[l] = b.sibling /\ C[r] = b.node /\ C[p] = n
        /\ l \in DOMAIN C /\ r \in DOMAIN C /\ p \in DOMAIN C
    BY <1>1, <1>3 DEF PutThree
  <2> QED BY <1>8, <2>1 DEF MadeUpFor, Sized
<1> QED BY <1>3, <1>8, <1>9 DEF C

(* The second makes up for l.                                              *)
LEMMA BorrowRightPlan ==
  ASSUME NEW s, Tree(blocks, s, ROOT_ID), NEW p, NEW i, NEW l, NEW r,
         SiblingsAt(blocks, p, i, l, r), NEW t, t = BorrowRightCalls(p, i, l, r),
         Sized(blocks, l), Len(blocks[l].keys) < MinKeys, Len(blocks[r].keys) > MinKeys
  PROVE  Doable(blocks, FreshBlock, t) /\ MadeUpFor(blocks, s, Settle(blocks, t), p)
<1> DEFINE b == BorrowFromRight(blocks[l], blocks[r], blocks[p].keys[i])
           n == WithSeparator(blocks[p], i, b.separator)
           C == Settle(blocks, t)
<1>1. /\ p \in DOMAIN blocks /\ l \in DOMAIN blocks /\ r \in DOMAIN blocks
      /\ l # r /\ l # p /\ r # p /\ Len(blocks[r].keys) \in Nat
      /\ Len(blocks[l].keys) \in Nat
  BY SiblingsParts
<1>2. t = ThreeSaves(r, b.sibling, l, b.node, p, n) BY DEF BorrowRightCalls
<1>3. /\ PutThree(blocks, C, r, b.sibling, l, b.node, p, n)
      /\ Len(b.sibling.keys) <= MaxKeys /\ Len(b.node.keys) <= MaxKeys
           /\ Len(n.keys) <= MaxKeys => Doable(blocks, FreshBlock, t)
  <2> HIDE DEF b, n
  <2> QED BY <1>1, <1>2, PlanThree
<1>4. BorrowedRight(blocks, C, p, i, l, r) BY <1>3 DEF BorrowedRight
<1> HIDE DEF b, n, C
<1>5. Len(blocks[r].keys) > 1
  <2>1. MinKeys \in Nat BY Capacity
  <2> QED BY <1>1, <2>1
<1>6. PICK m, e : ShiftIn(blocks, C, p, i, l, r, m, e) BY <1>4, <1>5, BorrowRightShift
<1>7. LentIn(blocks, C, p, r, l) BY <1>4, <1>5, BorrowRightShift
<1>8. MadeUpFor(blocks, s, C, p) BY <1>6, <1>7, BorrowDone
<1>9. Len(b.sibling.keys) <= MaxKeys /\ Len(b.node.keys) <= MaxKeys /\ Len(n.keys) <= MaxKeys
  <2>1. /\ C[r] = b.sibling /\ C[l] = b.node /\ C[p] = n
        /\ l \in DOMAIN C /\ r \in DOMAIN C /\ p \in DOMAIN C
    BY <1>1, <1>3 DEF PutThree
  <2> QED BY <1>8, <2>1 DEF MadeUpFor, Sized
<1> QED BY <1>3, <1>8, <1>9 DEF C

(* The third makes up for whichever of the two is short.                   *)
LEMMA MergePlan ==
  ASSUME NEW s, Tree(blocks, s, ROOT_ID), NEW p, NEW i, NEW l, NEW r,
         SiblingsAt(blocks, p, i, l, r), NEW t, t = MergeNodesCalls(p, i, l, r),
         NEW x, NEW y, (x = l /\ y = r) \/ (x = r /\ y = l),
         Sized(blocks, y), Len(blocks[y].keys) < MinKeys, Len(blocks[x].keys) <= MinKeys
  PROVE  Doable(blocks, FreshBlock, t) /\ MadeUpFor(blocks, s, Settle(blocks, t), p)
<1> DEFINE m == Merge(blocks[l], blocks[r], blocks[p].keys[i])
           n == WithoutChild(blocks[p], i)
           C == Settle(blocks, t)
<1>1. /\ p \in DOMAIN blocks /\ l \in DOMAIN blocks /\ r \in DOMAIN blocks
      /\ l # r /\ l # p /\ r # p
  BY SiblingsParts
<1>2. t = MergeCalls(l, m, r, p, n) BY DEF MergeNodesCalls
<1>3. /\ PutMerged(blocks, C, l, m, r, p, n)
      /\ Len(m.keys) <= MaxKeys /\ Len(n.keys) <= MaxKeys => Doable(blocks, FreshBlock, t)
  <2> HIDE DEF m, n
  <2> QED BY <1>1, <1>2, PlanMerge
<1>4. MergedInto(blocks, C, p, i, l, r) BY <1>3 DEF MergedInto
<1> HIDE DEF m, n, C
<1>5. MadeUpFor(blocks, s, C, p) BY <1>4, MergeDone
<1>6. Len(m.keys) <= MaxKeys /\ Len(n.keys) <= MaxKeys
  <2>1. C[l] = m /\ C[p] = n /\ l \in DOMAIN C /\ p \in DOMAIN C
    BY <1>1, <1>3 DEF PutMerged
  <2> QED BY <1>5, <2>1 DEF MadeUpFor, Sized
<1> QED BY <1>3, <1>5, <1>6 DEF C

(* What handle_child_underflow finds: the parent of the child that is too  *)
(* small, where the child is in it, and that it has another child.         *)
Underflown(s) ==
  LET p == Last(call.stack).id
      i == Last(call.stack).idx
      x == Target(call.stack)
  IN /\ Tree(blocks, s, ROOT_ID) /\ Sized(blocks, x) /\ RootSized(blocks)
     /\ OnPath(blocks, s, call.stack) /\ Fresh(blocks, call.stack)
     /\ Len(blocks[x].keys) < MinKeys
     /\ p \in DOMAIN blocks /\ blocks[p] \in WellShaped /\ IsInternal(blocks[p])
     /\ i \in 1..(Len(blocks[p].keys) + 1) /\ x = blocks[p].child_ids[i] /\ p # x
     /\ Len(blocks[p].keys) \in Nat /\ Len(blocks[p].keys) > 0
     /\ Last(call.stack).node = blocks[p]

(* handle_child_underflow is called for such a child, where MinKeys > 0.   *)
LEMMA ChildTooSmall ==
  ASSUME Good, call.pc = "delete_up", todo = <<>>, call.stack # <<>>, call.outcome = "Underflow"
  PROVE  /\ tree.root_exists /\ tree = header /\ call \in Calls /\ call.stack \in Seq(Frames)
         /\ MinKeys \in Nat /\ MinKeys > 0
         /\ \E s : Underflown(s)
<1> DEFINE p == Last(call.stack).id
           i == Last(call.stack).idx
           x == Target(call.stack)
<1>1. tree.root_exists /\ tree = header /\ call \in Calls /\ call.stack \in Seq(Frames)
  BY GoingUp
<1>2. PICK s : Deleting(call, blocks, s) BY GoingUp
<1>3. /\ Tree(blocks, s, ROOT_ID) /\ Sized(blocks, x) /\ RootSized(blocks)
      /\ OnPath(blocks, s, call.stack) /\ Fresh(blocks, call.stack)
      /\ Len(blocks[x].keys) < MinKeys
  BY <1>2 DEF Deleting, Short
<1>4. /\ p \in DOMAIN blocks /\ IsInternal(blocks[p]) /\ blocks[p] = Last(call.stack).node
      /\ i \in 1..(Len(blocks[p].keys) + 1) /\ x = blocks[p].child_ids[i] /\ p # x
      /\ x \in DOMAIN blocks
  BY <1>1, <1>3, PathTarget
<1>5. blocks[p] \in WellShaped /\ blocks[x] \in WellShaped
  BY <1>3, <1>4, TreeNode DEF Within
<1>6. MinKeys \in Nat /\ MinKeys > 0
  <2>1. Len(blocks[x].keys) \in Nat BY <1>5, NodeParts
  <2> HIDE DEF x
  <2> QED BY <1>3, <2>1, Capacity
<1>7. Len(blocks[p].keys) \in Nat BY <1>5, NodeParts
<1>8. Len(blocks[p].keys) > 0
  <2>1. CASE p = ROOT_ID
    <3>1. blocks[p].keys # <<>> BY <1>3, <1>4, <2>1 DEF RootSized
    <3>2. blocks[p].keys \in Seq(Key) BY <1>5, NodeParts
    <3> QED BY <1>7, <3>1, <3>2
  <2>2. CASE p # ROOT_ID
    <3>1. Len(blocks[p].keys) >= MinKeys BY <1>3, <1>4, <2>2 DEF Sized
    <3> HIDE DEF p
    <3> QED BY <1>6, <1>7, <3>1
  <2> QED BY <2>1, <2>2
<1>9. Underflown(s) BY <1>3, <1>4, <1>5, <1>7, <1>8 DEF Underflown
<1> QED BY <1>1, <1>6, <1>9

(* Whichever way handle_child_underflow takes, its plan makes up for the   *)
(* child.                                                                  *)
LEMMA RebalancePlan ==
  ASSUME Good, todo = <<>>, MinKeys \in Nat, NEW s, Underflown(s), NEW t,
         t = RebalanceWrites(Last(call.stack).id, blocks[Last(call.stack).id],
                             Last(call.stack).idx)
  PROVE  /\ Doable(blocks, FreshBlock, t)
         /\ MadeUpFor(blocks, s, Settle(blocks, t), Last(call.stack).id)
<1> DEFINE p == Last(call.stack).id
           i == Last(call.stack).idx
           x == Target(call.stack)
           n == blocks[p]
           c == Len(n.keys)
           left  == Sibling(n, i - 1)
           right == Sibling(n, i + 1)
<1>1. /\ Tree(blocks, s, ROOT_ID) /\ Sized(blocks, x) /\ Len(blocks[x].keys) < MinKeys
      /\ p \in DOMAIN blocks /\ n \in WellShaped /\ IsInternal(n)
      /\ i \in 1..(c + 1) /\ x = n.child_ids[i] /\ c \in Nat /\ c > 0
  BY DEF Underflown
<1>2. DOMAIN n.child_ids = 1..(c + 1) /\ \A j \in 1..(c + 1) : n.child_ids[j] \in Allotted
  BY <1>1, NodeParts
<1>3. NoBlock \notin Allotted BY DEF NoBlock, Allotted
<1> HIDE DEF p, i, x, n
<1>4. i > 1 => left = n.child_ids[i - 1] /\ left # NoBlock
  <2> HIDE DEF c
  <2>1. i > 1 => i - 1 \in 1..(c + 1) BY <1>1
  <2> QED BY <1>2, <1>3, <2>1 DEF Sibling
<1>5. i < c + 1 => right = n.child_ids[i + 1] /\ right # NoBlock
  <2> HIDE DEF c
  <2>1. i < c + 1 => i + 1 \in 1..(c + 1) BY <1>1
  <2> QED BY <1>2, <1>3, <2>1 DEF Sibling
<1>6. (~(i > 1) => left = NoBlock) /\ (~(i < c + 1) => right = NoBlock)
  <2> HIDE DEF c
  <2>1. (~(i > 1) => i - 1 \notin 1..(c + 1)) /\ (~(i < c + 1) => i + 1 \notin 1..(c + 1))
    BY <1>1
  <2> QED BY <1>2, <2>1 DEF Sibling
<1>7. i > 1 => SiblingsAt(blocks, p, i - 1, left, x)
  <2> SUFFICES ASSUME i > 1 PROVE SiblingsAt(blocks, p, i - 1, left, x) OBVIOUS
  <2>1. i - 1 \in 1..c /\ (i - 1) + 1 = i
    <3> HIDE DEF c
    <3> QED BY <1>1
  <2> QED BY <1>1, <1>4, <2>1 DEF SiblingsAt, n
<1>8. i < c + 1 => SiblingsAt(blocks, p, i, x, right)
  <2> SUFFICES ASSUME i < c + 1 PROVE SiblingsAt(blocks, p, i, x, right) OBVIOUS
  <2>1. i \in 1..c
    <3> HIDE DEF c
    <3> QED BY <1>1
  <2> QED BY <1>1, <1>5, <2>1 DEF SiblingsAt, n
<1>9. /\ i > 1 => (CanLend(left) <=> Len(blocks[left].keys) > MinKeys)
                  /\ Len(blocks[left].keys) \in Nat
      /\ i < c + 1 => (CanLend(right) <=> Len(blocks[right].keys) > MinKeys)
                      /\ Len(blocks[right].keys) \in Nat
  <2>1. i > 1 => blocks[left] \in WellShaped BY <1>1, <1>7, SiblingsParts
  <2>2. i < c + 1 => blocks[right] \in WellShaped BY <1>1, <1>8, SiblingsParts
  <2> HIDE DEF c, left, right
  <2> QED BY <2>1, <2>2, NodeParts DEF CanLend
<1>10. t = IF left # NoBlock /\ CanLend(left) THEN BorrowLeftWrites(p, n, i)
           ELSE IF right # NoBlock /\ CanLend(right) THEN BorrowRightWrites(p, n, i)
           ELSE IF left # NoBlock THEN MergeWrites(p, n, i - 1)
           ELSE IF right # NoBlock THEN MergeWrites(p, n, i)
           ELSE <<>>
  BY DEF RebalanceWrites, Lends, p, n, i
<1>11. i > 1 \/ i < c + 1
  <2> HIDE DEF c
  <2> QED BY <1>1
<1>12. (i > 1 \/ left = NoBlock) /\ (i < c + 1 \/ right = NoBlock) BY <1>6
<1>13. CASE i > 1 /\ CanLend(left)
  <2>1. t = BorrowLeftWrites(p, n, i) BY <1>4, <1>10, <1>13
  <2>2. t = BorrowLeftCalls(p, i - 1, left, x)
    BY <1>1, <1>4, <1>13, <2>1
    DEF BorrowLeftCalls, BorrowLeftWrites, ThreeSaves, WithSeparator, n
  <2> HIDE DEF left, right, c
  <2> QED BY <1>1, <1>7, <1>9, <1>13, <2>2, BorrowLeftPlan DEF p
<1>14. CASE ~(i > 1 /\ CanLend(left)) /\ i < c + 1 /\ CanLend(right)
  <2>1. t = BorrowRightWrites(p, n, i) BY <1>5, <1>10, <1>12, <1>14
  <2>2. t = BorrowRightCalls(p, i, x, right)
    BY <1>1, <1>5, <1>14, <2>1
    DEF BorrowRightCalls, BorrowRightWrites, ThreeSaves, WithSeparator, n
  <2> HIDE DEF left, right, c
  <2> QED BY <1>1, <1>8, <1>9, <1>14, <2>2, BorrowRightPlan DEF p
<1>15. CASE ~(i > 1 /\ CanLend(left)) /\ ~(i < c + 1 /\ CanLend(right)) /\ i > 1
  <2>1. t = MergeWrites(p, n, i - 1) BY <1>4, <1>10, <1>12, <1>15
  <2>2. (i - 1) + 1 = i BY <1>1
  <2>3. t = MergeNodesCalls(p, i - 1, left, x)
    BY <1>1, <1>4, <1>15, <2>1, <2>2
    DEF MergeNodesCalls, MergeWrites, MergeCalls, WithoutChild, n
  <2>4. Len(blocks[left].keys) <= MinKeys
    <3> HIDE DEF left, right, c
    <3> QED BY <1>9, <1>15
  <2> HIDE DEF left, right, c
  <2> QED BY <1>1, <1>7, <1>9, <1>15, <2>3, <2>4, MergePlan DEF p
<1>16. CASE ~(i > 1 /\ CanLend(left)) /\ ~(i < c + 1 /\ CanLend(right)) /\ ~(i > 1)
  <2>1. i < c + 1 BY <1>11, <1>16
  <2>2. t = MergeWrites(p, n, i) BY <1>5, <1>10, <1>12, <1>16, <2>1
  <2>3. t = MergeNodesCalls(p, i, x, right)
    BY <1>1, <1>5, <2>1, <2>2
    DEF MergeNodesCalls, MergeWrites, MergeCalls, WithoutChild, n
  <2>4. Len(blocks[right].keys) <= MinKeys
    <3> HIDE DEF left, right, c
    <3> QED BY <1>9, <1>16, <2>1
  <2> HIDE DEF left, right, c
  <2> QED BY <1>1, <1>8, <1>9, <2>1, <2>3, <2>4, MergePlan DEF p
<1> QED BY <1>13, <1>14, <1>15, <1>16, SMTT(20)

(* What is kept from the last node of the path up is the path, and, when   *)
(* that node is not the root, the root.                                    *)
LEMMA PathMadeUp ==
  ASSUME NEW B, NEW s, Tree(B, s, ROOT_ID), NEW stack \in Seq(Frames), stack # <<>>,
         OnPath(B, s, stack), Fresh(B, stack),
         NEW C, NEW t, KeptAbove(B, s, C, t, Last(stack).id)
  PROVE  /\ OnPath(C, t, stack) /\ Fresh(C, Front(stack))
         /\ Len(stack) > 1 /\ RootSized(B) => RootSized(C)
<1> DEFINE p == Last(stack).id
           d == Len(stack)
           h == s.ht[ROOT_ID]
<1>1. /\ p \in DOMAIN B /\ s.ht[p] + d = h + 1 /\ d \in Nat /\ d >= 1
      /\ \A j \in DOMAIN Front(stack) : j \in DOMAIN stack /\ Front(stack)[j] = stack[j]
  <2>1. /\ p \in DOMAIN B /\ s.ht[p] + d = h + 1
        /\ \A j \in DOMAIN Front(stack) : j \in DOMAIN stack /\ Front(stack)[j] = stack[j]
    BY PathFront
  <2>2. d \in Nat /\ d >= 1 OBVIOUS
  <2> QED BY <2>1, <2>2
<1>2. DOMAIN stack = 1..d OBVIOUS
<1>3. \A j \in DOMAIN stack : stack[j].id \in DOMAIN B /\ s.ht[stack[j].id] + j = h + 1
  BY DEF OnPath
<1>4. \A b \in DOMAIN B : s.ht[b] \in Nat BY TreeNode
<1>5. ROOT_ID \in DOMAIN B BY DEF Tree
<1>6. \A j \in DOMAIN stack : s.ht[stack[j].id] >= s.ht[p]
  <2> SUFFICES ASSUME NEW j \in DOMAIN stack PROVE s.ht[stack[j].id] >= s.ht[p] OBVIOUS
  <2> DEFINE a == s.ht[stack[j].id]
             c == s.ht[p]
  <2>1. a \in Nat /\ c \in Nat /\ h \in Nat /\ a + j = h + 1 /\ c + d = h + 1 /\ j \in 1..d
    BY <1>1, <1>2, <1>3, <1>4, <1>5
  <2> HIDE DEF a, c, h, d
  <2>2. a >= c BY <1>1, <2>1
  <2> QED BY <2>2 DEF a, c
<1>7. s.ht[ROOT_ID] >= s.ht[p]
  <2> DEFINE c == s.ht[p]
  <2>1. c \in Nat /\ h \in Nat /\ c + d = h + 1 BY <1>1, <1>4, <1>5
  <2> HIDE DEF c, h, d
  <2>2. h >= c BY <1>1, <2>1
  <2> QED BY <2>2 DEF c, h
<1>8. \A b \in DOMAIN B : s.ht[b] >= s.ht[p] =>
        b \in DOMAIN C /\ t.ht[b] = s.ht[b] /\ (b # p => C[b] = B[b])
  BY DEF KeptAbove
<1>9. t.ht[ROOT_ID] = s.ht[ROOT_ID] BY <1>5, <1>7, <1>8
<1>10. \A j \in DOMAIN stack : stack[j].id \in DOMAIN C /\ t.ht[stack[j].id] = s.ht[stack[j].id]
  BY <1>3, <1>6, <1>8
<1>11. OnPath(C, t, stack) BY <1>9, <1>10, PathKept
<1>12. /\ \A j \in DOMAIN Front(stack) : Front(stack)[j].id # p
       /\ d > 1 => p # ROOT_ID
  BY PathApart
<1>13. Fresh(C, Front(stack))
  <2> SUFFICES ASSUME NEW j \in DOMAIN Front(stack)
               PROVE  C[Front(stack)[j].id] = Front(stack)[j].node
    BY DEF Fresh
  <2>1. j \in DOMAIN stack /\ Front(stack)[j] = stack[j] /\ stack[j].id # p
    BY <1>1, <1>12
  <2>2. C[stack[j].id] = B[stack[j].id] BY <1>3, <1>6, <1>8, <2>1
  <2>3. B[stack[j].id] = stack[j].node BY <2>1 DEF Fresh
  <2> QED BY <2>1, <2>2, <2>3
<1>14. d > 1 => C[ROOT_ID] = B[ROOT_ID] BY <1>5, <1>7, <1>8, <1>12
<1> QED BY <1>11, <1>13, <1>14 DEF RootSized

(* The child is made up for; its parent is to be looked at next.           *)
LEMMA HandleChildUnderflowIntact == ASSUME Good, HandleChildUnderflow PROVE Sound'
<1> DEFINE p == Last(call.stack).id
           C == Settle(blocks, todo')
<1>1. /\ Runs("delete_up") /\ call.stack # <<>> /\ call.outcome = "Underflow"
      /\ NoStorageCall /\ tree' = tree /\ call' = [ call EXCEPT !.pc = "reload" ]
      /\ todo' = RebalanceWrites(p, blocks[p], Last(call.stack).idx)
  BY DEF HandleChildUnderflow, Rebalances
<1>2. /\ tree.root_exists /\ tree = header /\ call \in Calls /\ call.stack \in Seq(Frames)
      /\ MinKeys \in Nat /\ MinKeys > 0 /\ todo = <<>>
  BY <1>1, ChildTooSmall DEF Runs
<1>3. PICK s : Underflown(s) BY <1>1, ChildTooSmall DEF Runs
<1>4. /\ Tree(blocks, s, ROOT_ID) /\ RootSized(blocks)
      /\ OnPath(blocks, s, call.stack) /\ Fresh(blocks, call.stack)
  BY <1>3 DEF Underflown
<1>5. Doable(blocks, FreshBlock, todo') /\ MadeUpFor(blocks, s, C, p)
  BY <1>1, <1>2, <1>3, RebalancePlan
<1> HIDE DEF C
<1>6. Sized(C, p) BY <1>5 DEF MadeUpFor
<1>7. PICK t : Tree(C, t, ROOT_ID) /\ KeptAbove(blocks, s, C, t, p) BY <1>5 DEF MadeUpFor
<1>8. /\ OnPath(C, t, call.stack) /\ Fresh(C, Front(call.stack))
      /\ Len(call.stack) > 1 => RootSized(C)
  BY <1>1, <1>2, <1>4, <1>7, PathMadeUp
<1>9. call'.pc = "reload" /\ call'.stack = call.stack BY <1>1, <1>2 DEF Calls, CallsIn
<1>10. Rebalanced(call', C, t) BY <1>1, <1>2, <1>6, <1>7, <1>8, <1>9 DEF Rebalanced
<1>11. tree'.root_exists \in BOOLEAN BY <1>1, Running DEF Good, Metadata
<1>12. Place(call', tree'.root_exists, C, t, C) BY <1>1, <1>2, <1>9, <1>10, <1>11, PlaceOf
<1> QED BY <1>1, <1>2, <1>5, <1>9, <1>12, AfterHandler DEF C

(* The parent is looked at again: it may have become too small itself.     *)
LEMMA CheckParentIntact == ASSUME Good, CheckParent PROVE Sound'
<1> DEFINE f == Last(call.stack)
           n == blocks[f.id]
<1>1. /\ Runs("reload") /\ call.pc = "reload" /\ todo = <<>>
      /\ UNCHANGED <<tree, todo>> /\ NoStorageCall
      /\ call' = [ call EXCEPT !.pc = "delete_up", !.stack = Front(call.stack),
                    !.outcome = IF Underflows(f.id, n) THEN "Underflow" ELSE "KeyRemoved" ]
  BY DEF CheckParent, Runs
<1>2. call \in Calls /\ call.stack \in Seq(Frames) /\ tree.root_exists \in BOOLEAN
  BY Running DEF Good, Metadata
<1>3. PICK s, U : Place(call, tree.root_exists, blocks, s, U) BY <1>1, Situation
<1>4. tree.root_exists /\ Rebalanced(call, blocks, s) BY <1>1, <1>2, <1>3, PlaceOf
<1>5. /\ Tree(blocks, s, ROOT_ID) /\ MinKeys > 0 /\ call.stack # <<>> /\ Sized(blocks, f.id)
      /\ OnPath(blocks, s, call.stack) /\ Fresh(blocks, Front(call.stack))
      /\ Len(call.stack) > 1 => RootSized(blocks)
  BY <1>4 DEF Rebalanced
<1>6. /\ call'.pc = "delete_up" /\ call'.stack = Front(call.stack)
      /\ call'.outcome = IF Underflows(f.id, n) THEN "Underflow" ELSE "KeyRemoved"
  BY <1>1, <1>2 DEF Calls, CallsIn
<1>7. /\ OnPath(blocks, s, Front(call.stack)) /\ Target(Front(call.stack)) = f.id
      /\ Front(call.stack) \in Seq(Frames)
      /\ Len(Front(call.stack)) \in Nat /\ Len(Front(call.stack)) + 1 = Len(call.stack)
      /\ f.id \in DOMAIN blocks
  BY <1>2, <1>5, PathFront
<1>8. Front(call.stack) = <<>> => f.id = ROOT_ID BY <1>2, <1>5, PathApart
<1>9. Len(n.keys) \in Nat /\ n.key_count = Len(n.keys) BY <1>5, <1>7, TreeNode, NodeParts
<1>10. MinKeys \in Nat BY Capacity
<1>11. Front(call.stack) # <<>> => Len(call.stack) > 1
  <2> DEFINE a == Len(Front(call.stack))
             b == Len(call.stack)
  <2>1. Front(call.stack) # <<>> => a # 0 BY <1>7
  <2>2. a \in Nat /\ a + 1 = b BY <1>7
  <2> HIDE DEF a, b
  <2>3. a # 0 => b > 1 BY <2>2
  <2> QED BY <2>1, <2>3 DEF b
<1>12. Sized(blocks, Short(call'))
  <2>1. CASE Underflows(f.id, n)
    <3>1. Short(call') = f.id BY <1>6, <1>7, <2>1 DEF Short
    <3> QED BY <1>5, <3>1
  <2>2. CASE ~Underflows(f.id, n)
    <3>1. Short(call') = NoBlock BY <1>6, <2>2 DEF Short
    <3>2. f.id # ROOT_ID => Len(n.keys) >= MinKeys
      <4> DEFINE a == Len(n.keys)
      <4>1. f.id # ROOT_ID => ~(a < MinKeys) BY <1>9, <2>2 DEF Underflows
      <4> HIDE DEF a, f
      <4> QED BY <1>9, <1>10, <4>1 DEF a
    <3>3. \A b \in DOMAIN blocks : /\ Len(blocks[b].keys) <= MaxKeys
                                   /\ b # ROOT_ID => Len(blocks[b].keys) >= MinKeys
      BY <1>5, <3>2 DEF Sized
    <3>4. DOMAIN blocks \subseteq BlockId BY <1>5 DEF Tree
    <3> QED BY <3>1, <3>3, <3>4, AllSized
  <2> QED BY <2>1, <2>2
<1>13. call'.outcome = "Underflow" =>
         call'.stack # <<>> /\ Len(blocks[Target(call'.stack)].keys) < MinKeys
  <2> SUFFICES ASSUME Underflows(f.id, n)
               PROVE  Front(call.stack) # <<>> /\ Len(blocks[f.id].keys) < MinKeys
    BY <1>6, <1>7
  <2>1. f.id # ROOT_ID /\ Len(n.keys) < MinKeys BY <1>9 DEF Underflows
  <2> QED BY <1>8, <2>1
<1>14. MinKeys # 0 /\ call'.outcome # "NoChange" BY <1>5, <1>6, <1>10
<1>15. call'.stack # <<>> => RootSized(blocks) BY <1>5, <1>6, <1>11
<1> HIDE DEF f
<1>16. Deleting(call', blocks, s)
  BY <1>5, <1>6, <1>7, <1>12, <1>13, <1>14, <1>15 DEF Deleting
<1>17. Place(call', tree.root_exists, blocks, s, U) BY <1>2, <1>4, <1>6, <1>16, PlaceOf
<1> QED BY <1>1, <1>6, <1>17, AfterQuietHandler

(* The key was not there: nothing has changed.                             *)
LEMMA DeleteNothingIntact == ASSUME Good, DeleteNothing PROVE Sound'
<1>1. /\ Runs("delete_up") /\ call.stack = <<>> /\ call.outcome = "NoChange"
      /\ call' = Answer(None) /\ UNCHANGED <<tree, todo>> /\ NoStorageCall
  BY DEF DeleteNothing
<1>2. /\ tree.root_exists /\ tree = header /\ todo = <<>> /\ call \in Calls
      /\ call.pc = "delete_up" /\ tree.root_exists \in BOOLEAN
  BY <1>1, GoingUp DEF Runs
<1>3. PICK s : Deleting(call, blocks, s) BY <1>1, GoingUp DEF Runs
<1>4. WholeTree(blocks, s) BY <1>1, <1>3 DEF Deleting, Short, WholeTree
<1>5. call'.pc = "return" /\ Place(call', tree.root_exists, blocks, s, s)
  BY <1>1, <1>2, <1>4, Answered
<1> QED BY <1>1, <1>2, <1>5, AfterQuietHandler

(* The entry is counted off; the root is left to be looked at.             *)
LEMMA CountDeletedIntact == ASSUME Good, CountDeleted PROVE Sound'
<1>1. /\ Runs("delete_up") /\ call.stack = <<>> /\ call.outcome # "NoChange"
      /\ call' = [ call EXCEPT !.pc = "root_underflow" ] /\ todo' = <<>> /\ NoStorageCall
  BY DEF CountDeleted, Runs
<1>2. /\ tree.root_exists /\ call \in Calls /\ tree.root_exists \in BOOLEAN
  BY <1>1, GoingUp DEF Runs
<1>3. tree'.root_exists = tree.root_exists
  <2>1. tree \in Metadata BY Running DEF Good
  <2> QED BY <2>1 DEF CountDeleted, Metadata
<1>4. PICK s : Deleting(call, blocks, s) BY <1>1, GoingUp DEF Runs
<1>5. call'.pc = "root_underflow" /\ call'.stack = call.stack BY <1>1, <1>2 DEF Calls, CallsIn
<1>6. Counted(call', blocks, s) BY <1>1, <1>4, <1>5 DEF Deleting, Short, Counted
<1>7. Doable(blocks, FreshBlock, todo') /\ Settle(blocks, todo') = blocks BY <1>1, PlanNone
<1>8. Place(call', tree'.root_exists, Settle(blocks, todo'), s, s)
  BY <1>2, <1>3, <1>5, <1>6, <1>7, PlaceOf
<1> QED BY <1>1, <1>5, <1>7, <1>8, AfterHandler

(* What is left of a tree whose root is a leaf.                            *)
LEMMA LeafRootAlone ==
  ASSUME NEW B, NEW s, Tree(B, s, ROOT_ID), IsLeaf(B[ROOT_ID])
  PROVE  DOMAIN B = {ROOT_ID}
<1>1. ROOT_ID \in DOMAIN B BY DEF Tree
<1>2. s.ht[ROOT_ID] = 0 BY <1>1, TreeNode
<1>3. ASSUME NEW b \in DOMAIN B, b # ROOT_ID PROVE FALSE
  <2>1. s.ht[b] \in Nat /\ HasParent(B, s, ROOT_ID, b) BY TreeNode
  <2>2. s.ht[b] < s.ht[ROOT_ID] BY <1>3, <2>1 DEF HasParent
  <2> DEFINE a == s.ht[b]
  <2>3. a \in Nat /\ a < 0 BY <1>2, <2>1, <2>2
  <2> HIDE DEF a
  <2> QED BY <2>3
<1> QED BY <1>1, <1>3

(* The root gives way to its only child, or is dropped with its last key,  *)
(* or stays; in any case the metadata is saved.                            *)
LEMMA FinishDeleteIntact == ASSUME Good, FinishDelete PROVE Sound'
<1> DEFINE r == blocks[ROOT_ID]
           only == Head(r.child_ids)
           C == Settle(blocks, todo')
<1>1. /\ Runs("root_underflow") /\ call.pc = "root_underflow" /\ todo = <<>>
      /\ call' = Answer(call.answer) /\ NoStorageCall
  BY DEF FinishDelete, Runs
<1>2. /\ call \in Calls /\ ROOT_ID \in DOMAIN blocks
  BY <1>1, Running DEF Good
<1>3. /\ FreshBlock \in Allotted /\ FreshBlock \notin DOMAIN blocks
      /\ tree.root_exists \in BOOLEAN
  BY <1>1, Situation
<1>4. PICK s, U : tree.root_exists /\ Counted(call, blocks, s)
  <2>1. PICK s, U : Place(call, tree.root_exists, blocks, s, U) BY <1>1, Situation
  <2> QED BY <1>1, <1>3, <2>1, PlaceOf
<1>5. /\ Tree(blocks, s, ROOT_ID) /\ Sized(blocks, NoBlock)
      /\ (MinKeys = 0 => RootSized(blocks))
  BY <1>4 DEF Counted
<1>6. /\ r \in WellShaped /\ Len(r.keys) \in Nat /\ r.key_count = Len(r.keys)
      /\ r.keys \in Seq(Key) /\ r.child_ids \in Seq(Allotted)
      /\ (IsLeaf(r) \/ IsInternal(r)) /\ (IsLeaf(r) => r.child_ids = <<>>)
      /\ (IsInternal(r) => Len(r.child_ids) = Len(r.keys) + 1)
  BY <1>2, <1>5, TreeNode, NodeParts
<1>7. blocks = [ b \in DOMAIN blocks |-> blocks[b] ] BY DEF Good, Sound, Ready
<1>8. CASE /\ CollapsesRoot
           /\ todo' = CollapseWrites(only) /\ tree' = tree
  <2>1. IsInternal(r) /\ Len(r.keys) = 0 /\ r.child_ids # <<>>
    BY <1>6, <1>8 DEF CollapsesRoot
  <2>2. only = r.child_ids[1] /\ 1 \in DOMAIN r.child_ids BY <1>6, <2>1
  <2>3. InnerOK(blocks, s, ROOT_ID) BY <1>2, <1>5, <2>1, TreeNode DEF NodeOK
  <2>4. only \in DOMAIN blocks /\ only # ROOT_ID
    <3>1. ChildOK(blocks, s, ROOT_ID, 1) BY <2>2, <2>3 DEF InnerOK
    <3>2. only \in DOMAIN blocks BY <2>2, <3>1 DEF ChildOK
    <3>3. only \in Allotted BY <1>6, <2>2
    <3> QED BY <3>2, <3>3, RootIdType
  <2>5. MinKeys > 0
    <3>1. r.keys = <<>> BY <1>6, <2>1
    <3>2. MinKeys # 0 BY <1>5, <2>1, <3>1 DEF RootSized
    <3> QED BY <3>2, Capacity
  <2>6. Len(blocks[only].keys) >= MinKeys /\ Len(blocks[only].keys) <= MaxKeys
    <3>1. only # NoBlock BY <2>4, <1>5, TreeNode DEF NoBlock, BlockId
    <3> QED BY <1>5, <2>4, <3>1 DEF Sized
  <2>7. todo' = MergeCalls(ROOT_ID, blocks[only], only, ROOT_ID, blocks[only])
    BY <1>8 DEF CollapseWrites, MergeCalls
  <2> HIDE DEF only
  <2>8. /\ PutMerged(blocks, C, ROOT_ID, blocks[only], only, ROOT_ID, blocks[only])
        /\ Doable(blocks, FreshBlock, todo') /\ SavesRoot(todo')
    BY <1>2, <2>4, <2>6, <2>7, PlanMerge
  <2> HIDE DEF C
  <2>9. /\ DOMAIN C = DOMAIN blocks \ {only} /\ C[ROOT_ID] = blocks[only]
        /\ \A b \in DOMAIN blocks \ {ROOT_ID, only} : C[b] = blocks[b]
    BY <2>8 DEF PutMerged
  <2>10. ShrinkIn(blocks, C, ROOT_ID, only) BY <2>1, <2>2, <2>9 DEF ShrinkIn
  <2>11. PICK t : Tree(C, t, ROOT_ID) BY <1>5, <2>10, Shrink
  <2>12. Sized(C, NoBlock)
    <3> SUFFICES ASSUME NEW b \in DOMAIN C
                 PROVE  /\ Len(C[b].keys) <= MaxKeys
                        /\ b # ROOT_ID => Len(C[b].keys) >= MinKeys
      <4>1. DOMAIN C \subseteq BlockId BY <2>11 DEF Tree
      <4> QED BY <4>1, AllSized
    <3>1. CASE b = ROOT_ID BY <2>6, <2>9, <3>1
    <3>2. CASE b # ROOT_ID
      <4>1. b \in DOMAIN blocks /\ C[b] = blocks[b] /\ b # NoBlock
        BY <1>5, <2>9, <3>2, TreeNode DEF NoBlock, BlockId
      <4> QED BY <1>5, <3>2, <4>1 DEF Sized
    <3> QED BY <3>1, <3>2
  <2>13. RootSized(C)
    <3>1. blocks[only].keys # <<>>
      <4>1. Len(blocks[only].keys) # 0
        <5>1. Len(blocks[only].keys) \in Nat BY <1>5, <2>4, TreeNode, NodeParts
        <5>2. MinKeys \in Nat BY Capacity
        <5> QED BY <2>5, <2>6, <5>1, <5>2
      <4> QED BY <4>1
    <3> QED BY <2>9, <3>1 DEF RootSized
  <2>14. WholeTree(C, t) BY <2>11, <2>12, <2>13 DEF WholeTree
  <2>15. call'.pc = "return" /\ Place(call', tree'.root_exists, C, t, C)
    BY <1>1, <1>2, <1>3, <1>4, <1>8, <2>14, Answered
  <2> QED BY <1>1, <2>8, <2>15, AfterHandler DEF C
<1>9. CASE /\ EmptiesRoot
           /\ tree' = EmptyTree /\ todo' = << SaveMetadata(EmptyTree), SaveMetadata(EmptyTree) >>
  <2>1. IsLeaf(r) BY <1>9 DEF EmptiesRoot
  <2>2. DOMAIN blocks = {ROOT_ID} BY <1>5, <2>1, LeafRootAlone
  <2>3. todo' = << Save(ROOT_ID, NewLeaf), Save(ROOT_ID, NewLeaf) >>
    BY <1>9 DEF SaveMetadata, EmptyTree
  <2>4. Len(NewLeaf.keys) <= MaxKeys BY Capacity DEF NewLeaf
  <2>5. /\ Doable(blocks, FreshBlock, todo') /\ Put(blocks, C, ROOT_ID, NewLeaf)
        /\ SavesRoot(todo')
    BY <2>3, <2>4, PlanSaveTwice
  <2> HIDE DEF C
  <2>6. DOMAIN C = {ROOT_ID} BY <2>2, <2>5 DEF Put
  <2>7. tree'.root_exists = FALSE BY <1>9 DEF EmptyTree
  <2>8. call'.pc = "return" /\ Place(call', tree'.root_exists, C, s, U)
    <3> DEFINE e == tree'.root_exists
    <3>1. e \in BOOLEAN /\ ~e BY <2>7
    <3> HIDE DEF e
    <3>2. call'.pc = "return" /\ Place(call', e, C, s, U) BY <1>1, <1>2, <2>6, <3>1, Answered
    <3> QED BY <3>2 DEF e
  <2> QED BY <1>1, <2>5, <2>8, AfterHandler DEF C
<1>10. CASE /\ ~CollapsesRoot
            /\ todo' = << SaveMetadata(tree) >> /\ tree' = tree
  <2>1. RootSized(blocks)
    <3>1. IsInternal(r) => r.child_ids # <<>> BY <1>6
    <3>2. IsInternal(r) => Len(r.keys) # 0 BY <1>6, <1>10, <3>1 DEF CollapsesRoot
    <3>3. IsInternal(r) => r.keys # <<>> BY <3>2
    <3> QED BY <3>3 DEF RootSized
  <2>2. WholeTree(blocks, s) BY <1>5, <2>1 DEF WholeTree
  <2>3. todo' = << Save(ROOT_ID, blocks[ROOT_ID]) >> BY <1>4, <1>10 DEF SaveMetadata
  <2>4. Len(blocks[ROOT_ID].keys) <= MaxKeys BY <1>2, <1>5 DEF Sized
  <2>5. Doable(blocks, FreshBlock, todo') /\ C = blocks /\ SavesRoot(todo')
    BY <1>2, <1>7, <2>3, <2>4, PlanResave
  <2> HIDE DEF C
  <2>6. call'.pc = "return" /\ Place(call', tree'.root_exists, C, s, U)
    BY <1>1, <1>2, <1>3, <1>4, <1>10, <2>2, <2>5, Answered
  <2> QED BY <1>1, <2>5, <2>6, AfterHandler DEF C
<1> QED BY <1>8, <1>9, <1>10 DEF FinishDelete

-----------------------------------------------------------------------------
(* Clearing.                                                               *)

(* What is found on the way.                                               *)
LEMMA WhileClearing ==
  ASSUME Good, NEW pc \in {"clear", "clear_up"}, Runs(pc)
  PROVE  /\ tree.root_exists /\ tree = header /\ todo = <<>> /\ call \in Calls /\ call.pc = pc
         /\ call.stack \in Seq(Frames) /\ tree.root_exists \in BOOLEAN
         /\ blocks = [ b \in DOMAIN blocks |-> blocks[b] ]
         /\ \E s, U : Clearing(call, blocks, s, U)
<1>1. call.pc = pc /\ todo = <<>> BY DEF Runs
<1>2. /\ tree = header /\ tree.root_exists \in BOOLEAN
      /\ \E s, U : Place(call, tree.root_exists, blocks, s, U)
  BY <1>1, Situation
<1>3. PICK s, U : Place(call, tree.root_exists, blocks, s, U) BY <1>2
<1>4. tree.root_exists /\ Clearing(call, blocks, s, U) BY <1>1, <1>2, <1>3, PlaceOf
<1>5. call \in Calls /\ call.stack \in Seq(Frames) BY Running DEF Good
<1>6. blocks = [ b \in DOMAIN blocks |-> blocks[b] ] BY DEF Good, Sound, Ready
<1> QED BY <1>1, <1>2, <1>4, <1>5, <1>6

(* The path in what is left is the path in the tree that clear has found.  *)
LEMMA ClearPath ==
  ASSUME NEW c, NEW S, NEW s, NEW U, Clearing(c, S, s, U)
  PROVE  /\ Tree(U, s, ROOT_ID) /\ OnPath(U, s, c.stack) /\ Fresh(U, c.stack)
         /\ DOMAIN S \subseteq DOMAIN U /\ ROOT_ID \in DOMAIN S
         /\ \A b \in DOMAIN S : S[b] = U[b] /\ Len(S[b].keys) <= MaxKeys
         /\ Fresh(S, c.stack) /\ \A j \in DOMAIN c.stack : c.stack[j].id \in DOMAIN S
         /\ c.pc = "clear" => c.at = Target(c.stack) /\ c.at \in DOMAIN S
         /\ \A b \in DOMAIN U : \A i \in DOMAIN U[b].child_ids :
              U[b].child_ids[i] \in DOMAIN S <=> b \in DOMAIN S /\ Ahead(c, b, i)
BY DEF Clearing, Fresh

(* The i-th child of b is not before the path F.                           *)
Through(F, b, i) ==
  \A j \in DOMAIN F : F[j].id = b => i > F[j].idx \/ i = F[j].idx

(* What is ahead of a path, by its last frame and the ones before.         *)
LEMMA AheadOf ==
  ASSUME NEW c, c.stack \in Seq(Frames), c.stack # <<>>, NEW b, NEW i
  PROVE  /\ Ahead(c, b, i) <=>
              /\ Through(Front(c.stack), b, i)
              /\ b = Last(c.stack).id =>
                   i > Last(c.stack).idx \/ (i = Last(c.stack).idx /\ c.pc = "clear")
         /\ Through(c.stack, b, i) <=>
              /\ Through(Front(c.stack), b, i)
              /\ b = Last(c.stack).id => i > Last(c.stack).idx \/ i = Last(c.stack).idx
         /\ c.pc = "clear" => (Ahead(c, b, i) <=> Through(c.stack, b, i))
<1> DEFINE d == Len(c.stack)
           F == Front(c.stack)
<1>1. d \in Nat /\ d # 0 OBVIOUS
<1>2. /\ Len(F) = d - 1 /\ Last(c.stack) = c.stack[d]
      /\ \A j \in 1..(d - 1) : F[j] = c.stack[j]
  BY <1>1, EndsParts
<1>3. DOMAIN F = 1..(d - 1) /\ DOMAIN c.stack = 1..d
  <2>1. F \in Seq(Frames) BY <1>1, EndsParts
  <2> HIDE DEF F
  <2> QED BY <1>2, <2>1
<1> HIDE DEF d, F
<1>4. d \in 1..d /\ ~(d < d) /\ \A j \in 1..d : j = d \/ (j \in 1..(d - 1) /\ j < d)
  BY <1>1
<1>5. \A j \in 1..(d - 1) : j \in 1..d /\ j < d BY <1>1
<1>6. Ahead(c, b, i) <=>
        \A j \in 1..d : c.stack[j].id = b =>
          i > c.stack[j].idx \/ (i = c.stack[j].idx /\ (j < d \/ c.pc = "clear"))
  BY <1>3 DEF Ahead, d
<1>7. Through(c.stack, b, i) <=>
        \A j \in 1..d : c.stack[j].id = b => i > c.stack[j].idx \/ i = c.stack[j].idx
  BY <1>3 DEF Through
<1>8. Through(F, b, i) <=>
        \A j \in 1..(d - 1) : c.stack[j].id = b => i > c.stack[j].idx \/ i = c.stack[j].idx
  BY <1>2, <1>3 DEF Through
<1>9. Ahead(c, b, i) <=>
        /\ Through(F, b, i)
        /\ c.stack[d].id = b => i > c.stack[d].idx \/ (i = c.stack[d].idx /\ c.pc = "clear")
  BY <1>4, <1>5, <1>6, <1>8
<1>10. Through(c.stack, b, i) <=>
        /\ Through(F, b, i)
        /\ c.stack[d].id = b => i > c.stack[d].idx \/ i = c.stack[d].idx
  BY <1>4, <1>5, <1>7, <1>8
<1> QED BY <1>2, <1>9, <1>10 DEF F

(* A block other than the root that has nothing left below it goes, and    *)
(* its parent's path is past it.                                           *)
LEMMA TakenAway ==
  ASSUME NEW c, NEW S, NEW s, NEW U, Clearing(c, S, s, U),
         NEW d, d.stack \in Seq(Frames), d.stack # <<>>, d.pc = "clear_up",
         OnPath(U, s, d.stack), Fresh(S, d.stack),
         \A j \in DOMAIN d.stack : d.stack[j].id \in DOMAIN S,
         NEW C, DOMAIN C = DOMAIN S \ {Target(d.stack)},
         \A b \in DOMAIN C : C[b] = S[b],
         \A i \in DOMAIN U[Target(d.stack)].child_ids : ~Ahead(c, Target(d.stack), i),
         \A b \in DOMAIN U \ {Target(d.stack)} : \A i \in DOMAIN U[b].child_ids :
           Ahead(d, b, i) <=> /\ Ahead(c, b, i)
                              /\ ~(b = Last(d.stack).id /\ i = Last(d.stack).idx)
  PROVE  Clearing(d, C, s, U)
<1> DEFINE x == Target(d.stack)
           p == Last(d.stack).id
           k == Last(d.stack).idx
<1>1. /\ Tree(U, s, ROOT_ID) /\ DOMAIN S \subseteq DOMAIN U /\ ROOT_ID \in DOMAIN S
      /\ \A b \in DOMAIN S : S[b] = U[b] /\ Len(S[b].keys) <= MaxKeys
      /\ \A b \in DOMAIN U : \A i \in DOMAIN U[b].child_ids :
           U[b].child_ids[i] \in DOMAIN S <=> b \in DOMAIN S /\ Ahead(c, b, i)
  BY ClearPath
<1>2. Fresh(U, d.stack) BY <1>1 DEF Fresh
<1>3. /\ x \in DOMAIN U /\ x # ROOT_ID /\ \A j \in DOMAIN d.stack : d.stack[j].id # x
      /\ p \in DOMAIN U /\ IsInternal(U[p]) /\ k \in 1..(Len(U[p].keys) + 1)
      /\ x = U[p].child_ids[k]
  BY <1>1, <1>2, PathTarget
<1> HIDE DEF x, p, k
<1>4. ASSUME NEW b \in DOMAIN U, NEW i \in DOMAIN U[b].child_ids
      PROVE  U[b].child_ids[i] = x <=> b = p /\ i = k
  <2>1. IsInternal(U[b]) /\ i \in 1..(Len(U[b].keys) + 1)
    <3>1. U[b] \in WellShaped BY <1>1, TreeNode
    <3>2. IsInternal(U[b]) BY <3>1, Lengths
    <3> QED BY <3>1, <3>2, Lengths
  <2>2. s.par[U[b].child_ids[i]] = b BY <1>1, <2>1, TreeChild
  <2>3. s.par[x] = p BY <1>1, <1>3, TreeChild
  <2>4. ASSUME b = p, U[b].child_ids[i] = x PROVE i = k
    <3>1. i # k => U[b].child_ids[i] # U[b].child_ids[k]
      BY <1>1, <1>3, <2>1, <2>4, ChildrenDistinct
    <3> QED BY <1>3, <2>4, <3>1
  <2> QED BY <1>3, <2>2, <2>3, <2>4
<1>5. ASSUME NEW b \in DOMAIN U, NEW i \in DOMAIN U[b].child_ids
      PROVE  U[b].child_ids[i] \in DOMAIN C <=> b \in DOMAIN C /\ Ahead(d, b, i)
  <2> DEFINE y == U[b].child_ids[i]
  <2>1. y \in DOMAIN S <=> b \in DOMAIN S /\ Ahead(c, b, i) BY <1>1
  <2>2. y = x <=> b = p /\ i = k BY <1>4
  <2>3. y \in DOMAIN C <=> y \in DOMAIN S /\ y # x BY DEF x
  <2>4. b \in DOMAIN C <=> b \in DOMAIN S /\ b # x BY DEF x
  <2>5. b = x => ~Ahead(c, b, i) BY DEF x
  <2>6. b # x => (Ahead(d, b, i) <=> Ahead(c, b, i) /\ ~(b = p /\ i = k)) BY DEF x, p, k
  <2> HIDE DEF y
  <2>7. y \in DOMAIN C <=> b \in DOMAIN C /\ Ahead(d, b, i)
    BY <2>1, <2>2, <2>3, <2>4, <2>5, <2>6
  <2> QED BY <2>7 DEF y
<1>6. DOMAIN C \subseteq DOMAIN U /\ ROOT_ID \in DOMAIN C BY <1>1, <1>3 DEF x
<1>7. \A b \in DOMAIN C : C[b] = U[b] /\ Len(C[b].keys) <= MaxKeys BY <1>1
<1>8. \A j \in DOMAIN d.stack : d.stack[j].id \in DOMAIN C BY <1>3 DEF x
<1>9. Fresh(C, d.stack) BY <1>8 DEF Fresh
<1> QED BY <1>1, <1>5, <1>6, <1>7, <1>8, <1>9 DEF Clearing

(* Vec::push, then what is in front and at the end.                        *)
LEMMA AppendEnds ==
  ASSUME NEW S, NEW s \in Seq(S), NEW e \in S
  PROVE  Front(Append(s, e)) = s /\ Last(Append(s, e)) = e
<1> DEFINE u == Append(s, e)
           n == Len(s)
<1>1. /\ u \in Seq(S) /\ Len(u) = n + 1 /\ u[n + 1] = e
      /\ \A i \in 1..n : u[i] = s[i]
  BY AppendProperties
<1>2. n \in Nat OBVIOUS
<1> HIDE DEF u
<1>3. Len(u) # 0 /\ Len(u) - 1 = n
  <2> DEFINE m == Len(u)
  <2>1. m = n + 1 BY <1>1
  <2> HIDE DEF m, n
  <2>2. m # 0 /\ m - 1 = n BY <1>2, <2>1
  <2> QED BY <2>2 DEF m
<1>4. /\ Front(u) \in Seq(S) /\ Len(Front(u)) = n /\ Last(u) = u[Len(u)]
      /\ \A i \in 1..n : Front(u)[i] = u[i]
  <2>1. /\ Front(u) \in Seq(S) /\ Len(Front(u)) = Len(u) - 1 /\ Last(u) = u[Len(u)]
        /\ \A i \in 1..(Len(u) - 1) : Front(u)[i] = u[i]
    BY <1>1, <1>3, EndsParts
  <2> HIDE DEF n
  <2> QED BY <1>3, <2>1
<1>5. \A i \in 1..n : Front(u)[i] = s[i] BY <1>1, <1>4
<1>6. Front(u) = s
  <2> DEFINE v == Front(u)
  <2> HIDE DEF v
  <2>1. v \in Seq(S) /\ Len(v) = n /\ \A i \in 1..n : v[i] = s[i] BY <1>4, <1>5 DEF v
  <2> QED BY <2>1, SeqEqual DEF v
<1>7. Last(u) = e BY <1>1, <1>4
<1> QED BY <1>6, <1>7 DEF u

(* Down to the first child.                                                *)
LEMMA ClearInternalIntact == ASSUME Good, ClearInternal PROVE Sound'
<1> DEFINE x == call.at
           f == Frame(x, blocks[x], 1)
<1>1. /\ Runs("clear") /\ IsInternal(blocks[x])
      /\ call' = [ call EXCEPT !.at = Head(blocks[x].child_ids), !.stack = Append(@, f) ]
      /\ UNCHANGED <<tree, todo>> /\ NoStorageCall
  BY DEF ClearInternal
<1>2. /\ tree.root_exists /\ todo = <<>> /\ call \in Calls /\ call.pc = "clear"
      /\ call.stack \in Seq(Frames) /\ tree.root_exists \in BOOLEAN
      /\ \E s, U : Clearing(call, blocks, s, U)
  BY <1>1, WhileClearing
<1>3. PICK s, U : Clearing(call, blocks, s, U) BY <1>2
<1>4. /\ Tree(U, s, ROOT_ID) /\ OnPath(U, s, call.stack) /\ Fresh(U, call.stack)
      /\ \A b \in DOMAIN blocks : blocks[b] = U[b]
      /\ x = Target(call.stack) /\ x \in DOMAIN blocks /\ x \in DOMAIN U
      /\ \A j \in DOMAIN call.stack : call.stack[j].id \in DOMAIN blocks
      /\ \A b \in DOMAIN U : \A i \in DOMAIN U[b].child_ids :
           U[b].child_ids[i] \in DOMAIN blocks <=> b \in DOMAIN blocks /\ Ahead(call, b, i)
  BY <1>2, <1>3, ClearPath
<1>5. /\ U[x] \in WellShaped /\ IsInternal(U[x]) /\ 1 \in DOMAIN U[x].child_ids
      /\ Head(blocks[x].child_ids) = U[x].child_ids[1]
  <2>1. blocks[x] = U[x] /\ U[x] \in WellShaped /\ IsInternal(U[x]) BY <1>1, <1>4, TreeNode
  <2>2. Len(U[x].child_ids) = Len(U[x].keys) + 1 /\ Len(U[x].keys) \in Nat
        /\ U[x].child_ids \in Seq(Allotted)
    BY <2>1, NodeParts
  <2>3. 1 \in DOMAIN U[x].child_ids BY <2>2
  <2> QED BY <2>1, <2>2, <2>3
<1> DEFINE u == Append(call.stack, f)
<1>6. /\ call'.pc = "clear" /\ call'.stack = u /\ call'.at = U[x].child_ids[1]
  BY <1>1, <1>2, <1>5 DEF Calls, CallsIn
<1>7. /\ u \in Seq(Frames) /\ u # <<>> /\ OnPath(U, s, u) /\ Fresh(U, u)
      /\ Target(u) = U[x].child_ids[1]
      /\ \A j \in DOMAIN call.stack : u[j] = call.stack[j]
      /\ u[Len(call.stack) + 1] = f
      /\ \A j \in DOMAIN u : j \in DOMAIN call.stack \/ j = Len(call.stack) + 1
  <2>1. f = Frame(x, U[x], 1) BY <1>4
  <2> HIDE DEF f
  <2> QED BY <1>2, <1>4, <1>5, <2>1, PathPush
<1>8. f \in Frames
  <2>1. x \in BlockId BY <1>4, TreeNode
  <2> QED BY <1>4, <1>5, <2>1, FrameType
<1>9. f.id = x /\ f.idx = 1 BY DEF Frame
<1>10. Front(u) = call.stack /\ Last(u) = f
  <2> HIDE DEF f
  <2> QED BY <1>2, <1>8, AppendEnds
<1> HIDE DEF u, f
<1>11. ASSUME NEW b \in DOMAIN U, NEW i \in DOMAIN U[b].child_ids
       PROVE  Ahead(call', b, i) <=> Ahead(call, b, i)
  <2>1. Ahead(call', b, i) <=> Through(u, b, i) BY <1>6, <1>7, AheadOf
  <2>2. Through(u, b, i) <=> Through(call.stack, b, i) /\ (b = x => i > 1 \/ i = 1)
    <3>1. call'.stack = u /\ u \in Seq(Frames) /\ u # <<>> BY <1>6, <1>7
    <3>2. Through(u, b, i) <=> /\ Through(Front(u), b, i)
                               /\ b = Last(u).id => i > Last(u).idx \/ i = Last(u).idx
      BY <3>1, AheadOf
    <3> QED BY <1>9, <1>10, <3>2
  <2>3. i > 1 \/ i = 1
    <3>1. U[b].child_ids \in Seq(Allotted) BY <1>4, TreeNode, NodeParts
    <3>2. i \in 1..Len(U[b].child_ids) /\ Len(U[b].child_ids) \in Nat BY <3>1
    <3> DEFINE c == Len(U[b].child_ids)
    <3> HIDE DEF c
    <3> QED BY <3>2 DEF c
  <2>4. Ahead(call, b, i) <=> Through(call.stack, b, i)
    BY <1>2 DEF Ahead, Through
  <2> QED BY <2>1, <2>2, <2>3, <2>4
<1>12. U[x].child_ids[1] \in DOMAIN blocks
  <2>1. Ahead(call, x, 1)
    <3>1. \A j \in DOMAIN call.stack : call.stack[j].id # x BY <1>2, <1>4, PathTarget
    <3> QED BY <1>2, <3>1 DEF Ahead
  <2> QED BY <1>4, <1>5, <2>1
<1>13. \A j \in DOMAIN u : u[j].id \in DOMAIN blocks BY <1>4, <1>7, <1>9
<1>14. Fresh(blocks, u) BY <1>4, <1>7, <1>13 DEF Fresh
<1>15. Clearing(call', blocks, s, U)
  BY <1>3, <1>4, <1>6, <1>7, <1>11, <1>12, <1>13, <1>14 DEF Clearing
<1>16. Place(call', tree.root_exists, blocks, s, U) BY <1>2, <1>6, <1>15, PlaceOf
<1> QED BY <1>1, <1>2, <1>6, <1>16, AfterQuietHandler

(* A leaf goes, unless it is the root.                                     *)
LEMMA ClearLeafIntact == ASSUME Good, ClearLeaf PROVE Sound'
<1> DEFINE x == call.at
           C == Settle(blocks, todo')
<1>1. /\ Runs("clear") /\ IsLeaf(blocks[x])
      /\ call' = [ call EXCEPT !.pc = "clear_up", !.at = NoBlock ]
      /\ todo' = FreeUnlessRoot(x) /\ tree' = tree /\ NoStorageCall
  BY DEF ClearLeaf
<1>2. /\ tree.root_exists /\ tree = header /\ todo = <<>> /\ call \in Calls /\ call.pc = "clear"
      /\ call.stack \in Seq(Frames) /\ tree.root_exists \in BOOLEAN
      /\ \E s, U : Clearing(call, blocks, s, U)
  BY <1>1, WhileClearing
<1>3. PICK s, U : Clearing(call, blocks, s, U) BY <1>2
<1>4. /\ Tree(U, s, ROOT_ID) /\ OnPath(U, s, call.stack) /\ Fresh(U, call.stack)
      /\ \A b \in DOMAIN blocks : blocks[b] = U[b]
      /\ Fresh(blocks, call.stack)
      /\ x = Target(call.stack) /\ x \in DOMAIN blocks /\ x \in DOMAIN U
      /\ \A j \in DOMAIN call.stack : call.stack[j].id \in DOMAIN blocks
  BY <1>2, <1>3, ClearPath
<1>5. call'.pc = "clear_up" /\ call'.stack = call.stack BY <1>1, <1>2 DEF Calls, CallsIn
<1>6. DOMAIN U[x].child_ids = {}
  <2>1. blocks[x] = U[x] /\ U[x] \in WellShaped BY <1>4, TreeNode
  <2>2. U[x].child_ids = <<>> BY <1>1, <2>1, NodeParts
  <2> QED BY <2>2
<1>7. CASE x = ROOT_ID
  <2>1. call.stack = <<>> BY <1>2, <1>4, <1>7, PathTarget
  <2>2. Doable(blocks, FreshBlock, todo') /\ C = blocks
    BY <1>1, <1>7, PlanNone DEF FreeUnlessRoot
  <2>3. \A b \in DOMAIN U : \A i \in DOMAIN U[b].child_ids : Ahead(call', b, i) <=> Ahead(call, b, i)
    BY <1>2, <1>5, <1>6, <1>7, <2>1 DEF Ahead
  <2> HIDE DEF C
  <2>4. Clearing(call', blocks, s, U) BY <1>3, <1>5, <2>3 DEF Clearing
  <2>5. Place(call', tree'.root_exists, C, s, U)
    BY <1>1, <1>2, <1>5, <2>2, <2>4, PlaceOf
  <2> QED BY <1>1, <1>2, <1>5, <2>2, <2>5, AfterHandler DEF C
<1>8. CASE x # ROOT_ID
  <2>1. call.stack # <<>> BY <1>4, <1>8 DEF Target
  <2>2. todo' = << Free(x) >> BY <1>1, <1>8 DEF FreeUnlessRoot
  <2>3. Doable(blocks, FreshBlock, todo') /\ DOMAIN C = DOMAIN blocks \ {x}
        /\ \A b \in DOMAIN C : C[b] = blocks[b]
    <3> HIDE DEF x
    <3>1. /\ Doable(blocks, FreshBlock, <<Free(x)>>)
          /\ DOMAIN Settle(blocks, <<Free(x)>>) = DOMAIN blocks \ {x}
          /\ \A b \in DOMAIN blocks \ {x} : Settle(blocks, <<Free(x)>>)[b] = blocks[b]
      BY <1>4, PlanFree
    <3> QED BY <2>2, <3>1
  <2> HIDE DEF C
  <2>4. ASSUME NEW b, NEW i
        PROVE  Ahead(call', b, i) <=> /\ Ahead(call, b, i)
                                      /\ ~(b = Last(call.stack).id /\ i = Last(call.stack).idx)
    <3>1. Ahead(call, b, i) <=>
            /\ Through(Front(call.stack), b, i)
            /\ b = Last(call.stack).id => i > Last(call.stack).idx \/ i = Last(call.stack).idx
      BY <1>2, <2>1, AheadOf
    <3>2. Ahead(call', b, i) <=>
            /\ Through(Front(call.stack), b, i)
            /\ b = Last(call.stack).id => i > Last(call.stack).idx
      BY <1>2, <1>5, <2>1, AheadOf
    <3>3. ~(i > Last(call.stack).idx /\ i = Last(call.stack).idx)
      <4>1. Last(call.stack).idx \in Nat BY <2>1, TopFrame DEF Good
      <4> DEFINE k == Last(call.stack).idx
      <4> HIDE DEF k
      <4> QED BY <4>1 DEF k
    <3> QED BY <3>1, <3>2, <3>3
  <2>5. Clearing(call', C, s, U)
    <3> DEFINE d == call'
    <3>1. /\ d.stack \in Seq(Frames) /\ d.stack # <<>> /\ d.pc = "clear_up"
          /\ OnPath(U, s, d.stack) /\ Fresh(blocks, d.stack) /\ Target(d.stack) = x
          /\ \A j \in DOMAIN d.stack : d.stack[j].id \in DOMAIN blocks
      BY <1>2, <1>4, <1>5, <2>1
    <3>2. \A b, i : Ahead(d, b, i) <=> /\ Ahead(call, b, i)
                                       /\ ~(b = Last(d.stack).id /\ i = Last(d.stack).idx)
      BY <1>5, <2>4
    <3> HIDE DEF x, d
    <3>3. Clearing(d, C, s, U) BY <1>3, <1>6, <2>3, <3>1, <3>2, TakenAway
    <3> QED BY <3>3 DEF d
  <2>6. Place(call', tree'.root_exists, C, s, U) BY <1>1, <1>2, <1>5, <2>5, PlaceOf
  <2> QED BY <1>1, <1>2, <1>5, <2>3, <2>6, AfterHandler DEF C
<1> QED BY <1>7, <1>8

(* What clear_up finds in the last frame of its path.                      *)
LEMMA ClearedChild ==
  ASSUME NEW c, NEW S, NEW s, NEW U, Clearing(c, S, s, U), c.stack \in Seq(Frames),
         c.stack # <<>>
  PROVE  LET f == Last(c.stack)
             F == Front(c.stack)
         IN /\ f.id \in DOMAIN S /\ f.id \in DOMAIN U /\ f.node = U[f.id]
            /\ f.node.child_ids \in Seq(Allotted)
            /\ Len(f.node.child_ids) \in Nat /\ DOMAIN f.node.child_ids = 1..Len(f.node.child_ids)
            /\ IsInternal(U[f.id]) /\ f.idx \in 1..Len(f.node.child_ids)
            /\ F \in Seq(Frames) /\ OnPath(U, s, F) /\ Target(F) = f.id
            /\ Fresh(U, F) /\ Fresh(S, F)
            /\ \A j \in DOMAIN F : F[j].id \in DOMAIN S
            /\ F = <<>> <=> f.id = ROOT_ID
<1> DEFINE f == Last(c.stack)
           F == Front(c.stack)
<1>1. /\ Tree(U, s, ROOT_ID) /\ OnPath(U, s, c.stack) /\ Fresh(U, c.stack)
      /\ \A b \in DOMAIN S : S[b] = U[b]
      /\ Fresh(S, c.stack) /\ \A j \in DOMAIN c.stack : c.stack[j].id \in DOMAIN S
  BY ClearPath
<1>2. /\ f.id \in DOMAIN U /\ U[f.id] = f.node /\ IsInternal(U[f.id])
      /\ f.idx \in 1..(Len(U[f.id].keys) + 1)
  BY <1>1, PathTarget
<1>3. /\ F \in Seq(Frames) /\ OnPath(U, s, F) /\ Target(F) = f.id
      /\ \A j \in DOMAIN F : j \in DOMAIN c.stack /\ F[j] = c.stack[j]
  BY <1>1, PathFront
<1>4. F = <<>> => f.id = ROOT_ID BY <1>1, PathApart
<1>5. F # <<>> => f.id # ROOT_ID
  <2>1. Fresh(U, F) BY <1>1, <1>3 DEF Fresh
  <2> QED BY <1>1, <1>3, <2>1, PathTarget
<1>6. f.id \in DOMAIN S
  <2>1. Len(c.stack) \in DOMAIN c.stack /\ f = c.stack[Len(c.stack)]
    <3>1. Len(c.stack) # 0 OBVIOUS
    <3>2. Last(c.stack) = c.stack[Len(c.stack)] BY <3>1, EndsParts
    <3> QED BY <3>1, <3>2
  <2> QED BY <1>1, <2>1
<1>7. /\ f.node.child_ids \in Seq(Allotted) /\ Len(f.node.child_ids) = Len(U[f.id].keys) + 1
      /\ Len(U[f.id].keys) \in Nat
  BY <1>1, <1>2, TreeNode, NodeParts
<1>8. /\ Len(f.node.child_ids) \in Nat /\ DOMAIN f.node.child_ids = 1..Len(f.node.child_ids)
      /\ f.idx \in 1..Len(f.node.child_ids)
  BY <1>2, <1>7
<1>9. /\ Fresh(U, F) /\ Fresh(S, F) /\ \A j \in DOMAIN F : F[j].id \in DOMAIN S
  BY <1>1, <1>3 DEF Fresh
<1> QED BY <1>2, <1>3, <1>4, <1>5, <1>6, <1>7, <1>8, <1>9

(* On to the next child, if there is one.                                  *)
LEMMA ClearOn ==
  ASSUME Good, ClearNext, Last(call.stack).idx < Len(Last(call.stack).node.child_ids)
  PROVE  Sound'
<1> DEFINE f == Last(call.stack)
           F == Front(call.stack)
           k == f.idx + 1
           g == Frame(f.id, f.node, k)
           u == Append(F, g)
<1>1. /\ Runs("clear_up") /\ call.stack # <<>>
      /\ call' = [ call EXCEPT !.pc = "clear", !.at = f.node.child_ids[k],
                               !.stack = u ]
      /\ UNCHANGED <<tree, todo>> /\ NoStorageCall
  BY DEF ClearNext
<1>2. /\ tree.root_exists /\ todo = <<>> /\ call \in Calls /\ call.pc = "clear_up"
      /\ call.stack \in Seq(Frames) /\ tree.root_exists \in BOOLEAN
      /\ \E s, U : Clearing(call, blocks, s, U)
  BY <1>1, WhileClearing
<1>3. PICK s, U : Clearing(call, blocks, s, U) BY <1>2
<1>4. /\ Tree(U, s, ROOT_ID)
      /\ \A b \in DOMAIN blocks : blocks[b] = U[b]
      /\ \A b \in DOMAIN U : \A i \in DOMAIN U[b].child_ids :
           U[b].child_ids[i] \in DOMAIN blocks <=> b \in DOMAIN blocks /\ Ahead(call, b, i)
  BY <1>2, <1>3, ClearPath
<1>5. /\ f.id \in DOMAIN blocks /\ f.id \in DOMAIN U /\ f.node = U[f.id]
      /\ f.node.child_ids \in Seq(Allotted)
      /\ Len(f.node.child_ids) \in Nat /\ DOMAIN f.node.child_ids = 1..Len(f.node.child_ids)
      /\ IsInternal(U[f.id]) /\ f.idx \in 1..Len(f.node.child_ids)
      /\ F \in Seq(Frames) /\ OnPath(U, s, F) /\ Target(F) = f.id
      /\ Fresh(U, F) /\ \A j \in DOMAIN F : F[j].id \in DOMAIN blocks
  BY <1>1, <1>2, <1>3, ClearedChild
<1>6. call'.pc = "clear" /\ call'.stack = u /\ call'.at = f.node.child_ids[k]
  BY <1>1, <1>2 DEF Calls, CallsIn
<1>7. k \in DOMAIN f.node.child_ids /\ f.idx \in Nat
  <2> DEFINE n == Len(f.node.child_ids)
             i == f.idx
  <2>1. n \in Nat /\ i \in 1..n /\ i < n BY <1>5
  <2> HIDE DEF n, i
  <2>2. i + 1 \in 1..n /\ i \in Nat BY <2>1
  <2> QED BY <1>5, <2>2 DEF n, i
<1> HIDE DEF f, k, F
<1>8. /\ u \in Seq(Frames) /\ u # <<>> /\ OnPath(U, s, u) /\ Fresh(U, u)
      /\ Target(u) = f.node.child_ids[k]
      /\ \A j \in DOMAIN F : u[j] = F[j]
      /\ u[Len(F) + 1] = g
      /\ \A j \in DOMAIN u : j \in DOMAIN F \/ j = Len(F) + 1
  BY <1>4, <1>5, <1>7, PathPush, SMTT(20)
<1>9. g \in Frames /\ g.id = f.id /\ g.idx = k
  <2>1. f.id \in BlockId /\ U[f.id] \in WellShaped BY <1>4, <1>5, TreeNode
  <2>2. g \in Frames BY <1>5, <1>7, <2>1, FrameType
  <2> QED BY <2>2 DEF Frame
<1>10. Front(u) = F /\ Last(u) = g
  <2> HIDE DEF g
  <2> QED BY <1>5, <1>9, AppendEnds
<1> HIDE DEF u, g
<1>11. ASSUME NEW b \in DOMAIN U, NEW i \in DOMAIN U[b].child_ids
       PROVE  Ahead(call', b, i) <=> Ahead(call, b, i)
  <2>1. Ahead(call', b, i) <=> Through(F, b, i) /\ (b = f.id => i > k \/ i = k)
    BY <1>6, <1>8, <1>9, <1>10, AheadOf
  <2>2. Ahead(call, b, i) <=> Through(F, b, i) /\ (b = f.id => i > f.idx)
    BY <1>1, <1>2, AheadOf DEF F, f
  <2>3. i \in Nat
    <3>1. U[b].child_ids \in Seq(Allotted) BY <1>4, TreeNode, NodeParts
    <3> QED BY <3>1
  <2>4. i > k \/ i = k <=> i > f.idx
    <3> DEFINE e == f.idx
    <3>1. e \in Nat /\ k = e + 1 BY <1>7 DEF k
    <3> HIDE DEF e
    <3>2. i > k \/ i = k <=> i > e BY <2>3, <3>1
    <3> QED BY <3>2 DEF e
  <2> QED BY <2>1, <2>2, <2>4
<1>12. f.node.child_ids[k] \in DOMAIN blocks
  <2>1. Ahead(call, f.id, k)
    <3>1. Through(F, f.id, k)
      <4>1. \A j \in DOMAIN F : F[j].id # f.id BY <1>4, <1>5, PathTarget
      <4> QED BY <4>1 DEF Through
    <3>2. k > f.idx
      <4> DEFINE e == f.idx
      <4>1. e \in Nat /\ k = e + 1 BY <1>7 DEF k
      <4> HIDE DEF e
      <4>2. k > e BY <4>1
      <4> QED BY <4>2 DEF e
    <3> QED BY <1>1, <1>2, <3>1, <3>2, AheadOf DEF F, f
  <2> QED BY <1>4, <1>5, <1>7, <2>1
<1>13. \A j \in DOMAIN u : u[j].id \in DOMAIN blocks BY <1>5, <1>8, <1>9
<1>14. Fresh(blocks, u) BY <1>4, <1>8, <1>13 DEF Fresh
<1>15. Clearing(call', blocks, s, U)
  BY <1>3, <1>6, <1>8, <1>11, <1>12, <1>13, <1>14 DEF Clearing
<1>16. Place(call', tree.root_exists, blocks, s, U) BY <1>2, <1>6, <1>15, PlaceOf
<1> QED BY <1>1, <1>2, <1>6, <1>16, AfterQuietHandler

(* Up to the parent, when all its children are gone; it goes, unless it is *)
(* the root.                                                               *)
LEMMA ClearUp ==
  ASSUME Good, ClearNext, ~(Last(call.stack).idx < Len(Last(call.stack).node.child_ids))
  PROVE  Sound'
<1> DEFINE f == Last(call.stack)
           F == Front(call.stack)
           x == f.id
           C == Settle(blocks, todo')
<1>1. /\ Runs("clear_up") /\ call.stack # <<>>
      /\ call' = [ call EXCEPT !.stack = F ] /\ todo' = FreeUnlessRoot(x)
      /\ tree' = tree /\ NoStorageCall
  BY DEF ClearNext
<1>2. /\ tree.root_exists /\ tree = header /\ todo = <<>> /\ call \in Calls
      /\ call.pc = "clear_up" /\ call.stack \in Seq(Frames) /\ tree.root_exists \in BOOLEAN
      /\ \E s, U : Clearing(call, blocks, s, U)
  BY <1>1, WhileClearing
<1>3. PICK s, U : Clearing(call, blocks, s, U) BY <1>2
<1>4. /\ x \in DOMAIN blocks /\ x \in DOMAIN U /\ f.node = U[x]
      /\ Len(f.node.child_ids) \in Nat /\ DOMAIN f.node.child_ids = 1..Len(f.node.child_ids)
      /\ f.idx \in 1..Len(f.node.child_ids)
      /\ F \in Seq(Frames) /\ OnPath(U, s, F) /\ Target(F) = x
      /\ Fresh(blocks, F) /\ \A j \in DOMAIN F : F[j].id \in DOMAIN blocks
      /\ (F = <<>> <=> x = ROOT_ID)
  BY <1>1, <1>2, <1>3, ClearedChild
<1>5. call'.pc = "clear_up" /\ call'.stack = F BY <1>1, <1>2 DEF Calls, CallsIn
<1>6. \A b, i : Ahead(call, b, i) <=> Through(F, b, i) /\ (b = x => i > f.idx)
  BY <1>1, <1>2, AheadOf
<1>7. \A i \in DOMAIN U[x].child_ids : ~(i > f.idx)
  <2> DEFINE n == Len(f.node.child_ids)
             e == f.idx
  <2>1. n \in Nat /\ e \in 1..n /\ ~(e < n) /\ DOMAIN U[x].child_ids = 1..n BY <1>4
  <2> HIDE DEF n, e
  <2>2. \A i \in DOMAIN U[x].child_ids : ~(i > e) BY <2>1
  <2> QED BY <2>2 DEF e
<1>8. \A i \in DOMAIN U[x].child_ids : ~Ahead(call, x, i) BY <1>6, <1>7
<1> HIDE DEF f, F, x
<1>9. CASE x = ROOT_ID
  <2>1. F = <<>> BY <1>4, <1>9
  <2>2. Doable(blocks, FreshBlock, todo') /\ C = blocks
    BY <1>1, <1>9, PlanNone DEF FreeUnlessRoot
  <2> HIDE DEF C
  <2>3. \A b \in DOMAIN U : \A i \in DOMAIN U[b].child_ids : Ahead(call', b, i) <=> Ahead(call, b, i)
    <3>1. \A b, i : Ahead(call', b, i) <=> b # x BY <1>5, <1>9, <2>1 DEF Ahead
    <3>2. \A b, i : b # x => Ahead(call, b, i) BY <1>6, <2>1 DEF Through
    <3> QED BY <1>8, <3>1, <3>2
  <2>4. Clearing(call', blocks, s, U)
    BY <1>3, <1>4, <1>5, <2>3 DEF Clearing
  <2>5. Place(call', tree'.root_exists, C, s, U)
    BY <1>1, <1>2, <1>5, <2>2, <2>4, PlaceOf
  <2> QED BY <1>1, <1>2, <1>5, <2>2, <2>5, AfterHandler DEF C
<1>10. CASE x # ROOT_ID
  <2>1. F # <<>> BY <1>4, <1>10
  <2>2. todo' = << Free(x) >> BY <1>1, <1>10 DEF FreeUnlessRoot
  <2>3. Doable(blocks, FreshBlock, todo') /\ DOMAIN C = DOMAIN blocks \ {x}
        /\ \A b \in DOMAIN C : C[b] = blocks[b]
    <3>1. /\ Doable(blocks, FreshBlock, <<Free(x)>>)
          /\ DOMAIN Settle(blocks, <<Free(x)>>) = DOMAIN blocks \ {x}
          /\ \A b \in DOMAIN blocks \ {x} : Settle(blocks, <<Free(x)>>)[b] = blocks[b]
      BY <1>4, PlanFree
    <3> QED BY <2>2, <3>1
  <2> HIDE DEF C
  <2> DEFINE d == call'
             q == Last(F).id
             k == Last(F).idx
  <2>4. d.stack = F /\ d.pc = "clear_up" BY <1>5
  <2>5. k \in Nat
    <3>1. Last(F) \in Frames
      <4>1. Len(F) # 0 BY <1>4, <2>1
      <4> QED BY <1>4, <4>1, EndsParts
    <3> QED BY <3>1 DEF Frames, FramesIn
  <2> HIDE DEF d, q, k
  <2>6. ASSUME NEW b, NEW i, b # x
        PROVE  Ahead(d, b, i) <=> Ahead(call, b, i) /\ ~(b = q /\ i = k)
    <3>1. Ahead(call, b, i) <=> Through(F, b, i) BY <1>6, <2>6
    <3>2. /\ Ahead(d, b, i) <=> Through(Front(F), b, i) /\ (b = q => i > k)
          /\ Through(F, b, i) <=> Through(Front(F), b, i) /\ (b = q => i > k \/ i = k)
      BY <1>4, <2>1, <2>4, AheadOf DEF q, k
    <3>3. ~(i > k /\ i = k) BY <2>5
    <3> QED BY <3>1, <3>2, <3>3
  <2>7. Clearing(d, C, s, U)
    <3>1. /\ d.stack \in Seq(Frames) /\ d.stack # <<>>
          /\ OnPath(U, s, d.stack) /\ Fresh(blocks, d.stack) /\ Target(d.stack) = x
          /\ \A j \in DOMAIN d.stack : d.stack[j].id \in DOMAIN blocks
      BY <1>4, <2>1, <2>4
    <3>2. \A b, i : b # x => (Ahead(d, b, i) <=>
            Ahead(call, b, i) /\ ~(b = Last(d.stack).id /\ i = Last(d.stack).idx))
      BY <2>4, <2>6 DEF q, k
    <3> QED BY <1>3, <1>8, <2>3, <2>4, <3>1, <3>2, TakenAway
  <2>8. Place(call', tree'.root_exists, C, s, U) BY <1>1, <1>2, <1>5, <2>7, PlaceOf DEF d
  <2> QED BY <1>1, <1>2, <1>5, <2>3, <2>8, AfterHandler DEF C
<1> QED BY <1>9, <1>10

(* From child to child.                                                    *)
LEMMA ClearNextIntact == ASSUME Good, ClearNext PROVE Sound'
BY ClearOn, ClearUp

(* Of some of the blocks of a tree one is at least as high as the others.  *)
LEMMA Highest ==
  ASSUME NEW B, NEW s, NEW root, Tree(B, s, root), NEW T, T \subseteq DOMAIN B, T # {},
         \A b \in T : s.ht[b] <= s.ht[root]
  PROVE  \E b \in T : \A c \in T : ~(s.ht[b] < s.ht[c])
<1> DEFINE h == s.ht[root]
           D == { h - s.ht[b] : b \in T }
<1>1. h \in Nat /\ \A b \in T : s.ht[b] \in Nat
  <2>1. root \in DOMAIN B BY DEF Tree
  <2> QED BY <2>1, TreeNode
<1> HIDE DEF h
<1>2. \A b \in T : h - s.ht[b] \in Nat
  <2> SUFFICES ASSUME NEW b \in T PROVE h - s.ht[b] \in Nat OBVIOUS
  <2> DEFINE a == s.ht[b]
  <2>1. a \in Nat /\ a <= h BY <1>1 DEF h
  <2> HIDE DEF a
  <2>2. h - a \in Nat BY <1>1, <2>1
  <2> QED BY <2>2 DEF a
<1>3. D \subseteq Nat /\ D # {} BY <1>2
<1> DEFINE R == { ss \in Nat \X Nat : ss[1] < ss[2] }
<1>4. PICK x \in D : \A y \in D : ~(<<y, x>> \in R)
  <2>1. IsWellFoundedOn(R, Nat) BY NatLessThanWellFounded DEF OpToRel
  <2> HIDE DEF D, R
  <2> QED BY <1>3, <2>1, WFMin
<1>5. PICK b \in T : x = h - s.ht[b] OBVIOUS
<1>6. ASSUME NEW c \in T, s.ht[b] < s.ht[c] PROVE FALSE
  <2> DEFINE a == s.ht[b]
             e == s.ht[c]
             y == h - e
  <2>1. y \in D /\ y \in Nat /\ x \in Nat BY <1>2, <1>3
  <2>2. y < x
    <3>1. a \in Nat /\ e \in Nat /\ a < e /\ x = h - a BY <1>1, <1>5, <1>6
    <3> HIDE DEF a, e
    <3>2. h - e < x BY <1>1, <3>1
    <3> QED BY <3>2
  <2> HIDE DEF y, D
  <2>3. <<y, x>> \in R BY <2>1, <2>2
  <2> QED BY <1>4, <2>1, <2>3
<1> QED BY <1>6

(* When clear is back at the top, the root is all that is left.            *)
LEMMA OnlyRootLeft ==
  ASSUME NEW c, NEW S, NEW s, NEW U, Clearing(c, S, s, U), c.stack = <<>>, c.pc = "clear_up"
  PROVE  DOMAIN S = {ROOT_ID}
<1>1. /\ Tree(U, s, ROOT_ID) /\ DOMAIN S \subseteq DOMAIN U /\ ROOT_ID \in DOMAIN S
      /\ \A b \in DOMAIN U : \A i \in DOMAIN U[b].child_ids :
           U[b].child_ids[i] \in DOMAIN S <=> b \in DOMAIN S /\ Ahead(c, b, i)
  BY ClearPath
<1> DEFINE T == DOMAIN S \ {ROOT_ID}
<1>2. \A b \in T : s.ht[b] < s.ht[ROOT_ID]
  BY <1>1, TreeNode DEF HasParent
<1>3. \A b \in T : s.ht[b] <= s.ht[ROOT_ID]
  <2> SUFFICES ASSUME NEW b \in T PROVE s.ht[b] <= s.ht[ROOT_ID] OBVIOUS
  <2> DEFINE a == s.ht[b]
             h == s.ht[ROOT_ID]
  <2>1. a \in Nat /\ h \in Nat /\ a < h BY <1>1, <1>2, TreeNode
  <2> HIDE DEF a, h
  <2>2. a <= h BY <2>1
  <2> QED BY <2>2 DEF a, h
<1>4. ASSUME T # {} PROVE FALSE
  <2>1. PICK b \in T : \A e \in T : ~(s.ht[b] < s.ht[e])
    <3>1. T \subseteq DOMAIN U BY <1>1
    <3> HIDE DEF T
    <3> QED BY <1>1, <1>3, <1>4, <3>1, Highest
  <2>2. b \in DOMAIN U /\ b # ROOT_ID BY <1>1
  <2> DEFINE p == s.par[b]
  <2>3. /\ p \in DOMAIN U /\ IsInternal(U[p]) /\ s.ht[b] + 1 = s.ht[p]
        /\ \E i \in 1..(Len(U[p].keys) + 1) : U[p].child_ids[i] = b
    BY <1>1, <2>2, TreeParent
  <2>4. PICK i \in 1..(Len(U[p].keys) + 1) : U[p].child_ids[i] = b BY <2>3
  <2>5. i \in DOMAIN U[p].child_ids
    <3>1. U[p] \in WellShaped BY <1>1, <2>3, TreeNode
    <3> QED BY <2>3, <3>1, NodeParts
  <2>6. p \in DOMAIN S /\ Ahead(c, p, i) BY <1>1, <2>3, <2>4, <2>5
  <2>7. p # ROOT_ID BY <2>6 DEF Ahead
  <2>8. s.ht[b] < s.ht[p]
    <3> DEFINE a == s.ht[b]
               e == s.ht[p]
    <3>1. a \in Nat /\ a + 1 = e BY <1>1, <2>2, <2>3, TreeNode
    <3> HIDE DEF a, e
    <3>2. a < e BY <3>1
    <3> QED BY <3>2 DEF a, e
  <2> QED BY <2>1, <2>6, <2>7, <2>8
<1> QED BY <1>1, <1>4

(* Back at the top: the tree has no root any more.                         *)
LEMMA FinishClearIntact == ASSUME Good, FinishClear PROVE Sound'
<1> DEFINE C == Settle(blocks, todo')
<1>1. /\ Runs("clear_up") /\ call.stack = <<>> /\ call' = Answer(None)
      /\ tree' = EmptyTree /\ todo' = << SaveMetadata(EmptyTree) >> /\ NoStorageCall
  BY DEF FinishClear
<1>2. /\ call \in Calls /\ call.pc = "clear_up" /\ todo = <<>>
      /\ \E s, U : Clearing(call, blocks, s, U)
  BY <1>1, WhileClearing
<1>3. PICK s, U : Clearing(call, blocks, s, U) BY <1>2
<1>4. DOMAIN blocks = {ROOT_ID} BY <1>1, <1>2, <1>3, OnlyRootLeft
<1>5. todo' = << Save(ROOT_ID, NewLeaf) >> BY <1>1 DEF SaveMetadata, EmptyTree
<1>6. Len(NewLeaf.keys) <= MaxKeys BY Capacity DEF NewLeaf
<1>7. /\ Doable(blocks, FreshBlock, todo') /\ Put(blocks, C, ROOT_ID, NewLeaf)
      /\ SavesRoot(todo')
  BY <1>5, <1>6, PlanSave
<1> HIDE DEF C
<1>8. DOMAIN C = {ROOT_ID} BY <1>4, <1>7 DEF Put
<1>9. call'.pc = "return" /\ Place(call', tree'.root_exists, C, s, U)
  <2> DEFINE e == tree'.root_exists
  <2>1. e \in BOOLEAN /\ ~e BY <1>1 DEF EmptyTree
  <2> HIDE DEF e
  <2>2. call'.pc = "return" /\ Place(call', e, C, s, U)
    BY <1>1, <1>2, <1>8, <2>1, Answered, SMTT(20)
  <2> QED BY <2>2 DEF e
<1> QED BY <1>1, <1>2, <1>7, <1>9, AfterHandler DEF C

-----------------------------------------------------------------------------
(* What does not happen as long as nothing fails.                          *)

(* The nodes that handle_child_underflow loads are children of one node:   *)
(* they are there, all at one height.                                      *)
LEMMA UnderflowFinds ==
  ASSUME NEW s, Underflown(s)
  PROVE  LET p == Last(call.stack).id
             i == Last(call.stack).idx
         IN /\ i \in DOMAIN blocks[p].child_ids
            /\ \A b \in UnderflowLoads(p, i) : b \in DOMAIN blocks /\ s.ht[b] + 1 = s.ht[p]
<1> DEFINE p == Last(call.stack).id
           i == Last(call.stack).idx
           n == blocks[p]
           left  == Sibling(n, i - 1)
           right == Sibling(n, i + 1)
<1>1. /\ Tree(blocks, s, ROOT_ID) /\ p \in DOMAIN blocks /\ n \in WellShaped /\ IsInternal(n)
      /\ i \in 1..(Len(n.keys) + 1)
  BY DEF Underflown
<1>2. DOMAIN n.child_ids = 1..(Len(n.keys) + 1) BY <1>1, NodeParts
<1>3. \A j \in DOMAIN n.child_ids :
        n.child_ids[j] \in DOMAIN blocks /\ s.ht[n.child_ids[j]] + 1 = s.ht[p]
  BY <1>1, <1>2, TreeChild
<1>4. i \in DOMAIN n.child_ids BY <1>1, <1>2, SMTT(20)
<1>5. ASSUME NEW b \in UnderflowLoads(p, i)
      PROVE  \E j \in DOMAIN n.child_ids : b = n.child_ids[j]
  <2>1. b \in {n.child_ids[i], left, right} /\ b # NoBlock
    <3>1. UnderflowLoads(p, i) \subseteq {n.child_ids[i], left, right} \ {NoBlock}
      BY <1>1, <1>4 DEF UnderflowLoads
    <3> QED BY <3>1
  <2> QED BY <1>4, <2>1 DEF Sibling
<1> QED BY <1>3, <1>4, <1>5

(* Every block that is loaded is there.                                    *)
LEMMA AlwaysFound == ASSUME Good, todo = <<>> PROVE Loaded \subseteq DOMAIN blocks
<1>1. CASE call.pc = "closed" BY <1>1, ClosedLoadsNothing
<1>2. CASE call.pc # "closed"
  <2>1. call \in Calls /\ call.stack \in Seq(Frames) /\ tree.root_exists \in BOOLEAN
    BY Running DEF Good, Metadata
  <2>2. PICK s, U : Place(call, tree.root_exists, blocks, s, U) BY <1>2, Situation
  <2>3. CASE call.pc = "descend"
    <3>1. Searching(call, blocks, s) BY <2>1, <2>2, <2>3, PlaceOf
    <3>2. call.at \in DOMAIN blocks
      BY <2>1, <3>1, PathTarget DEF Searching, WholeTree
    <3> QED BY <2>3, <3>2 DEF Loaded
  <2>4. CASE call.pc = "scan"
    <3>1. Scanning(call, blocks, s) BY <2>1, <2>2, <2>4, PlaceOf
    <3> QED BY <2>4, <3>1 DEF Loaded, Scanning
  <2>5. CASE call.pc = "clear"
    <3>1. Clearing(call, blocks, s, U) BY <2>1, <2>2, <2>5, PlaceOf
    <3>2. call.at \in DOMAIN blocks BY <2>5, <3>1, ClearPath
    <3> QED BY <2>5, <3>2 DEF Loaded
  <2>6. CASE call.pc = "reload"
    <3>1. Rebalanced(call, blocks, s) BY <2>1, <2>2, <2>6, PlaceOf
    <3>2. Last(call.stack).id \in DOMAIN blocks BY <2>1, <3>1, PathFront DEF Rebalanced
    <3> QED BY <2>6, <3>2 DEF Loaded
  <2>7. CASE call.pc = "delete_up" /\ call.stack # <<>> /\ call.outcome = "Underflow"
    <3>1. PICK t : Underflown(t) BY <2>7, ChildTooSmall
    <3>2. UnderflowLoads(Last(call.stack).id, Last(call.stack).idx) \subseteq DOMAIN blocks
      BY <3>1, UnderflowFinds
    <3> QED BY <2>7, <3>2 DEF Loaded
  <2>8. CASE call.pc = "root_underflow"
    <3>1. Tree(blocks, s, ROOT_ID) BY <2>1, <2>2, <2>8, PlaceOf DEF Counted
    <3>2. ROOT_ID \in DOMAIN blocks BY <3>1 DEF Tree
    <3>3. CollapsesRoot => Head(blocks[ROOT_ID].child_ids) \in DOMAIN blocks
      <4> SUFFICES ASSUME CollapsesRoot
                   PROVE  Head(blocks[ROOT_ID].child_ids) \in DOMAIN blocks
        OBVIOUS
      <4> DEFINE r == blocks[ROOT_ID]
      <4>1. r \in WellShaped BY <3>1, <3>2, TreeNode
      <4>2. r.child_ids # <<>> /\ r.child_ids \in Seq(Allotted) BY <4>1, NodeParts DEF CollapsesRoot
      <4>3. IsInternal(r) BY <4>1, <4>2, NodeParts
      <4>4. 1 \in 1..(Len(r.keys) + 1) BY <4>1, NodeParts
      <4>5. r.child_ids[1] \in DOMAIN blocks BY <3>1, <3>2, <4>3, <4>4, TreeChild
      <4> QED BY <4>2, <4>5
    <3> QED BY <2>8, <3>2, <3>3 DEF Loaded
  <2>9. CASE /\ call.pc \notin {"descend", "scan", "clear", "reload", "root_underflow"}
             /\ ~(call.pc = "delete_up" /\ call.stack # <<>> /\ call.outcome = "Underflow")
    BY <2>9 DEF Loaded
  <2> QED BY <2>3, <2>4, <2>5, <2>6, <2>7, <2>8, <2>9
<1> QED BY <1>1, <1>2

(* A block that is freed is there.                                         *)
LEMMA FreedBlockThere ==
  ASSUME Good, todo # <<>>, Head(todo).do = "free"
  PROVE  Head(todo).id \in DOMAIN blocks
<1>1. todo \in Seq(StorageCalls) /\ Doable(blocks, FreshBlock, todo)
  BY Running DEF Good, Sound, Ready
<1>2. 1 \in DOMAIN todo /\ Head(todo) = todo[1] BY <1>1
<1> QED BY <1>1, <1>2 DEF Doable

(* The storage never answers that a block is not there.                    *)
LEMMA NeverNotFound == ASSUME Good PROVE ~BlockNotFound
BY AlwaysFound, FreedBlockThere DEF BlockNotFound

(* A node that is saved is not longer than a block, if full nodes are not. *)
LEMMA SavedNodeFits ==
  ASSUME Good, FullFits, todo # <<>>, Head(todo).do = "save"
  PROVE  Fits(Head(todo).id, Head(todo).node)
<1>1. todo \in Seq(StorageCalls) /\ Doable(blocks, FreshBlock, todo)
  BY Running DEF Good, Sound, Ready
<1>2. 1 \in DOMAIN todo /\ Head(todo) = todo[1] /\ todo[1] \in StorageCalls BY <1>1
<1>3. Len(todo[1].node.keys) <= MaxKeys BY <1>1, <1>2 DEF Doable
<1>4. todo[1].id \in BlockId /\ todo[1].node \in WellShaped BY <1>2, StorageCallParts
<1> QED BY <1>2, <1>3, <1>4 DEF FullFits

(* The storage never answers that a node is too long for its block.        *)
LEMMA NeverTooLong == ASSUME Good, FullFits PROVE ~InvalidBlockSize
BY SavedNodeFits DEF InvalidBlockSize, Refused

(* An underflowing child has a sibling, next to it and as high as it is:   *)
(* the two are of one kind, and whatever it has to give can be taken.      *)
LEMMA SiblingsAlike ==
  ASSUME Good, Rebalances
  PROVE  LET n == blocks[Last(call.stack).id]
             i == Last(call.stack).idx
         IN OneKind(n, i) /\ ~MergesTwoKinds(n, i) /\ ~RebalancePanics(n, i)
<1> DEFINE p == Last(call.stack).id
           i == Last(call.stack).idx
           n == blocks[p]
           c == Len(n.keys)
           left  == Sibling(n, i - 1)
           right == Sibling(n, i + 1)
           q == Partner(n, i)
           x == n.child_ids[i]
           y == n.child_ids[q]
<1>1. /\ todo = <<>> /\ call.pc = "delete_up" /\ call.stack # <<>>
      /\ call.outcome = "Underflow"
  BY DEF Rebalances, Runs
<1>2. PICK s : Underflown(s) BY <1>1, ChildTooSmall
<1>3. MinKeys \in Nat BY <1>1, ChildTooSmall
<1>4. /\ Tree(blocks, s, ROOT_ID) /\ p \in DOMAIN blocks /\ n \in WellShaped /\ IsInternal(n)
      /\ i \in 1..(c + 1) /\ c \in Nat /\ c > 0
  BY <1>2 DEF Underflown
<1>5. /\ DOMAIN n.child_ids = 1..(c + 1) /\ DOMAIN n.keys = 1..c
      /\ \A j \in 1..(c + 1) : n.child_ids[j] # NoBlock
  <2>1. \A j \in 1..(c + 1) : n.child_ids[j] \in Allotted BY <1>4, NodeParts
  <2>2. NoBlock \notin Allotted BY DEF NoBlock, Allotted
  <2>3. DOMAIN n.child_ids = 1..(c + 1) /\ DOMAIN n.keys = 1..c BY <1>4, NodeParts
  <2> QED BY <2>1, <2>2, <2>3
<1>6. \A j \in 1..(c + 1) :
        n.child_ids[j] \in DOMAIN blocks /\ s.ht[n.child_ids[j]] + 1 = s.ht[p]
  BY <1>4, TreeChild
<1> HIDE DEF p, i, n, c
<1>7. /\ left # NoBlock <=> i - 1 \in 1..(c + 1)
      /\ right # NoBlock <=> i + 1 \in 1..(c + 1)
  BY <1>5 DEF Sibling
<1>8. /\ q \in 1..(c + 1) /\ q \in {i - 1, i + 1}
      /\ SeparatorAt(n, i) \in 1..c
  <2>1. q = i - 1 \/ (q = i + 1 /\ right # NoBlock) BY DEF Partner
  <2>2. q = i - 1 => left # NoBlock \/ right = NoBlock
    <3>1. CASE Lends(left) \/ (left # NoBlock /\ ~Lends(right)) \/ right = NoBlock
      BY <3>1 DEF Lends
    <3>2. CASE ~(Lends(left) \/ (left # NoBlock /\ ~Lends(right)) \/ right = NoBlock)
      <4>1. q = i + 1 BY <3>2 DEF Partner
      <4> QED BY <1>4, <4>1
    <3> QED BY <3>1, <3>2
  <2> HIDE DEF q, left, right
  <2>3. q \in 1..(c + 1) /\ q \in {i - 1, i + 1} BY <1>4, <1>7, <2>1, <2>2
  <2>4. SeparatorAt(n, i) = IF q < i THEN i - 1 ELSE i BY DEF SeparatorAt, q
  <2> QED BY <1>4, <2>3, <2>4
<1>9. Sibling(n, q) = y /\ y # NoBlock
  <2> HIDE DEF q
  <2> QED BY <1>5, <1>8 DEF Sibling
<1>10. /\ x \in DOMAIN blocks /\ y \in DOMAIN blocks
       /\ s.ht[x] + 1 = s.ht[p] /\ s.ht[y] + 1 = s.ht[p]
  <2> HIDE DEF q
  <2> QED BY <1>4, <1>6, <1>8
<1> HIDE DEF q, x, y
<1>11. IsLeaf(blocks[y]) = IsLeaf(blocks[x])
  <2> DEFINE u == s.ht[x]
             v == s.ht[y]
             w == s.ht[p]
  <2>1. u \in Nat /\ v \in Nat /\ u + 1 = w /\ v + 1 = w BY <1>4, <1>10, TreeNode
  <2>2. (IsLeaf(blocks[x]) <=> u = 0) /\ (IsLeaf(blocks[y]) <=> v = 0)
    BY <1>4, <1>10, TreeNode
  <2> HIDE DEF u, v, w
  <2>3. u = v BY <2>1
  <2> QED BY <2>2, <2>3 DEF IsLeaf
<1>12. OneKind(n, i) /\ ~MergesTwoKinds(n, i)
  BY <1>9, <1>11 DEF OneKind, MergesTwoKinds, q, x
<1>13. CanLend(y) => Lendable(blocks[x], blocks[y]) # <<>>
  <2>1. blocks[x] \in WellShaped /\ blocks[y] \in WellShaped BY <1>4, <1>10, TreeNode
  <2>2. blocks[y].key_count \in Nat BY <2>1, NodeParts
  <2>3. CanLend(y) => blocks[y].key_count > 0 BY <1>3, <2>2 DEF CanLend
  <2>4. Shapes(WellShaped) BY DEF Shapes
  <2> QED BY <1>11, <2>1, <2>3, <2>4, LendableToKind
<1>14. ~RebalancePanics(n, i)
  <2>1. i \in DOMAIN n.child_ids /\ SeparatorAt(n, i) \in DOMAIN n.keys BY <1>4, <1>5, <1>8
  <2> QED BY <1>9, <1>13, <2>1 DEF RebalancePanics, Lends, q, x
<1> QED BY <1>12, <1>14 DEF n, i, p

(* No rebalancing ends with an error or a panic, and none is between nodes *)
(* of two kinds.                                                           *)
LEMMA NeverCorrupted == ASSUME Good PROVE ~BlockCorrupted /\ ~Panic /\ Unmixed
BY SiblingsAlike DEF BlockCorrupted, Panic, Unmixed

(* A call is not rolled back.                                              *)
LEMMA NeverRolledBack == ASSUME Good PROVE ~Rollback /\ ~RolledBack
<1> SUFFICES ASSUME todo = <<>>, call.pc \in {"rollback", "rolled_back"} PROVE FALSE
  BY DEF Rollback, RolledBack, Runs
<1>1. PICK s, U : Place(call, tree.root_exists, blocks, s, U) BY Situation
<1> QED BY <1>1 DEF Place

-----------------------------------------------------------------------------
(* The invariant.                                                          *)

(* A step after which nothing has failed is no failure, and follows        *)
(* others that were not.                                                   *)
LEMMA FaultsCount ==
  ASSUME InvIn(Usable), [Next]_vars, NoFaults'
  PROVE  NoFaults /\ ~StorageFails /\ ~Crash
<1>1. errors \in Nat /\ crashes \in Nat BY FaultsAssumption DEF InvIn, TypeIn
<1>2. errors' = 0 /\ crashes' = 0 BY DEF NoFaults
<1>3. ~StorageFails
  <2> SUFFICES ASSUME StorageFails PROVE FALSE OBVIOUS
  <2>1. errors' = errors + 1 BY DEF StorageFails
  <2> QED BY <1>1, <1>2, <2>1
<1>4. ~Crash
  <2> SUFFICES ASSUME Crash PROVE FALSE OBVIOUS
  <2>1. crashes' = crashes + 1 BY DEF Crash
  <2> QED BY <1>1, <1>2, <2>1
<1>5. errors' = errors /\ crashes' = crashes
  <2>1. CASE Open \/ Close BY <2>1 DEF Open, Close
  <2>2. CASE CallStep \/ \E r \in Requests : Invoke(r)
    <3>1. StorageCall \/ NoStorageCall \/ Panic BY <2>2, OnlyStorageCallStores
    <3> QED BY <3>1 DEF StorageCall, NoStorageCall, Panic
  <2>3. CASE UNCHANGED vars BY <2>3 DEF vars
  <2> QED BY <1>3, <1>4, <2>1, <2>2, <2>3 DEF Next
<1> QED BY <1>2, <1>3, <1>4, <1>5 DEF NoFaults

(* The directory is empty, and nothing is open.                            *)
LEMMA InitSound == Init => Sound
<1> SUFFICES ASSUME Init PROVE Sound OBVIOUS
<1>1. /\ blocks = [ b \in {} |-> NewLeaf ]
      /\ saved = [ next_block_id |-> 2, free_blocks |-> <<>> ]
      /\ header = EmptyTree /\ call = Closed /\ todo = <<>>
  BY DEF Init, StorageInit, NewMetadata, NewAllocator
<1>2. call.pc = "closed" /\ call.stack = <<>> /\ call.outcome = "NoChange"
  BY <1>1 DEF Closed, Blank
<1>3. DOMAIN blocks = {} /\ blocks = [ b \in DOMAIN blocks |-> blocks[b] ] BY <1>1
<1>4. Ready
  <2>1. Doable(blocks, FreshBlock, <<>>) BY PlanNone
  <2> QED BY <1>1, <1>3, <2>1 DEF Ready
<1>5. Accounted
  <2>1. IsInjective(<<>>) BY DEF IsInjective
  <2>2. ToSet(<<>>) = {} BY DEF ToSet
  <2>3. 1..(2 - 1) = {1} OBVIOUS
  <2> QED BY <1>1, <1>3, <2>1, <2>2, <2>3 DEF Accounted, ROOT_ID
<1>6. HeaderFollows BY <1>2 DEF HeaderFollows
<1>7. Exists \in BOOLEAN /\ ~Exists BY <1>1, <1>2 DEF Exists, EmptyTree
<1>8. Settled = blocks BY <1>1, PlanNone DEF Settled
<1>9. PICK s, U : s = 0 /\ U = 0 OBVIOUS
<1>10. AtRest(call, Exists, Settled, s) BY <1>2, <1>3, <1>7, <1>8 DEF AtRest
<1>11. Place(call, Exists, Settled, s, U) BY <1>2, <1>7, <1>10, PlaceOf DEF Resting
<1> QED BY <1>4, <1>5, <1>6, <1>11 DEF Sound, InPlace

(* Every step that is no failure preserves it.                             *)
LEMMA NextSound ==
  ASSUME FullFits, Good, [Next]_vars, ~StorageFails, ~Crash
  PROVE  Sound'
<1>1. CASE Open BY <1>1, OpenIntact
<1>2. CASE Close BY <1>2, CloseIntact
<1>3. CASE \E r \in Requests : Invoke(r) BY <1>3, InvokeIntact
<1>4. CASE CallStep
  <2>1. CASE StorageCall
    <3>1. Ready' /\ Accounted' /\ HeaderFollows' /\ InPlace'
      BY <2>1, StorageCallIntact DEF Good, Sound, NoFaults
    <3> QED BY <3>1 DEF Sound
  <2>2. CASE Opened \/ StartOnTree \/ StartOnEmptyTree \/ Return
    BY <2>2, OpenedIntact, StartOnTreeIntact, StartOnEmptyTreeIntact, ReturnIntact
  <2>3. CASE Search
    BY <2>3, DescendIntact, GetFromLeafIntact, ScanLeafIntact DEF Search
  <2>4. CASE Insert
    BY <2>4, UpdateMissingIntact, InsertIntoLeafIntact, InsertIntoParentIntact,
       FinishInsertIntact
       DEF Insert
  <2>5. CASE Delete
    BY <2>5, DeleteFromLeafIntact, SaveAncestorIntact, HandleChildUnderflowIntact,
       CheckParentIntact, DeleteNothingIntact, CountDeletedIntact, FinishDeleteIntact,
       NeverRolledBack
       DEF Delete
  <2>6. CASE Clear
    BY <2>6, ClearInternalIntact, ClearLeafIntact, ClearNextIntact, FinishClearIntact DEF Clear
  <2>7. ~BlockNotFound /\ ~InvalidBlockSize /\ ~BlockCorrupted /\ ~Panic
    BY NeverNotFound, NeverTooLong, NeverCorrupted
  <2> QED BY <1>4, <2>1, <2>2, <2>3, <2>4, <2>5, <2>6, <2>7 DEF CallStep
<1>5. CASE UNCHANGED vars
  <2>1. /\ blocks' = blocks /\ saved' = saved /\ nextId' = nextId /\ freeList' = freeList
        /\ header' = header /\ tree' = tree /\ call' = call /\ todo' = todo
    BY <1>5 DEF vars
  <2>2. FreshBlock' = FreshBlock BY <2>1 DEF FreshBlock
  <2>3. Ready' BY <2>1, <2>2 DEF Good, Sound, Ready
  <2>4. Accounted' BY <2>1 DEF Good, Sound, Accounted, ROOT_ID
  <2>5. HeaderFollows' BY <2>1 DEF Good, Sound, HeaderFollows
  <2>6. Settled' = Settled /\ Exists' = Exists BY <2>1 DEF Settled, Exists
  <2>7. InPlace' BY <2>1, <2>6 DEF Good, Sound, InPlace
  <2> QED BY <2>3, <2>4, <2>5, <2>7 DEF Sound
<1> QED BY <1>1, <1>2, <1>3, <1>4, <1>5 DEF Next

(* What is invariant whatever happens, and what until something fails:     *)
(* then, too, no node has more than its keys call for.                     *)
IInvIntact ==
  /\ InvIn(Usable) /\ AllocatorPersisted
  /\ NoFaults => IInv
  /\ Intact

(* Every step of the tree, failures included.                              *)
LEMMA NextIntact ==
  ASSUME FullFits, IInvIntact, [Next]_vars
  PROVE  IInvIntact'
<1>1. InvIn(Usable)' /\ AllocatorPersisted' BY UsableInv, NextPersists DEF IInvIntact
<1>2. ASSUME NoFaults' PROVE IInv' /\ Sound'
  <2>1. NoFaults /\ ~StorageFails /\ ~Crash BY <1>2, FaultsCount DEF IInvIntact
  <2>2. Good BY <2>1 DEF IInvIntact, Good, Sound, Intact
  <2>3. IInv /\ Unmixed BY <2>2, NeverCorrupted DEF Good
  <2>4. IInv' BY <2>3, NextIInv
  <2> QED BY <2>1, <2>2, <2>4, NextSound
<1>3. Intact' BY <1>2 DEF Intact, Sound
<1> QED BY <1>1, <1>2, <1>3 DEF IInvIntact

(* The first state.                                                        *)
LEMMA InitIntact == Init => IInvIntact
<1> SUFFICES ASSUME Init PROVE IInvIntact OBVIOUS
<1>1. IInv /\ InvIn(Usable) BY InitIInv, UsableInv
<1>2. AllocatorPersisted BY BlankType DEF Init, AllocatorPersisted
<1>3. Intact BY InitSound DEF Sound, Intact
<1> QED BY <1>1, <1>2, <1>3 DEF IInvIntact

(* In every reachable state before the first failure.                      *)
LEMMA AlwaysIntact == ASSUME FullFits PROVE Spec => []IInvIntact
<1>1. Init => IInvIntact BY InitIntact
<1>2. IInvIntact /\ [Next]_vars => IInvIntact' BY NextIntact
<1> QED BY <1>1, <1>2, PTL DEF Spec

(* As long as nothing fails the blocks, with the storage calls that are    *)
(* still to be made, are one B+ tree, at every step of every call: leaves  *)
(* at one depth, chained in the order of their keys, keys within the       *)
(* separators above them, no block in two places, none lost, nodes neither *)
(* too long nor too short - or differ from it by what the running call     *)
(* knows of, a child cut in two, one a key short, a part cleared away.     *)
THEOREM TreeIntact == ASSUME FullFits PROVE Spec => []Intact
<1>1. Spec => []IInvIntact BY AlwaysIntact
<1>2. IInvIntact => Intact BY DEF IInvIntact
<1> QED BY <1>1, <1>2, PTL

-----------------------------------------------------------------------------
(* What follows for the properties that the runs check.                    *)

(* In a state of the invariant before the first failure.                   *)
LEMMA BeforeFailure == IInvIntact /\ NoFaults => Good
BY DEF IInvIntact, Good, Sound, Intact

(* A tree that is not in a call.                                           *)
LEMMA AtQuiet ==
  ASSUME Good, Quiet
  PROVE  /\ tree = header /\ todo = <<>> /\ ROOT_ID \in DOMAIN blocks
         /\ tree.root_exists => \E s : WholeTree(blocks, s)
         /\ ~tree.root_exists => DOMAIN blocks = {ROOT_ID}
<1>1. call.pc = "idle" /\ todo = <<>> BY DEF Quiet
<1>2. tree = header /\ tree.root_exists \in BOOLEAN BY <1>1, Situation
<1>3. PICK s, U : Place(call, tree.root_exists, blocks, s, U) BY <1>1, Situation
<1>4. AtRest(call, tree.root_exists, blocks, s) BY <1>1, <1>2, <1>3, PlaceOf DEF Resting
<1>5. tree.root_exists => WholeTree(blocks, s) BY <1>4 DEF AtRest
<1>6. ~tree.root_exists => DOMAIN blocks = {ROOT_ID} BY <1>1, <1>4 DEF AtRest
<1>7. ROOT_ID \in DOMAIN blocks BY <1>2, <1>5, <1>6 DEF WholeTree, Tree
<1> QED BY <1>1, <1>2, <1>5, <1>6, <1>7

(* Before the first failure every node in a block has the very shape that  *)
(* its own validate() asks for, at every step of every call: no loan, no   *)
(* merge and no split leaves a key count, a value or a child too many.     *)
(* After a failure a loan between siblings of two kinds may (TypeCorrect   *)
(* is what remains then).                                                  *)
THEOREM ShapesExact == ASSUME FullFits PROVE Spec => [](NoFaults => NodesConsistent)
<1>1. Spec => []IInvIntact BY AlwaysIntact
<1>2. IInvIntact => (NoFaults => NodesConsistent)
  <2> SUFFICES ASSUME IInvIntact, NoFaults, NEW b \in DOMAIN blocks PROVE ShapeOK(blocks[b])
    BY DEF NodesConsistent
  <2>1. blocks[b] \in WellShaped
    BY DEF IInvIntact, IInv, InvIn, TypeIn, StorageTypeIn
  <2> QED BY <2>1 DEF WellShaped
<1> QED BY <1>1, <1>2, PTL

(* The path of a call is on disk as the call remembers it.                 *)
LEMMA PathOnDisk ==
  ASSUME Good, todo = <<>>, call.pc # "reload", NEW i \in DOMAIN call.stack
  PROVE  call.stack[i].id \in DOMAIN blocks /\ blocks[call.stack[i].id] = call.stack[i].node
<1>1. /\ call \in Calls /\ call.stack \in Seq(Frames)
      /\ call.pc \in {"closed", "opening", "idle", "start", "descend", "scan", "insert_up",
           "delete_up", "reload", "root_underflow", "rollback", "rolled_back",
           "clear", "clear_up", "return"}
  BY Running DEF Good
<1>2. call.stack # <<>> OBVIOUS
<1>3. PICK s, U : Place(call, Exists, Settled, s, U) BY DEF Good, Sound, InPlace
<1>4. Settled = blocks BY PlanNone DEF Settled
<1>5. Exists \in BOOLEAN BY Running DEF Good, Metadata, Exists
<1>6. CASE call.pc \in Resting
  BY <1>2, <1>3, <1>5, <1>6, PlaceOf DEF AtRest
<1>7. CASE call.pc = "descend"
  <2>1. Searching(call, blocks, s) BY <1>3, <1>4, <1>5, <1>7, PlaceOf
  <2> QED BY <2>1 DEF Searching, OnPath, Fresh
<1>8. CASE call.pc = "insert_up"
  <2>1. Inserting(call, blocks, s, U) BY <1>3, <1>4, <1>5, <1>8, PlaceOf
  <2>2. Splitting(call, blocks, s, U) BY <1>2, <2>1 DEF Inserting
  <2>3. /\ Tree(U, s, ROOT_ID) /\ OnPath(U, s, call.stack) /\ Fresh(U, call.stack)
        /\ CutAt(blocks, s, U, Target(call.stack), call.split.id, call.split.key)
    BY <2>2 DEF Splitting
  <2>4. call.stack[i].id # Target(call.stack) BY <1>1, <2>3, PathTarget
  <2>5. call.stack[i].id \in DOMAIN U /\ U[call.stack[i].id] = call.stack[i].node
    BY <2>3 DEF OnPath, Fresh
  <2> QED BY <2>3, <2>4, <2>5 DEF CutAt
<1>9. CASE call.pc = "delete_up"
  <2>1. Deleting(call, blocks, s) BY <1>3, <1>4, <1>5, <1>9, PlaceOf
  <2> QED BY <2>1 DEF Deleting, OnPath, Fresh
<1>10. CASE call.pc \in {"clear", "clear_up"}
  <2>1. Clearing(call, blocks, s, U) BY <1>3, <1>4, <1>5, <1>10, PlaceOf
  <2> QED BY <2>1 DEF Clearing, Fresh
<1>11. CASE call.pc \in {"scan", "root_underflow"}
  <2>1. call.stack = <<>> BY <1>3, <1>4, <1>5, <1>11, PlaceOf DEF Scanning, Counted
  <2> QED BY <1>2, <2>1
<1>12. call.pc \notin {"rollback", "rolled_back"} BY <1>3 DEF Place
<1> QED BY <1>1, <1>6, <1>7, <1>8, <1>9, <1>10, <1>11, <1>12 DEF Resting

(* A call of insert or delete that has come back from a child still holds  *)
(* its node as it is on disk: nothing below has written it, however many   *)
(* splits, loans and merges there were.                                    *)
THEOREM PathNeverStale == ASSUME FullFits PROVE Spec => []FramesFresh
<1>1. Spec => []IInvIntact BY AlwaysIntact
<1>2. IInvIntact => FramesFresh
  <2> SUFFICES ASSUME IInvIntact, NoFaults, NEW i \in DOMAIN call.stack,
                      todo = <<>>, call.pc # "reload"
               PROVE  /\ call.stack[i].id \in DOMAIN blocks
                      /\ blocks[call.stack[i].id] = call.stack[i].node
    BY DEF FramesFresh
  <2>1. Good BY BeforeFailure
  <2> QED BY <2>1, PathOnDisk
<1> QED BY <1>1, <1>2, PTL

(* No call comes upon a block that is not there, to load or to free it: a  *)
(* merge or clear leaves no id behind, in a node or in a copy of one.      *)
THEOREM NothingEverDangles == ASSUME FullFits PROVE Spec => []NothingDangles
<1>1. Spec => []IInvIntact BY AlwaysIntact
<1>2. IInvIntact => NothingDangles
  <2> SUFFICES ASSUME IInvIntact, NoFaults PROVE NothingDangles BY DEF NothingDangles
  <2>1. Good BY BeforeFailure
  <2>2. todo = <<>> => Loaded \subseteq DOMAIN blocks BY <2>1, AlwaysFound
  <2>3. todo # <<>> /\ Head(todo).do = "free" => Head(todo).id \in DOMAIN blocks
    BY <2>1, FreedBlockThere
  <2> QED BY <2>2, <2>3 DEF NothingDangles
<1> QED BY <1>1, <1>2, PTL

(* No node that a call writes is longer than its block: a split comes      *)
(* before the node is, and a loan or a merge never makes it one.           *)
THEOREM NodesAlwaysFit == ASSUME FullFits PROVE Spec => []NeverRefused
<1>1. Spec => []IInvIntact BY AlwaysIntact
<1>2. IInvIntact => NeverRefused
  <2> SUFFICES ASSUME IInvIntact, NoFaults, todo # <<>> PROVE ~Refused(Head(todo))
    BY DEF NeverRefused
  <2>1. Good BY BeforeFailure
  <2> QED BY <2>1, SavedNodeFits DEF Refused
<1> QED BY <1>1, <1>2, PTL

(* After every call each node but the root holds between min_keys and      *)
(* max_keys_per_node keys, and an inner root leads to two children at      *)
(* least: a rebalancing is never left half done.                           *)
THEOREM AlwaysBalanced == ASSUME FullFits PROVE Spec => []Balanced
<1>1. Spec => []IInvIntact BY AlwaysIntact
<1>2. IInvIntact => Balanced
  <2> SUFFICES ASSUME IInvIntact, Quiet, NoFaults, tree.root_exists
               PROVE  /\ \A b \in DOMAIN blocks : Len(blocks[b].keys) <= MaxKeys
                      /\ \A b \in DOMAIN blocks \ {ROOT_ID} : Len(blocks[b].keys) >= MinKeys
                      /\ IsInternal(blocks[ROOT_ID]) => blocks[ROOT_ID].keys # <<>>
    BY DEF Balanced
  <2>1. PICK s : WholeTree(blocks, s) BY BeforeFailure, AtQuiet
  <2>2. NoBlock \notin DOMAIN blocks BY <2>1 DEF WholeTree, Tree, BlockId, NoBlock
  <2> QED BY <2>1, <2>2 DEF WholeTree, Sized, RootSized
<1> QED BY <1>1, <1>2, PTL

(* After every call closing the handle, which writes nothing, would lose   *)
(* nothing: its metadata and the allocator's are the ones on disk.         *)
THEOREM HandleAlwaysOnDisk == ASSUME FullFits PROVE Spec => []HandleMatchesDisk
<1>1. Spec => []IInvIntact BY AlwaysIntact
<1>2. IInvIntact => HandleMatchesDisk
  <2> SUFFICES ASSUME IInvIntact, Quiet, NoFaults
               PROVE  tree = header /\ saved = AllocatorMetadata
    BY DEF HandleMatchesDisk, AllocatorMetadata
  <2>1. tree = header BY BeforeFailure, AtQuiet
  <2>2. saved = AllocatorMetadata BY DEF IInvIntact, AllocatorPersisted, NoFaults, Quiet
  <2> QED BY <2>1, <2>2
<1> QED BY <1>1, <1>2, PTL

-----------------------------------------------------------------------------
(* The estimate of NodeSizes is on the safe side, for every block size and *)
(* every pair of types.                                                    *)

(* A node's entries are encoded in no more than their shares: a key and    *)
(* its value in a leaf, a key and a child's id in an inner node.           *)
WithinShares(n) ==
  /\ KeysLength(n.keys) \in Nat /\ ValuesLength(n.values) \in Nat
  /\ KeysLength(n.keys) + ValuesLength(n.values) + 8 * (IF IsLeaf(n) THEN 0 ELSE n.key_count)
       <= n.key_count * PairSize

(* The quotient that the estimate takes, multiplied, is within the room.   *)
LEMMA QuotientFits ==
  ASSUME NEW a \in Nat, NEW p \in Nat \ {0}
  PROVE  a \div p \in Nat /\ (a \div p) * p <= a
  OBVIOUS

(* Fewer of something take no more room.                                   *)
LEMMA FewerFit ==
  ASSUME NEW k \in Nat, NEW m \in Nat, NEW p \in Nat, k <= m
  PROVE  k * p \in Nat /\ m * p \in Nat /\ k * p <= m * p
<1>1. PICK d \in Nat : m = k + d
  <2>1. m - k \in Nat /\ m = k + (m - k)
    OBVIOUS
  <2> QED BY <2>1
<1>2. m * p = k * p + d * p
  BY <1>1
<1>3. d * p \in Nat /\ k * p \in Nat
  OBVIOUS
<1> QED BY <1>2, <1>3

(* A block with room for two shares has room for the estimated number.     *)
LEMMA EstimateFits ==
  ASSUME BlockSize >= Overhead + 2 * PairSize
  PROVE  /\ EstimateMaxKeys \in Nat /\ EstimateMaxKeys >= 2
         /\ PairSize \in Nat
         /\ EstimateMaxKeys * PairSize + Overhead <= BlockSize
<1> DEFINE a == BlockSize - Overhead
<1>1. PairSize \in Nat /\ PairSize >= 20
  BY SizesAssumption DEF PairSize
<1>2. a \in 0..(SizeWidth - 1) /\ a >= 2 * PairSize
  BY <1>1, BlockSizeAssumption DEF Overhead
<1>3. a % SizeWidth = a
  BY <1>2, BlockSizeAssumption
<1>4. a \div PairSize \in Nat /\ (a \div PairSize) * PairSize <= a
  BY <1>1, <1>2, QuotientFits
<1>5. EstimateMaxKeys \in Nat /\ EstimateMaxKeys >= 2
  BY <1>3, <1>4 DEF EstimateMaxKeys, AtLeastTwo
<1>6. EstimateMaxKeys * PairSize <= a
  <2>1. CASE a \div PairSize >= 2
    BY <2>1, <1>3, <1>4 DEF EstimateMaxKeys, AtLeastTwo
  <2>2. CASE a \div PairSize < 2
    BY <2>2, <1>1, <1>2, <1>3 DEF EstimateMaxKeys, AtLeastTwo
  <2> QED BY <2>1, <2>2, <1>4
<1>7. EstimateMaxKeys * PairSize \in Int
  BY <1>1, <1>5
<1> QED BY <1>1, <1>2, <1>5, <1>6, <1>7, BlockSizeAssumption DEF Overhead

(* A node with as many keys as the tree lets it have fits in its block,    *)
(* the root with the metadata in front of it too: estimate_max_keys and    *)
(* save_node agree, however long keys and values are, as long as the       *)
(* entries keep to their shares and the block has room for two of them.    *)
THEOREM FullNodeFits ==
  ASSUME BlockSize >= Overhead + 2 * PairSize,
         NEW id \in BlockId, NEW n \in WellShaped,
         n.key_count <= EstimateMaxKeys, WithinShares(n)
  PROVE  FitsBlock(id, n)
<1> DEFINE K == KeysLength(n.keys)
           W == ValuesLength(n.values)
           C == Len(n.child_ids)
           share == n.key_count * PairSize
<1>1. /\ n.key_count \in Nat
      /\ C = IF IsLeaf(n) THEN 0 ELSE n.key_count + 1
  BY DEF WellShaped, ShapeOK, Node, IsLeaf, IsInternal
<1>2. K \in Nat /\ W \in Nat /\ K + W + 8 * (IF IsLeaf(n) THEN 0 ELSE n.key_count) <= share
  BY DEF WithinShares
<1>3. /\ share \in Nat /\ EstimateMaxKeys * PairSize \in Nat
      /\ share <= EstimateMaxKeys * PairSize
  BY <1>1, EstimateFits, FewerFit
<1>4. share + Overhead <= BlockSize
  BY <1>3, EstimateFits, BlockSizeAssumption DEF Overhead
<1>5. K + W + 8 * C <= share + 8
  <2>1. CASE IsLeaf(n)  BY <2>1, <1>1, <1>2, <1>3
  <2>2. CASE ~IsLeaf(n) BY <2>2, <1>1, <1>2, <1>3, SMTT(20)
  <2> QED BY <2>1, <2>2
<1>6. C \in Nat
  BY <1>1
<1>7. NextLength(n) \in {0, 8}
  BY DEF NextLength
<1>8. NodeLength(n) = 33 + K + W + 8 * C + NextLength(n)
  BY <1>2, <1>6, <1>7 DEF NodeLength, FixedLength
<1>9. NodeLength(n) \in Nat /\ NodeLength(n) <= 33 + (share + 8) + 8
  <2> HIDE DEF K, W, C, share
  <2> QED BY <1>2, <1>3, <1>5, <1>6, <1>7, <1>8
<1>10. EncodedLength(id, n) \in Nat /\ EncodedLength(id, n) <= NodeLength(n) + 26
  BY <1>9 DEF EncodedLength, MetadataLength
<1> HIDE DEF share
<1> QED BY <1>3, <1>4, <1>9, <1>10, BlockSizeAssumption DEF FitsBlock, Overhead

(* With the capacity that a tree computes for itself and the storage's own *)
(* test of a block's size, nodes of entries that keep to their shares are  *)
(* never longer than a block: the theorems above hold without any          *)
(* condition on Fits, in any block with room for two entries.              *)
THEOREM ShortEntriesFit ==
  ASSUME BlockSize >= Overhead + 2 * PairSize,
         MaxKeys = EstimateMaxKeys,
         \A id \in BlockId, n \in WellShaped : Fits(id, n) <=> FitsBlock(id, n),
         \A n \in WellShaped : WithinShares(n)
  PROVE  FullFits
<1> SUFFICES ASSUME NEW id \in BlockId, NEW n \in WellShaped, Len(n.keys) <= MaxKeys
             PROVE  Fits(id, n)
  BY DEF FullFits
<1>1. n.key_count <= EstimateMaxKeys BY DEF WellShaped, ShapeOK
<1>2. WithinShares(n) OBVIOUS
<1>3. FitsBlock(id, n) BY <1>1, <1>2, FullNodeFits
<1> QED BY <1>3
=============================================================================
