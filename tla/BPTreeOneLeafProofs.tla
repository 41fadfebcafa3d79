-------------------------- MODULE BPTreeOneLeafProofs --------------------------
(***************************************************************************)
(* One failure in a tree that has never had but one leaf: the call that it *)
(* cuts off has all of its effect or none, and the count of entries is off *)
(* by one at most, for every sequence of calls and whichever storage call  *)
(* of whichever call the failure meets, before, in the middle of or after. *)
(***************************************************************************)
EXTENDS BPTreeOneLeaf, BPTreeWalkProofs

-----------------------------------------------------------------------------
(* A tree of one leaf.                                                     *)

(* The entries of a leaf as a map.                                         *)
LEMMA HeldMap ==
  ASSUME NEW n \in WellShaped, Lonely(n)
  PROVE  /\ IsMap(Held(n))
         /\ \A k \in Key : /\ ValueOf(Held(n), k) = Get(n, k) /\ Get(n, k) \in Val \cup {None}
                           /\ HasKey(n, k) <=> ValueOf(Held(n), k) # None
                           /\ \A v \in Val : Has(n, k, v) <=> Get(n, k) = v
<1> DEFINE D == { x \in Key : Get(n, x) # None }
           m == [ k \in D |-> Get(n, k) ]
<1>1. \A k \in Key : /\ Get(n, k) = None <=> ~HasKey(n, k)
                     /\ Get(n, k) \in Val \cup {None}
                     /\ \A v \in Val : Has(n, k, v) <=> Get(n, k) = v
  BY GetHas DEF Lonely
<1>2. Held(n) = m BY DEF Held
<1>3. \A k \in D : Get(n, k) \in Val BY <1>1
<1>4. DOMAIN m = D /\ m \in [ D -> Val ] BY <1>3
<1>5. \A k \in Key : ValueOf(m, k) = Get(n, k)
  <2> SUFFICES ASSUME NEW k \in Key PROVE ValueOf(m, k) = Get(n, k) OBVIOUS
  <2>1. k \in D => ValueOf(m, k) = m[k] /\ m[k] = Get(n, k) BY DEF ValueOf
  <2>2. k \notin D => ValueOf(m, k) = None /\ Get(n, k) = None BY DEF ValueOf
  <2> QED BY <2>1, <2>2
<1>6. IsMap(m) BY <1>4 DEF IsMap
<1> HIDE DEF m, D
<1> QED BY <1>1, <1>2, <1>5, <1>6

(* A leaf without keys holds nothing.                                      *)
LEMMA HeldNothing ==
  ASSUME NEW n, n.keys = <<>>
  PROVE  Held(n) = Nothing
<1>1. \A k : ~HasKey(n, k) BY DEF HasKey
<1>2. \A k : Get(n, k) = None BY <1>1 DEF Get
<1>3. { x \in Key : Get(n, x) # None } = {} BY <1>2
<1> QED BY <1>3 DEF Held, Nothing

(* The maps of two leaves, one of which has the entries that the call      *)
(* makes of the other's.                                                   *)
LEMMA HeldAfter ==
  ASSUME NEW n \in WellShaped, Lonely(n), NEW m \in WellShaped, Lonely(m),
         NEW r \in Request \cup {NoRequest},
         \A k \in Key : Get(m, k) = ValueAfter(Held(n), r, k)
  PROVE  Held(m) = After(Held(n), r)
<1>1. IsMap(Held(n)) /\ IsMap(Held(m)) BY HeldMap
<1>2. /\ IsMap(After(Held(n), r))
      /\ \A k \in Key : ValueOf(After(Held(n), r), k) = ValueAfter(Held(n), r, k)
  BY <1>1, AfterMap
<1>3. \A k \in Key : ValueOf(Held(m), k) = Get(m, k) BY HeldMap
<1> QED BY <1>1, <1>2, <1>3, MapsEqual

(* A leaf with the key of an upsert or update in it.                       *)
LEMMA HeldInsert ==
  ASSUME NEW n \in WellShaped, Lonely(n), NEW r \in Request, r.op \in {"upsert", "update"},
         r.op = "update" => HasKey(n, r.key)
  PROVE  /\ InsertLeaf(n, r.key, r.val) \in WellShaped /\ Lonely(InsertLeaf(n, r.key, r.val))
         /\ Held(InsertLeaf(n, r.key, r.val)) = After(Held(n), r)
<1> DEFINE m == InsertLeaf(n, r.key, r.val)
<1>1. r.key \in Key /\ r.val \in Val BY DEF Request
<1>2. n \in WellShaped /\ IsLeaf(n) /\ Ordered(n.keys) BY DEF Lonely
<1>3. m \in WellShaped /\ IsLeaf(m) BY <1>1, <1>2, InsertLeafShaped
<1>4. Ordered(m.keys) /\ m.next_leaf = n.next_leaf BY <1>1, <1>2, InsertLeafOrdered
<1>5. Lonely(m) BY <1>3, <1>4 DEF Lonely
<1>6. \A x, w : Has(m, x, w) <=> IF x = r.key THEN w = r.val ELSE Has(n, x, w)
  BY <1>1, <1>2, InsertLeafHas
<1> HIDE DEF m
<1>7. ASSUME NEW k \in Key PROVE Get(m, k) = ValueAfter(Held(n), r, k)
  <2>1. /\ Get(m, k) \in Val \cup {None} /\ \A v \in Val : Has(m, k, v) <=> Get(m, k) = v
        /\ Get(n, k) \in Val \cup {None} /\ \A v \in Val : Has(n, k, v) <=> Get(n, k) = v
        /\ ValueOf(Held(n), k) = Get(n, k)
        /\ HasKey(n, k) <=> ValueOf(Held(n), k) # None
    BY <1>3, <1>5, HeldMap
  <2>2. r.op = "upsert" =>
          ValueAfter(Held(n), r, k) = IF k = r.key THEN r.val ELSE ValueOf(Held(n), k)
    BY ValueAfterCases
  <2>3. r.op = "update" =>
          ValueAfter(Held(n), r, k) = IF k = r.key /\ ValueOf(Held(n), k) # None THEN r.val
                                      ELSE ValueOf(Held(n), k)
    BY ValueAfterCases
  <2>4. ValueAfter(Held(n), r, k) = IF k = r.key THEN r.val ELSE Get(n, k)
    BY <2>1, <2>2, <2>3
  <2>5. CASE k = r.key BY <1>1, <1>6, <2>1, <2>4, <2>5
  <2>6. CASE k # r.key
    <3>1. \A v \in Val : Get(m, k) = v <=> Get(n, k) = v BY <1>6, <2>1, <2>6
    <3>2. Get(m, k) = Get(n, k) BY <2>1, <3>1
    <3> QED BY <2>4, <2>6, <3>2
  <2> QED BY <2>5, <2>6
<1>8. Held(m) = After(Held(n), r) BY <1>3, <1>5, <1>7, HeldAfter
<1> QED BY <1>3, <1>5, <1>8 DEF m

(* A leaf without the key that a delete takes out.                         *)
LEMMA HeldRemove ==
  ASSUME NEW n \in WellShaped, Lonely(n), NEW r \in Request, r.op \in {"delete", "delete_safe"},
         HasKey(n, r.key)
  PROVE  /\ RemoveLeaf(n, r.key) \in WellShaped /\ Lonely(RemoveLeaf(n, r.key))
         /\ Held(RemoveLeaf(n, r.key)) = After(Held(n), r)
<1> DEFINE m == RemoveLeaf(n, r.key)
<1>1. r.key \in Key BY DEF Request
<1>2. n \in WellShaped /\ IsLeaf(n) /\ Ordered(n.keys) BY DEF Lonely
<1>3. m \in WellShaped BY <1>1, <1>2, RemoveLeafShaped
<1>4. Ordered(m.keys) /\ m.next_leaf = n.next_leaf /\ m.node_type = n.node_type
  BY <1>1, <1>2, RemoveLeafOrdered
<1>5. Lonely(m) BY <1>2, <1>4 DEF Lonely, IsLeaf
<1>6. \A x, w : Has(m, x, w) <=> x # r.key /\ Has(n, x, w)
  BY <1>1, <1>2, RemoveLeafHas
<1> HIDE DEF m
<1>7. ASSUME NEW k \in Key PROVE Get(m, k) = ValueAfter(Held(n), r, k)
  <2>1. /\ Get(m, k) \in Val \cup {None} /\ \A v \in Val : Has(m, k, v) <=> Get(m, k) = v
        /\ Get(n, k) \in Val \cup {None} /\ \A v \in Val : Has(n, k, v) <=> Get(n, k) = v
        /\ ValueOf(Held(n), k) = Get(n, k)
    BY <1>3, <1>5, HeldMap
  <2>2. ValueAfter(Held(n), r, k) = IF k = r.key THEN None ELSE ValueOf(Held(n), k)
    BY ValueAfterCases
  <2>3. CASE k = r.key BY <1>6, <2>1, <2>2, <2>3
  <2>4. CASE k # r.key
    <3>1. \A v \in Val : Get(m, k) = v <=> Get(n, k) = v BY <1>6, <2>1, <2>4
    <3>2. Get(m, k) = Get(n, k) BY <2>1, <3>1
    <3> QED BY <2>1, <2>2, <2>4, <3>2
  <2> QED BY <2>3, <2>4
<1>8. Held(m) = After(Held(n), r) BY <1>3, <1>5, <1>7, HeldAfter
<1> QED BY <1>3, <1>5, <1>8 DEF m

-----------------------------------------------------------------------------
(* What a client sees of a tree of one leaf is what the leaf has.          *)
LEMMA SeenAlone ==
  ASSUME \A b \in DOMAIN blocks : blocks[b] \in WellShaped, IsFiniteSet(DOMAIN blocks),
         ROOT_ID \in DOMAIN blocks, IsLeaf(Root), NEW e
  PROVE  Holds(e) = View(e, Root)
<1>1. CASE ~e BY <1>1 DEF Holds, View, Nothing
<1>2. CASE e
  <2>1. Fuel \in Nat /\ Fuel # 0 BY FS_CardinalityType, FS_EmptySet DEF Fuel
  <2>2. Fuel - 1 \in Nat /\ (Fuel - 1) + 1 = Fuel BY <2>1
  <2>3. Lookup[Fuel] = LevelMore(Lookup[Fuel - 1]) BY <2>2, LookupLevels
  <2>4. ASSUME NEW k \in Key PROVE Found(k) = Get(Root, k)
    <3>1. ROOT_ID \in BlockId BY RootIdType
    <3> QED BY <2>3, <3>1 DEF Found, LevelMore, Root
  <2>5. { x \in Key : Found(x) # None } = { x \in Key : Get(Root, x) # None } BY <2>4
  <2>6. \A k \in { x \in Key : Get(Root, x) # None } : Found(k) = Get(Root, k) BY <2>4
  <2> HIDE DEF Root
  <2>7. Holds(e) = [ k \in { x \in Key : Get(Root, x) # None } |-> Get(Root, k) ]
    BY <1>2, <2>5, <2>6 DEF Holds
  <2> QED BY <1>2, <2>7 DEF View, Held
<1> QED BY <1>1, <1>2

(* The first of a plan, and the rest.                                      *)
LEMMA FirstAndRest ==
  ASSUME NEW S, NEW s \in Seq(S), s # <<>>
  PROVE  /\ 1 \in DOMAIN s /\ Head(s) = s[1] /\ Head(s) \in S
         /\ \A i \in DOMAIN Tail(s) : i + 1 \in DOMAIN s /\ Tail(s)[i] = s[i + 1]
<1>1. DOMAIN s = 1..Len(s) /\ Len(s) \in Nat /\ Len(s) # 0 BY LenProperties, EmptySeq
<1>2. Tail(s) \in Seq(S) /\ Len(Tail(s)) = Len(s) - 1
      /\ \A i \in 1..Len(Tail(s)) : Tail(s)[i] = s[i + 1]
  BY HeadTailProperties
<1>3. DOMAIN Tail(s) = 1..Len(Tail(s)) BY <1>2, LenProperties
<1> QED BY <1>1, <1>2, <1>3, HeadTailProperties

-----------------------------------------------------------------------------
(* Ids are handed out in ascending order.                                  *)

(* What a storage call does to the ids and the files.                      *)
LEMMA CallGrows ==
  ASSUME StorageTypeIn(Usable), NEW c \in StorageCallsIn(Usable),
         Done(c) \/ HalfDone(c) \/ NotDone(c)
  PROVE  /\ Done(c) => nextId' >= nextId /\ saved' = AllocatorMetadata'
         /\ HalfDone(c) \/ NotDone(c) => saved' = saved
         /\ HalfBroken(c) \/ NotDone(c) => nextId' >= nextId
         /\ \E x : DOMAIN blocks' \subseteq DOMAIN blocks \cup {x}
<1>1. nextId \in Nat BY DEF StorageTypeIn, Allotted
<1>2. TakeFreshBlock => nextId' >= nextId BY <1>1 DEF TakeFreshBlock
<1>3. c.do \in {"save", "free", "allocate"} BY DEF StorageCallsIn
<1>4. Done(c) => nextId' >= nextId
  BY <1>1, <1>2, <1>3
     DEF Done, WriteBlock, DeallocateBlock, AllocateBlock, PushFree, allocator
<1>5. HalfBroken(c) \/ NotDone(c) => nextId' >= nextId
  BY <1>1, <1>2, <1>3 DEF HalfBroken, NotDone, PushFree, allocator
<1>6. HalfDone(c) \/ NotDone(c) => saved' = saved
  BY <1>3
     DEF HalfDone, NotDone, WriteBlockHalf, DeallocateBlockHalf, AllocateBlockHalf, disk
<1>7. \E x : DOMAIN blocks' \subseteq DOMAIN blocks \cup {x}
  <2>1. ASSUME NEW id, NEW n, WriteFile(id, n) PROVE DOMAIN blocks' \subseteq DOMAIN blocks \cup {id}
    BY <2>1 DEF WriteFile
  <2>2. ASSUME NEW id, RemoveFile(id) PROVE DOMAIN blocks' \subseteq DOMAIN blocks \cup {id}
    BY <2>2 DEF RemoveFile, RemoveFiles
  <2>3. CASE NotDone(c) BY <2>3 DEF NotDone, disk
  <2>4. CASE c.do = "save" /\ (Done(c) \/ HalfDone(c))
    BY <2>1, <2>4 DEF Done, HalfDone, WriteBlock, WriteBlockHalf
  <2>5. CASE c.do = "free" /\ (Done(c) \/ HalfDone(c))
    BY <2>2, <2>5 DEF Done, HalfDone, DeallocateBlock, DeallocateBlockHalf
  <2>6. CASE c.do = "allocate" /\ (Done(c) \/ HalfDone(c))
    BY <2>1, <2>6 DEF Done, HalfDone, AllocateBlock, AllocateBlockHalf
  <2> QED BY <1>3, <2>3, <2>4, <2>5, <2>6
<1> QED BY <1>4, <1>5, <1>6, <1>7, DoneSaves

Grows == saved'.next_block_id >= saved.next_block_id

(* One file more is still a finite number of files.                        *)
LEMMA MoreFiles ==
  ASSUME NEW A, IsFiniteSet(A), NEW B, NEW x, B \subseteq A \cup {x}
  PROVE  IsFiniteSet(B)
BY FS_AddElement, FS_Subset

(* Every step does this.                                                   *)
LEMMA NextGrows ==
  ASSUME InvIn(Usable), InvIn(Usable)', Onward, [Next]_vars
  PROVE  Onward' /\ Grows
<1>0. NothingPending /\ nextId' \in Nat
  <2>1. StorageTypeIn(Usable)' BY DEF InvIn, TypeIn
  <2> QED BY <2>1 DEF InvIn, StorageTypeIn, Allotted
<1>1. /\ StorageTypeIn(Usable) /\ todo \in Seq(StorageCallsIn(Usable)) /\ nextId \in Nat
      /\ saved.next_block_id \in Nat
  BY DEF InvIn, TypeIn, StorageTypeIn, FileMetadata, Allotted
<1>2. /\ call.pc # "closed" => nextId >= saved.next_block_id
      /\ IsFiniteSet(DOMAIN blocks)
  BY DEF Onward
<1>3. CASE Open
  <2>1. nextId' = saved.next_block_id /\ saved' = saved /\ blocks' = blocks
    BY <1>3 DEF Open, OpenStorage, Load, disk
  <2> QED BY <1>1, <1>2, <2>1 DEF Onward, Grows
<1>4. CASE UNCHANGED vars
  BY <1>1, <1>2, <1>4 DEF vars, Onward, Grows
<1>5. CASE Close
  <2>1. saved' = saved /\ blocks' = blocks /\ call'.pc = "closed"
    BY <1>5, ForgetType DEF Close, disk
  <2> QED BY <1>1, <1>2, <2>1 DEF Onward, Grows
<1>5a. CASE Panic
  <2>1. saved' = saved /\ blocks' = blocks /\ call'.pc = "closed"
    BY <1>5a, ForgetType DEF Panic, disk
  <2> QED BY <1>1, <1>2, <2>1 DEF Onward, Grows
<1>6. CASE StorageCall
  <2>1. todo # <<>> /\ Done(Head(todo)) /\ call' = call BY <1>6 DEF StorageCall, Perform
  <2>2. Head(todo) \in StorageCallsIn(Usable) BY <1>1, <2>1, FirstAndRest
  <2>3. call.pc # "closed" BY <1>0, <2>1 DEF NothingPending
  <2>4. /\ nextId' >= nextId /\ saved' = AllocatorMetadata'
        /\ \E x : DOMAIN blocks' \subseteq DOMAIN blocks \cup {x}
    BY <1>1, <2>1, <2>2, CallGrows
  <2>5. IsFiniteSet(DOMAIN blocks') BY <1>2, <2>4, MoreFiles
  <2>6. saved'.next_block_id = nextId' /\ nextId' \in Nat
    BY <1>0, <2>4 DEF AllocatorMetadata
  <2> QED BY <1>1, <1>2, <2>1, <2>3, <2>4, <2>5, <2>6 DEF Onward, Grows
<1>7. CASE NoStorageCall /\ (call'.pc # "closed" => call.pc # "closed")
  BY <1>1, <1>2, <1>7 DEF NoStorageCall, Onward, Grows
<1>8. CASE StorageFails
  <2>1. call.pc # "closed"
    BY <1>0, <1>8, ClosedLoadsNothing DEF StorageFails, NothingPending
  <2>2. CASE UNCHANGED <<storage, header>>
    BY <1>1, <1>2, <2>1, <2>2 DEF storage, Onward, Grows
  <2>3. CASE todo # <<>> /\ Interrupted(Head(todo))
    <3>1. Head(todo) \in StorageCallsIn(Usable) BY <1>1, <2>3, FirstAndRest
    <3>2. /\ nextId' >= nextId /\ (saved' = saved \/ saved' = AllocatorMetadata')
          /\ \E x : DOMAIN blocks' \subseteq DOMAIN blocks \cup {x}
      BY <1>1, <2>3, <3>1, CallGrows DEF Interrupted, HalfBroken, Perform
    <3>3. IsFiniteSet(DOMAIN blocks') BY <1>2, <3>2, MoreFiles
    <3>4. nextId' \in Nat BY <1>0
    <3>5. saved'.next_block_id \in {saved.next_block_id, nextId'}
      BY <3>2 DEF AllocatorMetadata
    <3> QED BY <1>1, <1>2, <2>1, <3>2, <3>3, <3>4, <3>5 DEF Onward, Grows
  <2> QED BY <1>8, <2>2, <2>3 DEF StorageFails
<1>9. CASE Crash
  <2>1. call'.pc = "closed" BY <1>9, ForgetType DEF Crash
  <2>2. CASE UNCHANGED <<disk, header>>
    BY <1>1, <1>2, <2>1, <2>2 DEF disk, Onward, Grows
  <2>3. CASE todo # <<>> /\ PerformHalf(Head(todo))
    <3>1. Head(todo) \in StorageCallsIn(Usable) BY <1>1, <2>3, FirstAndRest
    <3>2. saved' = saved /\ \E x : DOMAIN blocks' \subseteq DOMAIN blocks \cup {x}
      BY <1>1, <2>3, <3>1, CallGrows DEF PerformHalf
    <3>3. IsFiniteSet(DOMAIN blocks') BY <1>2, <3>2, MoreFiles
    <3> QED BY <1>1, <2>1, <3>2, <3>3 DEF Onward, Grows
  <2> QED BY <1>9, <2>2, <2>3 DEF Crash
<1>10. CASE CallStep \/ (\E r \in Requests : Invoke(r))
  <2>1. call.pc # "closed" BY <1>0, <1>10, OnlyOpenOpens
  <2> QED BY <1>5a, <1>6, <1>7, <1>10, <2>1, OnlyStorageCallStores
<1> QED BY <1>3, <1>4, <1>5, <1>8, <1>9, <1>10 DEF Next

-----------------------------------------------------------------------------
(* A tree that has never had but one leaf: where its steps leave it.       *)
OneLeaf == IInv /\ Alone /\ OneEntryFits

(* Where a call may be, and what it means for it.                          *)
LEMMA CallIsAt ==
  ASSUME NEW pc
  PROVE  /\ pc \in Away <=> pc = "closed" \/ pc = "opening"
         /\ pc \in Waiting <=> pc = "closed" \/ pc = "opening" \/ pc = "idle"
         /\ pc \in Writing <=> pc = "insert_up" \/ pc = "delete_up"
         /\ pc \in Undoing <=> pc = "rollback" \/ pc = "rolled_back"
         /\ pc \in InTree <=> \/ pc = "descend" \/ pc = "insert_up" \/ pc = "delete_up"
                              \/ pc = "root_underflow" \/ pc = "clear" \/ pc = "clear_up"
BY DEF Away, Waiting, Writing, Undoing, InTree

(* An empty leaf, and one with one entry.                                  *)
LEMMA SmallLeaves ==
  ASSUME OneEntryFits
  PROVE  /\ NewLeaf \in WellShaped /\ Lonely(NewLeaf) /\ NewLeaf.keys = <<>>
         /\ Fits(ROOT_ID, NewLeaf) /\ Held(NewLeaf) = Nothing
         /\ \A k \in Key, v \in Val : Fits(ROOT_ID, InsertLeaf(NewLeaf, k, v))
<1>1. NewLeaf \in WellShaped /\ IsLeaf(NewLeaf) BY NewLeafShaped
<1>2. NewLeaf.keys = <<>> /\ NewLeaf.next_leaf = NoBlock BY DEF NewLeaf
<1>3. Ordered(NewLeaf.keys) BY <1>2 DEF Ordered
<1>4. ASSUME NEW k \in Key, NEW v \in Val PROVE Fits(ROOT_ID, InsertLeaf(NewLeaf, k, v))
  <2> DEFINE n == InsertLeaf(NewLeaf, k, v)
  <2>1. n \in WellShaped /\ IsLeaf(n) BY <1>1, InsertLeafShaped
  <2>2. Len(n.keys) \in {Len(NewLeaf.keys), Len(NewLeaf.keys) + 1}
    BY <1>1, <1>3, InsertLeafOrdered
  <2>3. Len(NewLeaf.keys) = 0 BY <1>2
  <2> HIDE DEF n
  <2>4. Len(n.keys) <= 1
    <3> DEFINE a == Len(NewLeaf.keys)
               b == Len(n.keys)
    <3>1. a = 0 /\ b \in {a, a + 1} BY <2>2, <2>3
    <3> HIDE DEF a, b
    <3>2. b <= 1 BY <3>1
    <3> QED BY <3>2 DEF b
  <2>5. Fits(ROOT_ID, n) BY <2>1, <2>4 DEF OneEntryFits
  <2> QED BY <2>5 DEF n
<1> QED BY <1>1, <1>2, <1>3, <1>4, HeldNothing DEF Lonely, OneEntryFits

(* The only leaf.                                                          *)
LEMMA TheLeaf ==
  ASSUME OneLeaf, ROOT_ID \in DOMAIN blocks
  PROVE  /\ Root \in WellShaped /\ Lonely(Root) /\ IsLeaf(Root) /\ ~IsInternal(Root)
         /\ Ordered(Root.keys) /\ Root.next_leaf = NoBlock /\ Root.child_ids = <<>>
         /\ Fits(ROOT_ID, Root) /\ Root.key_count = Len(Root.keys)
         /\ ROOT_ID \in BlockId
<1>1. Root \in WellShaped BY Running DEF OneLeaf, StorageTypeOK, StorageTypeIn, Root
<1>2. Lonely(Root) /\ Fits(ROOT_ID, Root) BY DEF OneLeaf, Alone, LeafStored
<1> QED BY <1>1, <1>2, RootIdType DEF Lonely, IsLeaf, IsInternal, WellShaped, ShapeOK

(* A call that has come to a leaf has come to this one.                    *)
LEMMA AtTheLeaf ==
  ASSUME OneLeaf, NEW pc \in {"descend", "clear"}, Runs(pc)
  PROVE  /\ call.pc = pc /\ call.at = ROOT_ID /\ todo = <<>> /\ blocks[call.at] = Root
         /\ ROOT_ID \in DOMAIN blocks /\ tree.root_exists /\ call.orig.root_exists
         /\ call.stack = <<>>
<1>1. call.pc = pc /\ todo = <<>> /\ ROOT_ID \in DOMAIN blocks BY Here DEF OneLeaf
<1> QED BY <1>1, CallIsAt DEF OneLeaf, Alone, LeafVisited, Root

(* The handlers that have nothing to do.                                   *)
LEMMA NoInnerNode ==
  ASSUME OneLeaf
  PROVE  /\ ~Descend /\ ~InsertIntoParent /\ ~SaveAncestor /\ ~HandleChildUnderflow
         /\ ~CheckParent /\ ~ClearInternal /\ ~ClearNext /\ ~BlockCorrupted /\ ~Panic
         /\ ~Runs("scan") /\ ~BlockNotFound
<1>1. call.stack = <<>> /\ call.pc \notin {"scan", "reload"} BY DEF OneLeaf, Alone, LeafVisited
<1>2. ~Descend /\ ~ClearInternal
  BY AtTheLeaf, TheLeaf DEF Descend, ClearInternal
<1>3. ~BlockNotFound
  <2> SUFFICES ASSUME BlockNotFound PROVE FALSE OBVIOUS
  <2>1. CASE todo = <<>> /\ ~(Loaded \subseteq DOMAIN blocks)
    <3>1. call.pc \in {"descend", "clear"} => call.at = ROOT_ID
      BY DEF OneLeaf, Alone, LeafVisited
    <3>2. ROOT_ID \notin DOMAIN blocks => Loaded = {}
      BY <1>1, Running DEF OneLeaf, Loaded
    <3>3. ROOT_ID \in DOMAIN blocks => Loaded \subseteq {ROOT_ID}
      BY <1>1, <3>1, TheLeaf DEF Loaded, CollapsesRoot, Root
    <3> QED BY <2>1, <3>2, <3>3
  <2>2. CASE todo # <<>> /\ Head(todo).do = "free"
    <3>1. todo \in Seq(StorageCalls) BY Running DEF OneLeaf
    <3>2. 1 \in DOMAIN todo /\ Head(todo) = todo[1] BY <2>2, <3>1, FirstAndRest
    <3> QED BY <2>2, <3>2 DEF OneLeaf, Alone, LeafWritten, WritesRoot
  <2> QED BY <2>1, <2>2 DEF BlockNotFound
<1> QED BY <1>1, <1>2, <1>3
       DEF InsertIntoParent, SaveAncestor, HandleChildUnderflow, CheckParent, ClearNext,
           BlockCorrupted, Panic, Rebalances, Runs

(* A handler leaves the leaf.                                              *)
LEMMA HandlerAlone ==
  ASSUME OneLeaf, NoStorageCall, LeafVisited', LeafWritten'
  PROVE  Alone'
BY DEF NoStorageCall, OneLeaf, Alone, LeafStored, Root

(* It may answer, and have the leaf written.                               *)
LEMMA AnswersAlone ==
  ASSUME OneLeaf, NoStorageCall, NEW a, call' = Answer(a),
         call.pc \in InTree \/ todo' = <<>> \/ call.req.op # "delete_safe",
         \A i \in DOMAIN todo' :
           /\ todo'[i].do = "save" /\ todo'[i].id = ROOT_ID /\ Lonely(todo'[i].node)
           /\ Fits(ROOT_ID, todo'[i].node)
           /\ ~tree'.root_exists => todo'[i].node.keys = <<>>
  PROVE  Alone'
<1>1. call \in Calls BY Running DEF OneLeaf
<1>2. /\ call'.pc = "return" /\ call'.stack = <<>> /\ call'.outcome = "NoChange"
      /\ call'.req = call.req /\ call'.orig = call.orig
  BY <1>1 DEF Answer, Calls, CallsIn
<1>3. call.pc \in InTree => call.orig.root_exists BY DEF OneLeaf, Alone, LeafVisited
<1>4. LeafVisited' BY <1>2, <1>3, CallIsAt DEF LeafVisited, ROOT_ID
<1>5. ~Splits' BY <1>2 DEF Splits
<1>6. LeafWritten'
  BY <1>2, <1>5 DEF LeafWritten, WritesRoot, ROOT_ID
<1> QED BY <1>4, <1>6, HandlerAlone

(* save_metadata writes the leaf, or zeros.                                *)
LEMMA MetadataAlone ==
  ASSUME OneLeaf, ROOT_ID \in DOMAIN blocks, NEW meta
  PROVE  LET c == SaveMetadata(meta)
         IN /\ c.do = "save" /\ c.id = ROOT_ID /\ Lonely(c.node) /\ Fits(ROOT_ID, c.node)
            /\ ~meta.root_exists => c.node = NewLeaf /\ c.node.keys = <<>>
            /\ meta.root_exists => c.node = Root
BY TheLeaf, SmallLeaves DEF OneLeaf, SaveMetadata, Save, Root

(* It may go on with the call, with nothing to write.                      *)
LEMMA GoesOnAlone ==
  ASSUME OneLeaf, NoStorageCall, todo' = <<>>,
         call'.stack = <<>>, call'.outcome # "Underflow",
         call'.pc \in {"start", "descend", "delete_up", "root_underflow", "clear", "clear_up"},
         call'.pc \in {"descend", "clear"} => call'.at = ROOT_ID,
         call'.pc \in {"clear", "clear_up"} => call'.req.op = "clear",
         call'.pc = "start" => call'.orig = tree',
         call'.pc \in InTree => tree'.root_exists /\ call'.orig.root_exists
  PROVE  Alone'
<1>1. ~Splits' BY DEF Splits
<1>2. LeafVisited' BY CallIsAt DEF LeafVisited, ROOT_ID
<1>3. LeafWritten' BY <1>1 DEF LeafWritten
<1> QED BY <1>2, <1>3, HandlerAlone

(* It may be over.                                                         *)
LEMMA OverAlone ==
  ASSUME OneLeaf, NoStorageCall, todo' = <<>>, call' = Blank
  PROVE  Alone'
<1>1. /\ call'.pc = "idle" /\ call'.stack = <<>> /\ call'.outcome # "Underflow"
  BY DEF Blank
<1>2. ~Splits' BY <1>1 DEF Splits
<1>3. LeafVisited' BY <1>1, CallIsAt DEF LeafVisited, ROOT_ID
<1>4. LeafWritten' BY <1>2 DEF LeafWritten
<1> QED BY <1>3, <1>4, HandlerAlone

-----------------------------------------------------------------------------
(* The handlers, one by one.                                               *)
LEMMA CallsAlone ==
  ASSUME OneLeaf
  PROVE  /\ (\E r \in Requests : Invoke(r)) => Alone'
         /\ Opened \/ Return \/ RolledBack => Alone'
<1>1. ASSUME NEW r \in Requests, Invoke(r) PROVE Alone'
  <2>1. /\ call.pc = "idle" /\ todo' = todo /\ NoStorageCall
        /\ call'.orig = tree'
        /\ call'.pc = "start" /\ call'.stack = <<>> /\ call'.outcome = "NoChange"
    BY <1>1 DEF Invoke, Blank
  <2>2. todo' = <<>> BY <2>1 DEF OneLeaf, IInv, InvIn, NothingPending
  <2> QED BY <2>1, <2>2, GoesOnAlone, CallIsAt
<1>2. ASSUME Opened \/ Return \/ RolledBack PROVE Alone'
  BY <1>2, OverAlone DEF Opened, Return, RolledBack, Runs
<1> QED BY <1>1, <1>2

(* A call starts at the leaf, or makes it.                                 *)
LEMMA StartOnTreeAlone == ASSUME OneLeaf, StartOnTree PROVE Alone'
<1>1. /\ call.pc = "start" /\ todo' = <<>> /\ tree' = tree /\ NoStorageCall
      /\ tree.root_exists
      /\ call' = [ call EXCEPT !.pc = IF call.req.op = "clear" THEN "clear" ELSE "descend",
                               !.at = ROOT_ID ]
  BY DEF StartOnTree, Runs
<1>2. call \in Calls BY Running DEF OneLeaf
<1>3. /\ call'.pc = (IF call.req.op = "clear" THEN "clear" ELSE "descend")
      /\ call'.at = ROOT_ID /\ call'.req = call.req /\ call'.stack = call.stack
      /\ call'.outcome = call.outcome /\ call'.orig = call.orig
  BY <1>1, <1>2 DEF Calls, CallsIn
<1>4. call.stack = <<>> /\ call.outcome # "Underflow" BY DEF OneLeaf, Alone, LeafVisited
<1>5. call.orig.root_exists BY <1>1 DEF OneLeaf, Alone, LeafVisited
<1> QED BY <1>1, <1>3, <1>4, <1>5, GoesOnAlone, CallIsAt

LEMMA StartOnEmptyTreeAlone == ASSUME OneLeaf, StartOnEmptyTree PROVE Alone'
<1>1. /\ call.pc = "start" /\ todo = <<>> /\ NoStorageCall /\ call' = Answer(call.answer)
  BY DEF StartOnEmptyTree, Runs
<1>2. CASE call.req.op = "upsert"
  <2> DEFINE n == InsertLeaf(NewLeaf, call.req.key, call.req.val)
  <2>1. tree'.root_exists /\ todo' = << Save(ROOT_ID, n) >> BY <1>2 DEF StartOnEmptyTree
  <2>2. call.req.key \in Key /\ call.req.val \in Val /\ call.req \in Request
    <3>1. call.req \in Request \cup {NoRequest} BY Running DEF OneLeaf
    <3> QED BY <1>2, <3>1, RequestType DEF OneLeaf, NoRequest
  <2>3. Lonely(n) /\ Fits(ROOT_ID, n)
    BY <1>2, <2>2, SmallLeaves, HeldInsert DEF OneLeaf
  <2> HIDE DEF n
  <2>4. \A i \in DOMAIN todo' : todo'[i] = Save(ROOT_ID, n) BY <2>1
  <2> QED BY <1>1, <1>2, <2>1, <2>3, <2>4, AnswersAlone DEF Save
<1>3. CASE call.req.op # "upsert"
  <2>1. todo' = <<>> BY <1>1, <1>3 DEF StartOnEmptyTree
  <2> QED BY <1>1, <2>1, AnswersAlone
<1> QED BY <1>2, <1>3

(* A call that changes nothing.                                            *)
LEMMA ReadsAlone ==
  ASSUME OneLeaf, GetFromLeaf \/ ScanLeaf \/ UpdateMissing \/ DeleteNothing
  PROVE  /\ Alone' /\ NoStorageCall /\ tree' = tree /\ todo' = <<>>
         /\ call'.pc = "return" /\ call'.req = call.req /\ call.pc \in {"descend", "delete_up"}
         /\ call'.orig = call.orig /\ call'.answer = call'.answer /\ \E a : call' = Answer(a)
<1>1. call \in Calls BY Running DEF OneLeaf
<1>2. ASSUME NEW a, call' = Answer(a)
      PROVE  call'.pc = "return" /\ call'.req = call.req /\ call'.orig = call.orig
  BY <1>1, <1>2 DEF Answer, Calls, CallsIn
<1>3. ASSUME ScanLeaf PROVE \E a : call' = Answer(a)
  <2>1. Runs("descend") BY <1>3, NoInnerNode DEF ScanLeaf, AtLeaf
  <2>2. blocks[call.at].next_leaf = NoBlock BY <2>1, AtTheLeaf, TheLeaf
  <2> QED BY <1>3, <2>2 DEF ScanLeaf
<1>4. \E a : call' = Answer(a)
  BY <1>3 DEF GetFromLeaf, UpdateMissing, DeleteNothing
<1>5. NoStorageCall /\ tree' = tree /\ todo' = <<>> /\ call.pc \in {"descend", "delete_up"}
  <2>1. NoStorageCall /\ tree' = tree /\ todo' = todo
    BY DEF GetFromLeaf, UpdateMissing, DeleteNothing, ScanLeaf
  <2>2. todo = <<>> /\ call.pc \in {"descend", "delete_up"}
    BY NoInnerNode DEF GetFromLeaf, UpdateMissing, DeleteNothing, ScanLeaf, AtLeaf, Runs
  <2> QED BY <2>1, <2>2
<1>6. Alone' BY <1>4, <1>5, AnswersAlone
<1> QED BY <1>2, <1>4, <1>5, <1>6

(* A call that changes the leaf: what it has written, and what is left.    *)
LEMMA InsertIntoLeafAlone ==
  ASSUME OneLeaf, InsertIntoLeaf
  PROVE  LET n == InsertLeaf(Root, call.req.key, call.req.val)
         IN /\ Alone' /\ NoStorageCall /\ tree' = tree /\ call'.pc = "insert_up"
            /\ call.req \in Request /\ call.req.op \in {"upsert", "update"}
            /\ call.req.op = "update" => HasKey(Root, call.req.key)
            /\ call'.req = call.req /\ call'.orig = call.orig
            /\ call'.answer = Get(Root, call.req.key)
            /\ todo' # <<>> /\ (~Splits' => todo' = << Save(ROOT_ID, n) >>)
<1> DEFINE r == call.req
           n == InsertLeaf(Root, r.key, r.val)
           res == SaveOrSplit(ROOT_ID, n)
<1>1. /\ Runs("descend") /\ r.op \in {"upsert", "update"} /\ NoStorageCall /\ tree' = tree
      /\ r.op = "update" => HasKey(blocks[call.at], r.key)
      /\ AfterInsert(SaveOrSplit(call.at, InsertLeaf(blocks[call.at], r.key, r.val)), call.stack)
  BY DEF InsertIntoLeaf, AtLeaf
<1>2. /\ call.pc = "descend" /\ call.at = ROOT_ID /\ blocks[call.at] = Root
      /\ ROOT_ID \in DOMAIN blocks /\ tree.root_exists /\ call.orig.root_exists
      /\ call.stack = <<>>
  BY <1>1, AtTheLeaf
<1>3. call \in Calls /\ r \in Request
  <2>1. r \in Request \cup {NoRequest} /\ call \in Calls BY Running DEF OneLeaf
  <2> QED BY <1>1, <2>1 DEF NoRequest
<1>4. AfterInsert(res, <<>>) BY <1>1, <1>2
<1>5. n \in WellShaped /\ Lonely(n)
  BY <1>1, <1>2, <1>3, TheLeaf, HeldInsert
<1>6. /\ res.split = NoSplit => res.writes = << Save(ROOT_ID, n) >>
      /\ res.split # NoSplit => res.writes # <<>> /\ Head(res.writes).do = "allocate"
      /\ res.writes # <<>>
  <2>1. CASE Len(n.keys) <= MaxKeys BY <2>1 DEF SaveOrSplit
  <2>2. CASE ~(Len(n.keys) <= MaxKeys)
    <3> DEFINE a == Save(FreshBlock, Split(n).right)
               b == Save(ROOT_ID, LinkToRight(Split(n).left))
    <3>1. /\ res.writes = << Allocate, a, b >>
          /\ res.split = [ key |-> Split(n).key, id |-> FreshBlock ]
      BY <2>2 DEF SaveOrSplit, SplitWrites
    <3>2. FreshBlock \in Allotted BY FreshBlockType, Running DEF OneLeaf
    <3>3. res.split # NoSplit BY <3>1, <3>2 DEF NoSplit, NoBlock, Allotted
    <3> HIDE DEF a, b
    <3>4. res.writes # <<>> /\ Head(res.writes) = Allocate BY <3>1
    <3> QED BY <3>3, <3>4 DEF Allocate
  <2> QED BY <2>1, <2>2
<1> HIDE DEF n, res
<1>7. /\ todo' = res.writes /\ call'.pc = "insert_up" /\ call'.split = res.split
      /\ call'.stack = <<>> /\ call'.req = call.req /\ call'.orig = call.orig
      /\ call'.outcome = call.outcome /\ call'.answer = Get(Root, r.key)
  BY <1>2, <1>3, <1>4 DEF AfterInsert, Calls, CallsIn
<1>8. Splits' <=> res.split # NoSplit BY <1>7 DEF Splits, NoSplit, NoBlock
<1>9. LeafVisited'
  <2>1. call.outcome # "Underflow" BY DEF OneLeaf, Alone, LeafVisited
  <2> QED BY <1>1, <1>2, <1>7, <2>1, CallIsAt DEF LeafVisited
<1>10. LeafWritten'
  <2>1. CASE Splits'
    <3>1. todo' # <<>> /\ Head(todo').do = "allocate" BY <1>6, <1>7, <1>8, <2>1
    <3> QED BY <1>7, <2>1, <3>1, CallIsAt DEF LeafWritten
  <2>2. CASE ~Splits'
    <3>1. todo' = << Save(ROOT_ID, n) >> BY <1>6, <1>7, <1>8, <2>2
    <3>2. \A i \in DOMAIN todo' : todo'[i] = Save(ROOT_ID, n) BY <3>1
    <3> QED BY <1>1, <1>2, <1>5, <1>7, <2>2, <3>2, CallIsAt
           DEF LeafWritten, WritesRoot, Save, ROOT_ID
  <2> QED BY <2>1, <2>2
<1>11. Alone' BY <1>1, <1>9, <1>10, HandlerAlone
<1> QED BY <1>1, <1>2, <1>3, <1>6, <1>7, <1>8, <1>11 DEF n

LEMMA FinishInsertAlone ==
  ASSUME OneLeaf, FinishInsert
  PROVE  /\ Alone' /\ NoStorageCall /\ call'.pc = "return" /\ call'.req = call.req
         /\ call.pc = "insert_up" /\ todo = <<>> /\ ROOT_ID \in DOMAIN blocks
         /\ call'.orig = call.orig
         /\ todo' = << Save(ROOT_ID, Root) >> /\ tree.root_exists /\ tree'.root_exists
         /\ tree' = IF call.req.op = "upsert" /\ call.answer = None
                    THEN [ tree EXCEPT !.entry_count = (@ + 1) % CountWidth ] ELSE tree
<1>1. /\ call.pc = "insert_up" /\ todo = <<>> /\ NoStorageCall /\ call' = Answer(call.answer)
      /\ tree' = IF call.req.op = "upsert" /\ call.answer = None
                 THEN [ tree EXCEPT !.entry_count = (@ + 1) % CountWidth ] ELSE tree
  BY DEF FinishInsert, Runs
<1>2. call.split = NoSplit BY <1>1 DEF OneLeaf, Alone, LeafWritten, Splits
<1>3. todo' = << SaveMetadata(tree) >> BY <1>2 DEF FinishInsert
<1>4. /\ ROOT_ID \in DOMAIN blocks /\ tree \in Metadata /\ call \in Calls
      /\ tree.root_exists /\ call.pc \in InTree
  BY <1>1, Running, CallIsAt DEF OneLeaf, Alone, LeafVisited
<1>5. SaveMetadata(tree) = Save(ROOT_ID, Root) BY <1>4 DEF SaveMetadata, Root
<1>6. tree'.root_exists BY <1>1, <1>4 DEF Metadata
<1>7. call'.pc = "return" /\ call'.req = call.req /\ call'.orig = call.orig
  BY <1>1, <1>4 DEF Answer, Calls, CallsIn
<1>8. \A i \in DOMAIN todo' : todo'[i] = SaveMetadata(tree) BY <1>3
<1>9. Alone' BY <1>1, <1>4, <1>8, <1>6, MetadataAlone, AnswersAlone
<1> QED BY <1>1, <1>3, <1>4, <1>5, <1>6, <1>7, <1>9

LEMMA DeleteFromLeafAlone ==
  ASSUME OneLeaf, DeleteFromLeaf
  PROVE  LET n == RemoveLeaf(Root, call.req.key)
         IN /\ Alone' /\ NoStorageCall /\ tree' = tree /\ call'.pc = "delete_up"
            /\ call.pc = "descend" /\ ROOT_ID \in DOMAIN blocks /\ tree.root_exists
            /\ call.req \in Request /\ call.req.op \in {"delete", "delete_safe"}
            /\ call'.req = call.req /\ call'.orig = call.orig
            /\ \/ /\ HasKey(Root, call.req.key) /\ todo' = << Save(ROOT_ID, n) >>
                  /\ call'.outcome = "KeyRemoved"
               \/ /\ todo' = <<>> /\ call'.outcome = call.outcome
<1> DEFINE r == call.req
           n == RemoveLeaf(Root, r.key)
<1>1. /\ Runs("descend") /\ r.op \in {"delete", "delete_safe"} /\ NoStorageCall /\ tree' = tree
  BY DEF DeleteFromLeaf, AtLeaf
<1>2. /\ call.pc = "descend" /\ call.at = ROOT_ID /\ blocks[call.at] = Root /\ todo = <<>>
      /\ ROOT_ID \in DOMAIN blocks /\ tree.root_exists /\ call.orig.root_exists
      /\ call.stack = <<>>
  BY <1>1, AtTheLeaf
<1>3. call \in Calls /\ r \in Request
  <2>1. r \in Request \cup {NoRequest} /\ call \in Calls BY Running DEF OneLeaf
  <2> QED BY <1>1, <2>1 DEF NoRequest
<1>4. call.outcome # "Underflow" BY DEF OneLeaf, Alone, LeafVisited
<1>5. CASE HasKey(Root, r.key)
  <2>1. ~Underflows(call.at, n) BY <1>2 DEF Underflows
  <2>2. /\ todo' = << Save(ROOT_ID, n) >>
        /\ call' = [ call EXCEPT !.pc = "delete_up", !.at = NoBlock,
                                 !.answer = Get(Root, r.key), !.outcome = "KeyRemoved" ]
    BY <1>2, <1>5, <2>1 DEF DeleteFromLeaf
  <2>3. Lonely(n) BY <1>1, <1>2, <1>3, <1>5, TheLeaf, HeldRemove
  <2> HIDE DEF n
  <2>4. /\ call'.pc = "delete_up" /\ call'.stack = <<>> /\ call'.req = r
        /\ call'.outcome = "KeyRemoved" /\ call'.orig = call.orig
    BY <1>2, <1>3, <2>2 DEF Calls, CallsIn
  <2>5. ~Splits' BY <2>4 DEF Splits
  <2>6. LeafVisited' BY <1>1, <1>2, <2>4, CallIsAt DEF LeafVisited
  <2>7. \A i \in DOMAIN todo' : todo'[i] = Save(ROOT_ID, n) BY <2>2
  <2>8. LeafWritten'
    BY <1>1, <1>2, <2>3, <2>4, <2>5, <2>7, CallIsAt DEF LeafWritten, WritesRoot, Save, ROOT_ID
  <2>9. Alone' BY <1>1, <2>6, <2>8, HandlerAlone
  <2> QED BY <1>1, <1>2, <1>3, <1>5, <2>2, <2>4, <2>9 DEF n
<1>6. CASE ~HasKey(Root, r.key)
  <2>1. todo' = <<>> /\ call' = [ call EXCEPT !.pc = "delete_up", !.at = NoBlock ]
    BY <1>2, <1>6 DEF DeleteFromLeaf
  <2>2. /\ call'.pc = "delete_up" /\ call'.stack = <<>> /\ call'.req = r
        /\ call'.outcome = call.outcome /\ call'.orig = call.orig
    BY <1>2, <1>3, <2>1 DEF Calls, CallsIn
  <2>3. Alone' BY <1>1, <1>2, <1>4, <2>1, <2>2, GoesOnAlone
  <2> QED BY <1>1, <1>2, <1>3, <2>1, <2>2, <2>3
<1> QED BY <1>5, <1>6

LEMMA CountDeletedAlone ==
  ASSUME OneLeaf, CountDeleted
  PROVE  /\ Alone' /\ NoStorageCall /\ call'.pc = "root_underflow" /\ call'.req = call.req
         /\ call.pc = "delete_up" /\ todo = <<>> /\ todo' = <<>> /\ ROOT_ID \in DOMAIN blocks
         /\ call'.orig = call.orig /\ call.outcome # "NoChange"
         /\ tree.root_exists /\ tree'.root_exists
         /\ tree' = [ tree EXCEPT !.entry_count = (@ - 1) % CountWidth ]
<1>1. /\ call.pc = "delete_up" /\ todo = <<>> /\ todo' = <<>> /\ NoStorageCall
      /\ call' = [ call EXCEPT !.pc = "root_underflow" ] /\ call.outcome # "NoChange"
      /\ tree' = [ tree EXCEPT !.entry_count = (@ - 1) % CountWidth ]
  BY DEF CountDeleted, Runs
<1>2. /\ ROOT_ID \in DOMAIN blocks /\ tree \in Metadata /\ call \in Calls
      /\ tree.root_exists /\ call.orig.root_exists /\ call.stack = <<>>
      /\ call.outcome # "Underflow"
  BY <1>1, Running, CallIsAt DEF OneLeaf, Alone, LeafVisited
<1>3. /\ call'.pc = "root_underflow" /\ call'.req = call.req /\ call'.orig = call.orig
      /\ call'.stack = call.stack /\ call'.outcome = call.outcome
  BY <1>1, <1>2 DEF Calls, CallsIn
<1>4. tree'.root_exists BY <1>1, <1>2 DEF Metadata
<1>5. Alone' BY <1>1, <1>2, <1>3, <1>4, GoesOnAlone
<1> QED BY <1>1, <1>2, <1>3, <1>4, <1>5

LEMMA FinishDeleteAlone ==
  ASSUME OneLeaf, FinishDelete
  PROVE  /\ Alone' /\ NoStorageCall /\ call'.pc = "return" /\ call'.req = call.req
         /\ call.pc = "root_underflow" /\ todo = <<>> /\ ROOT_ID \in DOMAIN blocks
         /\ call'.orig = call.orig /\ tree.root_exists /\ todo' # <<>>
         /\ \/ /\ Root.keys = <<>> /\ tree' = EmptyTree
               /\ \A i \in DOMAIN todo' : todo'[i].node = NewLeaf
            \/ /\ tree' = tree /\ \A i \in DOMAIN todo' : todo'[i].node = Root
<1>1. /\ call.pc = "root_underflow" /\ todo = <<>> /\ NoStorageCall
      /\ call' = Answer(call.answer)
  BY DEF FinishDelete, Runs
<1>2. /\ ROOT_ID \in DOMAIN blocks /\ tree \in Metadata /\ call \in Calls
      /\ tree.root_exists /\ call.pc \in InTree
  BY <1>1, Running, CallIsAt DEF OneLeaf, Alone, LeafVisited
<1>3. call'.pc = "return" /\ call'.req = call.req /\ call'.orig = call.orig
  BY <1>1, <1>2 DEF Answer, Calls, CallsIn
<1>4. ~CollapsesRoot BY <1>2, TheLeaf DEF CollapsesRoot, Root
<1>5. CASE EmptiesRoot
  <2>1. tree' = EmptyTree /\ todo' = << SaveMetadata(EmptyTree), SaveMetadata(EmptyTree) >>
    BY <1>4, <1>5 DEF FinishDelete
  <2>2. ~EmptyTree.root_exists BY DEF EmptyTree
  <2>3. todo' # <<>> /\ \A i \in DOMAIN todo' : todo'[i] = SaveMetadata(EmptyTree) BY <2>1
  <2>4. Alone' BY <1>1, <1>2, <2>2, <2>3, MetadataAlone, AnswersAlone
  <2>5. Len(Root.keys) = 0 /\ Root.keys \in Seq(Key)
    BY <1>2, <1>5, TheLeaf DEF EmptiesRoot, Root, WellShaped, Node
  <2>6. Root.keys = <<>> BY <2>5, EmptySeq
  <2> QED BY <1>1, <1>2, <1>3, <2>1, <2>2, <2>3, <2>4, <2>6, MetadataAlone
<1>6. CASE ~EmptiesRoot
  <2>1. tree' = tree /\ todo' = << SaveMetadata(tree) >>
    BY <1>4, <1>6 DEF FinishDelete
  <2>2. todo' # <<>> /\ \A i \in DOMAIN todo' : todo'[i] = SaveMetadata(tree) BY <2>1
  <2>3. Alone' BY <1>1, <1>2, <2>1, <2>2, MetadataAlone, AnswersAlone
  <2> QED BY <1>1, <1>2, <1>3, <2>1, <2>2, <2>3, MetadataAlone
<1> QED BY <1>5, <1>6

LEMMA ClearLeafAlone ==
  ASSUME OneLeaf, ClearLeaf
  PROVE  /\ Alone' /\ NoStorageCall /\ tree' = tree /\ todo' = <<>> /\ todo = <<>>
         /\ call.pc = "clear" /\ call'.pc = "clear_up" /\ call'.req = call.req
         /\ call'.orig = call.orig
<1>1. /\ Runs("clear") /\ tree' = tree /\ NoStorageCall /\ todo' = FreeUnlessRoot(call.at)
      /\ call' = [ call EXCEPT !.pc = "clear_up", !.at = NoBlock ]
  BY DEF ClearLeaf
<1>2. /\ call.pc = "clear" /\ call.at = ROOT_ID /\ todo = <<>> /\ tree.root_exists
      /\ call.orig.root_exists /\ call.stack = <<>>
  BY <1>1, AtTheLeaf
<1>3. todo' = <<>> BY <1>1, <1>2 DEF FreeUnlessRoot
<1>4. call \in Calls /\ call.outcome # "Underflow" /\ call.req.op = "clear"
  BY <1>2, Running DEF OneLeaf, Alone, LeafVisited
<1>5. /\ call'.pc = "clear_up" /\ call'.req = call.req /\ call'.orig = call.orig
      /\ call'.stack = call.stack /\ call'.outcome = call.outcome
  BY <1>1, <1>4 DEF Calls, CallsIn
<1>6. Alone' BY <1>1, <1>2, <1>3, <1>4, <1>5, GoesOnAlone
<1> QED BY <1>1, <1>2, <1>3, <1>5, <1>6

LEMMA FinishClearAlone ==
  ASSUME OneLeaf, FinishClear
  PROVE  /\ Alone' /\ NoStorageCall /\ call'.pc = "return" /\ call'.req = call.req
         /\ call.pc = "clear_up" /\ todo = <<>> /\ call.req.op = "clear"
         /\ call'.orig = call.orig /\ tree' = EmptyTree /\ todo' = << Save(ROOT_ID, NewLeaf) >>
<1>1. /\ call.pc = "clear_up" /\ todo = <<>> /\ NoStorageCall /\ tree' = EmptyTree
      /\ call' = Answer(None) /\ todo' = << SaveMetadata(EmptyTree) >>
  BY DEF FinishClear, Runs
<1>2. /\ ROOT_ID \in DOMAIN blocks /\ call \in Calls /\ call.pc \in InTree
      /\ call.req.op = "clear"
  BY <1>1, Running, CallIsAt DEF OneLeaf, Alone, LeafVisited
<1>3. call'.pc = "return" /\ call'.req = call.req /\ call'.orig = call.orig
  BY <1>1, <1>2 DEF Answer, Calls, CallsIn
<1>4. SaveMetadata(EmptyTree) = Save(ROOT_ID, NewLeaf) BY DEF SaveMetadata, EmptyTree
<1>5. \A i \in DOMAIN todo' : todo'[i] = SaveMetadata(EmptyTree) BY <1>1
<1>6. Alone' BY <1>1, <1>2, <1>5, MetadataAlone, AnswersAlone
<1> QED BY <1>1, <1>2, <1>3, <1>4, <1>6

LEMMA RollbackAlone ==
  ASSUME OneLeaf, Rollback
  PROVE  /\ Alone' /\ NoStorageCall /\ call'.pc = "rolled_back" /\ call'.req = call.req
         /\ call.pc = "rollback" /\ todo = <<>> /\ ROOT_ID \in DOMAIN blocks
         /\ call'.orig = call.orig /\ tree' = call.orig /\ tree'.root_exists
         /\ todo' = << Save(ROOT_ID, Root) >>
<1>1. /\ call.pc = "rollback" /\ todo = <<>> /\ NoStorageCall /\ tree' = call.orig
      /\ call' = [ call EXCEPT !.pc = "rolled_back" ] /\ todo' = << SaveMetadata(call.orig) >>
  BY DEF Rollback, Runs
<1>2. /\ ROOT_ID \in DOMAIN blocks /\ call \in Calls /\ call.orig.root_exists
      /\ call.stack = <<>> /\ call.outcome # "Underflow"
  BY <1>1, Running, CallIsAt DEF OneLeaf, Alone, LeafVisited
<1>3. /\ call'.pc = "rolled_back" /\ call'.req = call.req /\ call'.orig = call.orig
      /\ call'.stack = call.stack /\ call'.outcome = call.outcome
  BY <1>1, <1>2 DEF Calls, CallsIn
<1>4. SaveMetadata(call.orig) = Save(ROOT_ID, Root) BY <1>2 DEF SaveMetadata, Root
<1>5. ~Splits' BY <1>3 DEF Splits
<1>6. LeafVisited' BY <1>2, <1>3, CallIsAt DEF LeafVisited
<1>7. \A i \in DOMAIN todo' : todo'[i] = Save(ROOT_ID, Root) BY <1>1, <1>4
<1>8. LeafWritten'
  <2>1. Lonely(Root) /\ Fits(ROOT_ID, Root) BY <1>2, TheLeaf
  <2> DEFINE n == Root
  <2> HIDE DEF n
  <2>2. \A i \in DOMAIN todo' : todo'[i] = Save(ROOT_ID, n) BY <1>7 DEF n
  <2>3. Lonely(n) /\ Fits(ROOT_ID, n) BY <2>1 DEF n
  <2> QED BY <1>1, <1>2, <1>3, <1>5, <2>2, <2>3, CallIsAt
         DEF LeafWritten, WritesRoot, Save, ROOT_ID
<1>9. Alone' BY <1>1, <1>6, <1>8, HandlerAlone
<1> QED BY <1>1, <1>2, <1>3, <1>4, <1>9

-----------------------------------------------------------------------------
(* Storage calls and failures.                                             *)

(* The block and its header are as they were, or as the call writes them.  *)
DiskSame ==
  Root' = Root /\ (ROOT_ID \in DOMAIN blocks' <=> ROOT_ID \in DOMAIN blocks) /\ header' = header

DiskWritten ==
  /\ todo # <<>> /\ ~Splits /\ Head(todo) = todo[1] /\ 1 \in DOMAIN todo
  /\ WritesRoot(Head(todo)) /\ Head(todo).node \in WellShaped
  /\ Root' = Head(todo).node /\ ROOT_ID \in DOMAIN blocks' /\ header' = tree

(* The next storage call.                                                  *)
LEMMA HeadAlone ==
  ASSUME OneLeaf, todo # <<>>
  PROVE  LET c == Head(todo)
         IN /\ c \in StorageCalls /\ c = todo[1] /\ 1 \in DOMAIN todo /\ c.node \in WellShaped
            /\ Splits => c.do = "allocate" /\ ROOT_ID \in DOMAIN blocks
            /\ ~Splits => WritesRoot(c) /\ c.do = "save" /\ c.id = ROOT_ID /\ c.do # "allocate"
<1>1. todo \in Seq(StorageCalls) BY Running DEF OneLeaf
<1>2. Head(todo) \in StorageCalls /\ Head(todo) = todo[1] /\ 1 \in DOMAIN todo
  BY <1>1, FirstAndRest
<1>3. Splits => ROOT_ID \in DOMAIN blocks BY Running DEF OneLeaf, Splits
<1> QED BY <1>2, <1>3, StorageCallParts DEF OneLeaf, Alone, LeafWritten, WritesRoot

(* The leaf is written.                                                    *)
LEMMA LeafIsWritten ==
  ASSUME OneLeaf, todo # <<>>, ~Splits, ~Refused(Head(todo)),
         WriteFile(Head(todo).id, Head(todo).node), WriteHeader(Head(todo)),
         freeList' = <<>>, saved'.free_blocks = <<>>
  PROVE  LeafStored' /\ DiskWritten
<1> DEFINE c == Head(todo)
           n == c.node
<1>1. /\ WritesRoot(c) /\ c.do = "save" /\ c.id = ROOT_ID /\ n \in WellShaped
      /\ c = todo[1] /\ 1 \in DOMAIN todo
  BY HeadAlone
<1>2. Lonely(n) /\ Fits(ROOT_ID, n) /\ (~tree.root_exists => n.keys = <<>>)
  BY <1>1 DEF WritesRoot, Refused
<1>3. header' = tree BY <1>1 DEF WriteHeader, SaveHeader
<1>4. ROOT_ID \in DOMAIN blocks' /\ blocks'[ROOT_ID] = n BY <1>1 DEF WriteFile
<1> HIDE DEF c, n
<1>5. Root' = n BY <1>4 DEF Root, ROOT_ID
<1>6. LeafStored' BY <1>2, <1>3, <1>4, <1>5 DEF LeafStored, ROOT_ID
<1> QED BY <1>1, <1>3, <1>4, <1>5, <1>6 DEF DiskWritten, c, n

(* Another block is, when the leaf is about to be split.                   *)
LEMMA OtherIsWritten ==
  ASSUME OneLeaf, ROOT_ID \in DOMAIN blocks, WriteFile(FreshBlock, NewLeaf), header' = header,
         freeList' = <<>>, saved'.free_blocks = <<>>
  PROVE  LeafStored' /\ DiskSame
<1>1. FreshBlock # ROOT_ID BY FreshBlockType, RootIdType, Running DEF OneLeaf
<1>2. ROOT_ID \in DOMAIN blocks' /\ blocks'[ROOT_ID] = blocks[ROOT_ID] BY <1>1 DEF WriteFile
<1>3. Root' = Root BY <1>2 DEF Root, ROOT_ID
<1>4. LeafStored' BY <1>2, <1>3 DEF OneLeaf, Alone, LeafStored, ROOT_ID
<1> QED BY <1>2, <1>3, <1>4 DEF DiskSame

(* Nothing is.                                                             *)
LEMMA NothingIsWritten ==
  ASSUME OneLeaf, UNCHANGED <<disk, header>>, freeList' = <<>>
  PROVE  LeafStored' /\ DiskSame
<1>1. blocks' = blocks /\ saved' = saved /\ header' = header BY DEF disk
<1>2. Root' = Root BY <1>1 DEF Root, ROOT_ID
<1> QED BY <1>1, <1>2 DEF DiskSame, OneLeaf, Alone, LeafStored, ROOT_ID

(* A storage call that leaves the tree with one leaf writes the leaf.      *)
LEMMA StorageCallAlone ==
  ASSUME OneLeaf, StorageCall, saved'.next_block_id = 2
  PROVE  Alone' /\ DiskWritten
<1> DEFINE c == Head(todo)
<1>1. /\ todo # <<>> /\ ~Refused(c) /\ Done(c) /\ WriteHeader(c) /\ todo' = Tail(todo)
      /\ tree' = tree /\ call' = call
  BY DEF StorageCall, Perform
<1>2. freeList = <<>> /\ saved.free_blocks = <<>> BY DEF OneLeaf, Alone, LeafStored
<1>3. ~Splits
  <2> SUFFICES ASSUME Splits PROVE FALSE OBVIOUS
  <2>1. c.do = "allocate" BY <1>1, HeadAlone
  <2>2. TakeFreshBlock /\ saved' = AllocatorMetadata'
    BY <1>1, <2>1, DoneSaves DEF Done, AllocateBlock
  <2>3. nextId' = nextId + 1 /\ saved'.next_block_id = nextId'
    BY <1>2, <2>2 DEF TakeFreshBlock, AllocatorMetadata
  <2>4. nextId \in Nat \ {0, 1} BY Running DEF OneLeaf, StorageTypeOK, StorageTypeIn, Allotted
  <2> QED BY <2>3, <2>4
<1>4. c.do = "save" BY <1>1, <1>3, HeadAlone
<1>5. /\ WriteFile(c.id, c.node) /\ freeList' = freeList /\ saved' = AllocatorMetadata'
  BY <1>1, <1>4, DoneSaves DEF Done, WriteBlock, allocator
<1>6. freeList' = <<>> /\ saved'.free_blocks = <<>> BY <1>2, <1>5 DEF AllocatorMetadata
<1>7. LeafStored' /\ DiskWritten BY <1>1, <1>3, <1>5, <1>6, LeafIsWritten
<1> HIDE DEF c
<1>8. todo \in Seq(StorageCalls) BY Running DEF OneLeaf
<1>9. \A i \in DOMAIN todo' : i + 1 \in DOMAIN todo /\ todo'[i] = todo[i + 1]
  BY <1>1, <1>8, FirstAndRest
<1>10. LeafVisited'
  <2>1. call.pc = "opening" => ~header'.root_exists
    BY <1>7 DEF DiskWritten, OneLeaf, Alone, LeafVisited
  <2> QED BY <1>1, <2>1 DEF OneLeaf, Alone, LeafVisited, ROOT_ID
<1>11. LeafWritten'
  <2>1. ~Splits' BY <1>1, <1>3 DEF Splits, NoSplit, NoBlock
  <2>2. \A i \in DOMAIN todo' : WritesRoot(todo[i + 1])
    BY <1>3, <1>9 DEF OneLeaf, Alone, LeafWritten
  <2>3. \A i \in DOMAIN todo' :
          LET d == todo'[i]
          IN /\ d.do = "save" /\ d.id = ROOT_ID /\ Lonely(d.node)
             /\ call.pc \notin Writing => Fits(ROOT_ID, d.node)
             /\ ~tree.root_exists => d.node.keys = <<>>
    BY <1>9, <2>2 DEF WritesRoot
  <2>4. call.pc \in Writing \cup {"opening", "return", "rolled_back"}
    BY <1>1 DEF OneLeaf, Alone, LeafWritten
  <2> QED BY <1>1, <2>1, <2>3, <2>4, CallIsAt DEF LeafWritten, WritesRoot, ROOT_ID
<1> QED BY <1>7, <1>10, <1>11 DEF Alone

(* A call that ends early.                                                 *)
LEMMA AbandonAlone ==
  ASSUME OneLeaf, Abandon, todo # <<>> \/ Loaded # {}
  PROVE  /\ LeafVisited' /\ LeafWritten' /\ todo' = <<>> /\ tree' = tree
         /\ call.pc \notin {"closed", "idle"}
         /\ \/ call.pc = "opening" /\ call'.pc = "closed"
            \/ /\ call.pc # "opening" /\ call'.pc = "rollback" /\ call'.req = call.req
               /\ call'.orig = call.orig /\ call.pc \in InTree \cup {"return"}
            \/ call.pc # "opening" /\ call'.pc = "idle"
<1>1. todo' = <<>> /\ tree' = tree BY DEF Abandon
<1>2. todo # <<>> => call.pc \in Writing \cup {"opening", "return", "rolled_back"}
  BY DEF OneLeaf, Alone, LeafWritten
<1>3. Loaded # {} => call.pc \in InTree
  <2>1. call.pc \notin {"scan", "reload"} BY DEF OneLeaf, Alone, LeafVisited
  <2> QED BY <2>1, CallIsAt DEF Loaded
<1>4. call.pc \in InTree \cup {"opening", "return", "rolled_back"}
  BY <1>2, <1>3, CallIsAt
<1>5. CASE call.pc = "opening"
  <2>1. call' = Closed BY <1>5 DEF Abandon
  <2>2. call'.pc = "closed" /\ call'.stack = <<>> /\ call'.outcome = "NoChange"
    BY <2>1 DEF Closed, Blank
  <2>3. ~Splits' BY <2>2 DEF Splits
  <2> QED BY <1>1, <1>5, <2>2, <2>3, CallIsAt DEF LeafVisited, LeafWritten
<1>6. CASE call.pc # "opening" /\ call.req.op = "delete_safe" /\ call.pc # "rolled_back"
  <2>1. call' = [ Blank EXCEPT !.pc = "rollback", !.req = call.req, !.orig = call.orig ]
    BY <1>6 DEF Abandon
  <2>2. /\ call'.pc = "rollback" /\ call'.stack = <<>> /\ call'.outcome = "NoChange"
        /\ call'.req = call.req /\ call'.orig = call.orig
    BY <2>1 DEF Blank
  <2>3. ~Splits' BY <2>2 DEF Splits
  <2>4. call.orig.root_exists
    <3>1. CASE call.pc \in InTree BY <3>1 DEF OneLeaf, Alone, LeafVisited
    <3>2. CASE call.pc = "return"
      BY <1>3, <1>6, <3>2, CallIsAt DEF OneLeaf, Alone, LeafVisited
    <3> QED BY <1>4, <1>6, <3>1, <3>2
  <2>5. LeafVisited' BY <2>2, <2>4, CallIsAt DEF LeafVisited
  <2>6. LeafWritten' BY <1>1, <2>3 DEF LeafWritten
  <2> QED BY <1>1, <1>4, <1>6, <2>2, <2>5, <2>6, CallIsAt
<1>7. CASE call.pc # "opening" /\ ~(call.req.op = "delete_safe" /\ call.pc # "rolled_back")
  <2>1. call' = Blank BY <1>7 DEF Abandon
  <2>2. call'.pc = "idle" /\ call'.stack = <<>> /\ call'.outcome = "NoChange"
    BY <2>1 DEF Blank
  <2>3. ~Splits' BY <2>2 DEF Splits
  <2> QED BY <1>1, <1>4, <1>7, <2>2, <2>3, CallIsAt DEF LeafVisited, LeafWritten
<1> QED BY <1>5, <1>6, <1>7

(* The node does not fit.                                                  *)
LEMMA InvalidBlockSizeAlone ==
  ASSUME OneLeaf, InvalidBlockSize
  PROVE  Alone' /\ DiskSame /\ NoStorageCall /\ todo # <<>> /\ Abandon /\ call.pc \in Writing
<1>1. todo # <<>> /\ Refused(Head(todo)) /\ Abandon /\ NoStorageCall BY DEF InvalidBlockSize
<1>2. LeafVisited' /\ LeafWritten' BY <1>1, AbandonAlone
<1>3. Alone' BY <1>1, <1>2, HandlerAlone
<1>4. call.pc \in Writing
  BY <1>1, HeadAlone, CallIsAt DEF Refused, WritesRoot, Splits
<1> QED BY <1>1, <1>3, <1>4 DEF DiskSame, NoStorageCall, Root, ROOT_ID

(* An I/O error.                                                           *)
LEMMA StorageFailsAlone ==
  ASSUME OneLeaf, StorageFails
  PROVE  /\ Alone' /\ (DiskSame \/ DiskWritten) /\ Abandon /\ (todo # <<>> \/ Loaded # {})
         /\ errors' = errors + 1 /\ crashes' = crashes
<1> DEFINE c == Head(todo)
<1>1. /\ errors' = errors + 1 /\ crashes' = crashes /\ Abandon
      /\ \/ todo # <<>> /\ ~Refused(c) /\ Interrupted(c)
         \/ todo = <<>> /\ Loaded # {} /\ UNCHANGED <<storage, header>>
  BY DEF StorageFails
<1>2. freeList = <<>> /\ saved.free_blocks = <<>> BY DEF OneLeaf, Alone, LeafStored
<1>3. LeafVisited' /\ LeafWritten' BY <1>1, AbandonAlone
<1>4. LeafStored' /\ (DiskSame \/ DiskWritten)
  <2>1. CASE todo = <<>> /\ UNCHANGED <<storage, header>>
    BY <1>2, <2>1, NothingIsWritten DEF storage, disk
  <2>2. CASE todo # <<>> /\ ~Refused(c) /\ Interrupted(c) /\ Splits
    <3>1. c.do = "allocate" /\ ROOT_ID \in DOMAIN blocks BY <2>2, HeadAlone
    <3>2. CASE NotDone(c) /\ UNCHANGED header
      <4>1. UNCHANGED disk /\ freeList' = <<>>
        BY <1>2, <3>1, <3>2 DEF NotDone, TakeFreshBlock
      <4> QED BY <3>2, <4>1, NothingIsWritten
    <3>3. CASE HalfBroken(c) /\ WriteHeader(c)
      <4>1. /\ WriteFile(FreshBlock, NewLeaf) /\ saved' = saved /\ freeList' = <<>>
            /\ header' = header
        BY <1>2, <3>1, <3>3
           DEF HalfBroken, HalfDone, AllocateBlockHalf, TakeFreshBlock, WriteHeader
      <4> QED BY <1>2, <3>1, <4>1, OtherIsWritten
    <3> QED BY <2>2, <3>1, <3>2, <3>3 DEF Interrupted
  <2>3. CASE todo # <<>> /\ ~Refused(c) /\ Interrupted(c) /\ ~Splits
    <3>1. c.do = "save" BY <2>3, HeadAlone
    <3>2. CASE NotDone(c) /\ UNCHANGED header
      <4>1. UNCHANGED disk /\ freeList' = <<>>
        BY <1>2, <3>1, <3>2 DEF NotDone, allocator
      <4> QED BY <3>2, <4>1, NothingIsWritten
    <3>3. CASE HalfBroken(c) /\ WriteHeader(c)
      <4>1. WriteFile(c.id, c.node) /\ saved' = saved /\ freeList' = <<>>
        BY <1>2, <3>1, <3>3 DEF HalfBroken, HalfDone, WriteBlockHalf, allocator
      <4> QED BY <1>2, <2>3, <3>3, <4>1, LeafIsWritten
    <3>4. CASE Perform(c)
      <4>1. /\ WriteFile(c.id, c.node) /\ freeList' = <<>> /\ saved' = AllocatorMetadata'
            /\ WriteHeader(c)
        BY <1>2, <3>1, <3>4, DoneSaves DEF Perform, Done, WriteBlock, allocator
      <4>2. saved'.free_blocks = <<>> BY <4>1 DEF AllocatorMetadata
      <4> QED BY <2>3, <4>1, <4>2, LeafIsWritten
    <3> QED BY <2>3, <3>2, <3>3, <3>4 DEF Interrupted
  <2> QED BY <1>1, <2>1, <2>2, <2>3
<1> QED BY <1>1, <1>3, <1>4 DEF Alone

(* What is left without a handle.                                          *)
LEMMA ForgetAlone ==
  ASSUME OneLeaf, Forget
  PROVE  /\ LeafVisited' /\ LeafWritten' /\ freeList' = <<>> /\ tree' = EmptyTree
         /\ call'.pc = "closed" /\ todo' = <<>>
<1>1. /\ call'.pc = "closed" /\ call'.stack = <<>> /\ call'.outcome = "NoChange" /\ todo' = <<>>
      /\ freeList' = <<>> /\ tree' = EmptyTree
  BY DEF Forget, ForgetAllocator, Closed, Blank
<1>2. ~Splits' BY <1>1 DEF Splits
<1> QED BY <1>1, <1>2, CallIsAt DEF LeafVisited, LeafWritten

(* A crash.                                                                *)
LEMMA CrashAlone ==
  ASSUME OneLeaf, Crash
  PROVE  /\ Alone' /\ (DiskSame \/ DiskWritten) /\ call'.pc = "closed" /\ todo' = <<>>
         /\ call.pc # "closed" /\ tree' = EmptyTree
         /\ errors' = errors /\ crashes' = crashes + 1
<1> DEFINE c == Head(todo)
<1>1. /\ errors' = errors /\ crashes' = crashes + 1 /\ Forget /\ call.pc # "closed"
      /\ \/ UNCHANGED <<disk, header>>
         \/ todo # <<>> /\ ~Refused(c) /\ PerformHalf(c)
  BY DEF Crash
<1>2. /\ LeafVisited' /\ LeafWritten' /\ freeList' = <<>> /\ tree' = EmptyTree
      /\ call'.pc = "closed" /\ todo' = <<>>
  BY <1>1, ForgetAlone
<1>3. saved.free_blocks = <<>> BY DEF OneLeaf, Alone, LeafStored
<1>4. LeafStored' /\ (DiskSame \/ DiskWritten)
  <2>1. CASE UNCHANGED <<disk, header>> BY <1>2, <2>1, NothingIsWritten
  <2>2. CASE todo # <<>> /\ ~Refused(c) /\ PerformHalf(c) /\ Splits
    <3>1. c.do = "allocate" /\ ROOT_ID \in DOMAIN blocks BY <2>2, HeadAlone
    <3>2. WriteFile(FreshBlock, NewLeaf) /\ saved' = saved /\ header' = header
      BY <2>2, <3>1 DEF PerformHalf, HalfDone, AllocateBlockHalf, WriteHeader
    <3> QED BY <1>2, <1>3, <3>1, <3>2, OtherIsWritten
  <2>3. CASE todo # <<>> /\ ~Refused(c) /\ PerformHalf(c) /\ ~Splits
    <3>1. c.do = "save" BY <2>3, HeadAlone
    <3>2. WriteFile(c.id, c.node) /\ saved' = saved /\ WriteHeader(c)
      BY <2>3, <3>1 DEF PerformHalf, HalfDone, WriteBlockHalf
    <3> QED BY <1>2, <1>3, <2>3, <3>2, LeafIsWritten
  <2> QED BY <1>1, <2>1, <2>2, <2>3
<1> QED BY <1>1, <1>2, <1>4 DEF Alone

(* The handle is dropped.                                                  *)
LEMMA CloseAlone ==
  ASSUME OneLeaf, Close
  PROVE  /\ Alone' /\ DiskSame /\ call.pc = "idle" /\ call'.pc = "closed" /\ todo' = <<>>
         /\ tree' = EmptyTree /\ errors' = errors /\ crashes' = crashes
<1>1. /\ call.pc = "idle" /\ Forget /\ UNCHANGED <<disk, header>>
      /\ errors' = errors /\ crashes' = crashes
  BY DEF Close
<1> QED BY <1>1, ForgetAlone, NothingIsWritten DEF Alone

(* The tree is opened, or made.                                            *)
LEMMA OpenAlone ==
  ASSUME OneLeaf, Open
  PROVE  /\ Alone' /\ DiskSame /\ call.pc = "closed" /\ errors' = errors /\ crashes' = crashes
         /\ \/ ROOT_ID \in DOMAIN blocks /\ tree' = header /\ call'.pc = "idle" /\ todo' = <<>>
            \/ /\ ROOT_ID \notin DOMAIN blocks /\ tree' = EmptyTree /\ call'.pc = "opening"
               /\ ~header.root_exists /\ todo' = << Save(ROOT_ID, NewLeaf) >>
<1>1. /\ call.pc = "closed" /\ UNCHANGED <<disk, header>> /\ freeList' = saved.free_blocks
      /\ errors' = errors /\ crashes' = crashes
  BY DEF Open, OpenStorage, Load
<1>2. freeList' = <<>> BY <1>1 DEF OneLeaf, Alone, LeafStored
<1>3. LeafStored' /\ DiskSame BY <1>1, <1>2, NothingIsWritten
<1>4. header' = header BY <1>1
<1>5. CASE ROOT_ID \in DOMAIN blocks
  <2>1. tree' = header /\ call' = Blank /\ todo' = <<>>
    BY <1>1, <1>5 DEF Open, OneLeaf, IInv, InvIn, NothingPending
  <2>2. call'.pc = "idle" /\ call'.stack = <<>> /\ call'.outcome = "NoChange"
    BY <2>1 DEF Blank
  <2>3. ~Splits' BY <2>2 DEF Splits
  <2>4. LeafVisited' /\ LeafWritten' BY <2>1, <2>2, <2>3, CallIsAt DEF LeafVisited, LeafWritten
  <2> QED BY <1>1, <1>3, <1>5, <2>1, <2>2, <2>4 DEF Alone
<1>6. CASE ROOT_ID \notin DOMAIN blocks
  <2>1. /\ tree' = EmptyTree /\ call' = [ Blank EXCEPT !.pc = "opening" ]
        /\ todo' = << Save(ROOT_ID, NewLeaf) >>
    BY <1>6 DEF Open
  <2>2. call'.pc = "opening" /\ call'.stack = <<>> /\ call'.outcome = "NoChange"
    BY <2>1 DEF Blank
  <2>3. ~header.root_exists BY <1>6 DEF OneLeaf, Alone, LeafStored
  <2>4. ~Splits' BY <2>2 DEF Splits
  <2>5. ~tree'.root_exists BY <2>1 DEF EmptyTree
  <2>6. LeafVisited' BY <1>4, <2>2, <2>3, <2>5, CallIsAt DEF LeafVisited
  <2>7. \A i \in DOMAIN todo' : todo'[i] = Save(ROOT_ID, NewLeaf) BY <2>1
  <2>8. Lonely(NewLeaf) /\ Fits(ROOT_ID, NewLeaf) /\ NewLeaf.keys = <<>>
    BY SmallLeaves DEF OneLeaf
  <2>9. LeafWritten'
    <3> DEFINE n == NewLeaf
    <3>1. /\ Lonely(n) /\ Fits(ROOT_ID, n) /\ n.keys = <<>>
          /\ \A i \in DOMAIN todo' : todo'[i] = Save(ROOT_ID, n)
      BY <2>7, <2>8
    <3> HIDE DEF n
    <3> QED BY <2>2, <2>4, <3>1, CallIsAt DEF LeafWritten, WritesRoot, Save, ROOT_ID
  <2> QED BY <1>1, <1>3, <1>6, <2>1, <2>2, <2>3, <2>6, <2>9 DEF Alone
<1> QED BY <1>5, <1>6

-----------------------------------------------------------------------------
(* A call has all of its effect or none.                                   *)
Whole == OneLeaf /\ AllOrNothing /\ HistoryNext /\ IsFiniteSet(DOMAIN blocks)

(* What is known while a call runs.                                        *)
LEMMA WithinWhole ==
  ASSUME Whole, call.pc \notin Waiting
  PROVE  /\ last = call.req /\ last # NoRequest /\ call.req \in Request
         /\ ROOT_ID \in DOMAIN blocks /\ call \in Calls
         /\ NoFaults \/ call.pc # "return" => Shows \in Outcomes
         /\ call.pc \in {"start", "descend"} => Shows = before
         /\ NoFaults \/ call.pc \in Undoing => Held(Root) \in Outcomes
         /\ NoFaults /\ (todo = <<>> \/ call.pc # "return") => tree.root_exists = header.root_exists
         /\ call.pc # "return" => before' = before /\ last' = last /\ Outcomes' = Outcomes
<1>1. last = call.req /\ last # NoRequest /\ ROOT_ID \in DOMAIN blocks
  BY DEF Whole, AllOrNothing, Remembering
<1>2. call.req \in Request /\ call \in Calls BY <1>1, Running DEF Whole, OneLeaf
<1>3. call.pc # "return" => before' = before /\ last' = last
  BY CallIsAt DEF Whole, HistoryNext, Begins, Returns
<1>4. call.pc # "return" => Outcomes' = Outcomes BY <1>3 DEF Outcomes
<1> QED BY <1>1, <1>2, <1>3, <1>4, CallIsAt DEF Whole, AllOrNothing, HandleRight, DiskRight

(* What a handler has to leave.                                            *)
LEMMA HandlerWhole ==
  ASSUME Whole, NoStorageCall, call.pc \notin Waiting \cup {"return"},
         call'.pc = "idle" \/ (call'.pc \notin Waiting /\ call'.req = call.req),
         NoFaults \/ call'.pc # "return" => View(tree'.root_exists, Root) \in Outcomes,
         call'.pc \in {"start", "descend"} => View(tree'.root_exists, Root) = before,
         ~Splits' => \A i \in DOMAIN todo' : View(tree'.root_exists, todo'[i].node) \in Outcomes,
         NoFaults /\ (todo' = <<>> \/ call'.pc # "return") => tree'.root_exists = header.root_exists,
         call'.pc \in Undoing \cup {"idle"} => call.pc \in Undoing,
         NoFaults /\ call'.pc \in Undoing => tree'.root_exists
  PROVE  AllOrNothing'
<1>1. /\ last = call.req /\ last # NoRequest /\ ROOT_ID \in DOMAIN blocks
      /\ NoFaults \/ call.pc \in Undoing => Held(Root) \in Outcomes
      /\ before' = before /\ last' = last /\ Outcomes' = Outcomes
  BY WithinWhole
<1>2. /\ blocks' = blocks /\ header' = header /\ (NoFaults' <=> NoFaults)
  BY DEF NoStorageCall, NoFaults
<1>3. Root' = Root BY <1>2 DEF Root, ROOT_ID
<1>4. call'.pc # "opening" BY CallIsAt
<1>5. Remembering' BY <1>1, <1>2, <1>4, CallIsAt DEF Remembering, ROOT_ID, NoRequest
<1>6. Shows' = View(tree'.root_exists, Root) BY <1>3 DEF Shows
<1>7. HandleRight' BY <1>1, <1>2, <1>6, CallIsAt DEF HandleRight
<1>8. Held(Root)' = Held(Root) BY <1>3
<1>9. DiskRight' BY <1>1, <1>2, <1>4, <1>8, CallIsAt DEF DiskRight
<1> QED BY <1>5, <1>7, <1>9 DEF AllOrNothing

(* Handlers that change nothing yet.                                       *)
LEMMA QuietWhole ==
  ASSUME Whole, NoStorageCall, call.pc \notin Waiting \cup {"return"},
         call'.pc \notin Waiting \cup Undoing \/ (call'.pc = "idle" /\ call.pc \in Undoing),
         call'.pc \notin Waiting => call'.req = call.req,
         tree'.root_exists = tree.root_exists, todo' = <<>>,
         call'.pc \in {"start", "descend"} => call.pc \in {"start", "descend"}
  PROVE  AllOrNothing'
<1>1. View(tree'.root_exists, Root) = Shows BY DEF Shows
<1>2. /\ Shows \in Outcomes /\ (call.pc \in {"start", "descend"} => Shows = before)
      /\ NoFaults => tree.root_exists = header.root_exists
  BY WithinWhole
<1>3. ~(call'.pc \in Undoing) BY CallIsAt
<1>4. \A i \in DOMAIN todo' : View(tree'.root_exists, todo'[i].node) \in Outcomes OBVIOUS
<1>5. call'.pc = "idle" \/ (call'.pc \notin Waiting /\ call'.req = call.req) OBVIOUS
<1>6. call'.pc \in Undoing \cup {"idle"} => call.pc \in Undoing BY <1>3, CallIsAt
<1> HIDE DEF Whole
<1> QED BY <1>1, <1>2, <1>3, <1>4, <1>5, <1>6, HandlerWhole

(* Calls that change nothing.                                              *)
LEMMA ReadsWhole ==
  ASSUME Whole, GetFromLeaf \/ ScanLeaf \/ UpdateMissing \/ DeleteNothing
  PROVE  AllOrNothing'
<1>1. /\ NoStorageCall /\ tree' = tree /\ todo' = <<>> /\ call'.pc = "return"
      /\ call'.req = call.req /\ call.pc \in {"descend", "delete_up"}
  BY ReadsAlone DEF Whole
<1> QED BY <1>1, QuietWhole, CallIsAt

(* A call starts at the leaf.                                              *)
LEMMA StartOnTreeWhole == ASSUME Whole, StartOnTree PROVE AllOrNothing'
<1>1. /\ call.pc = "start" /\ todo' = <<>> /\ tree' = tree /\ NoStorageCall
      /\ call' = [ call EXCEPT !.pc = IF call.req.op = "clear" THEN "clear" ELSE "descend",
                               !.at = ROOT_ID ]
  BY DEF StartOnTree, Runs
<1>2. call \in Calls BY Running DEF Whole, OneLeaf
<1>3. call'.pc \in {"clear", "descend"} /\ call'.req = call.req BY <1>1, <1>2 DEF Calls, CallsIn
<1> QED BY <1>1, <1>3, QuietWhole, CallIsAt

LEMMA RolledBackWhole == ASSUME Whole, RolledBack PROVE AllOrNothing'
<1>1. /\ call.pc = "rolled_back" /\ todo' = <<>> /\ tree' = tree /\ NoStorageCall
      /\ call'.pc = "idle"
  BY DEF RolledBack, Runs, Blank
<1> QED BY <1>1, QuietWhole, CallIsAt

LEMMA CountDeletedWhole == ASSUME Whole, CountDeleted PROVE AllOrNothing'
<1>1. /\ NoStorageCall /\ call'.pc = "root_underflow" /\ call'.req = call.req
      /\ call.pc = "delete_up" /\ todo' = <<>> /\ tree.root_exists /\ tree'.root_exists
  BY CountDeletedAlone DEF Whole
<1>2. tree.root_exists \in BOOLEAN /\ tree'.root_exists \in BOOLEAN
  <2>1. tree \in Metadata BY Running DEF Whole, OneLeaf
  <2>2. tree' = [ tree EXCEPT !.entry_count = (@ - 1) % CountWidth ]
    BY CountDeletedAlone DEF Whole
  <2> QED BY <2>1, <2>2 DEF Metadata
<1>3. tree'.root_exists = tree.root_exists BY <1>1, <1>2
<1> QED BY <1>1, <1>3, QuietWhole, CallIsAt

LEMMA ClearLeafWhole == ASSUME Whole, ClearLeaf PROVE AllOrNothing'
<1>1. /\ NoStorageCall /\ tree' = tree /\ todo' = <<>> /\ call.pc = "clear"
      /\ call'.pc = "clear_up" /\ call'.req = call.req
  BY ClearLeafAlone DEF Whole
<1> QED BY <1>1, QuietWhole, CallIsAt

(* Handlers that have the leaf written.                                    *)
LEMMA InsertIntoLeafWhole == ASSUME Whole, InsertIntoLeaf PROVE AllOrNothing'
<1> DEFINE n == InsertLeaf(Root, call.req.key, call.req.val)
<1>1. /\ NoStorageCall /\ tree' = tree /\ call'.pc = "insert_up"
      /\ call.req \in Request /\ call.req.op \in {"upsert", "update"}
      /\ call.req.op = "update" => HasKey(Root, call.req.key)
      /\ call'.req = call.req /\ todo' # <<>>
      /\ ~Splits' => todo' = << Save(ROOT_ID, n) >>
  BY InsertIntoLeafAlone DEF Whole
<1>2. call.pc = "descend" /\ tree.root_exists /\ ROOT_ID \in DOMAIN blocks
  BY AtTheLeaf DEF InsertIntoLeaf, AtLeaf, Whole
<1>3. /\ last = call.req /\ Shows \in Outcomes /\ Shows = before
      /\ NoFaults => tree.root_exists = header.root_exists
  BY <1>2, WithinWhole, CallIsAt
<1>4. Shows = Held(Root) BY <1>2 DEF Shows, View
<1>5. Held(n) = After(Held(Root), call.req) BY <1>1, <1>2, TheLeaf, HeldInsert DEF Whole
<1>6. Held(n) \in Outcomes BY <1>3, <1>4, <1>5 DEF Outcomes
<1>7. View(tree'.root_exists, n) = Held(n) /\ View(tree'.root_exists, Root) = Shows
  BY <1>1, <1>2 DEF View, Shows
<1> HIDE DEF n
<1>8. ~Splits' => \A i \in DOMAIN todo' : todo'[i].node = n BY <1>1 DEF Save
<1> QED BY <1>1, <1>2, <1>3, <1>6, <1>7, <1>8, HandlerWhole, CallIsAt

LEMMA DeleteFromLeafWhole == ASSUME Whole, DeleteFromLeaf PROVE AllOrNothing'
<1> DEFINE n == RemoveLeaf(Root, call.req.key)
<1>1. /\ NoStorageCall /\ tree' = tree /\ call'.pc = "delete_up"
      /\ call.pc = "descend" /\ ROOT_ID \in DOMAIN blocks /\ tree.root_exists
      /\ call.req \in Request /\ call.req.op \in {"delete", "delete_safe"}
      /\ call'.req = call.req
      /\ \/ HasKey(Root, call.req.key) /\ todo' = << Save(ROOT_ID, n) >>
         \/ todo' = <<>>
  BY DeleteFromLeafAlone DEF Whole
<1>2. CASE todo' = <<>> BY <1>1, <1>2, QuietWhole, CallIsAt
<1>3. CASE HasKey(Root, call.req.key) /\ todo' = << Save(ROOT_ID, n) >>
  <2>1. /\ last = call.req /\ Shows \in Outcomes /\ Shows = before
        /\ NoFaults => tree.root_exists = header.root_exists
    BY <1>1, WithinWhole, CallIsAt
  <2>2. Shows = Held(Root) BY <1>1 DEF Shows, View
  <2>3. Held(n) = After(Held(Root), call.req) BY <1>1, <1>3, TheLeaf, HeldRemove DEF Whole
  <2>4. Held(n) \in Outcomes BY <2>1, <2>2, <2>3 DEF Outcomes
  <2>5. View(tree'.root_exists, n) = Held(n) /\ View(tree'.root_exists, Root) = Shows
    BY <1>1 DEF View, Shows
  <2>6. todo' # <<>> BY <1>3
  <2> HIDE DEF n
  <2>7. \A i \in DOMAIN todo' : todo'[i].node = n BY <1>3 DEF Save
  <2> QED BY <1>1, <2>1, <2>4, <2>5, <2>6, <2>7, HandlerWhole, CallIsAt
<1> QED BY <1>1, <1>2, <1>3

LEMMA FinishInsertWhole == ASSUME Whole, FinishInsert PROVE AllOrNothing'
<1>1. /\ NoStorageCall /\ call'.pc = "return" /\ call'.req = call.req
      /\ call.pc = "insert_up" /\ todo' = << Save(ROOT_ID, Root) >>
      /\ tree.root_exists /\ tree'.root_exists
  BY FinishInsertAlone DEF Whole
<1>2. Shows \in Outcomes BY <1>1, WithinWhole, CallIsAt
<1>3. View(tree'.root_exists, Root) = Shows BY <1>1 DEF View, Shows
<1> DEFINE n == Root
<1>4. View(tree'.root_exists, n) \in Outcomes /\ todo' = << Save(ROOT_ID, n) >>
  BY <1>1, <1>2, <1>3
<1> HIDE DEF n
<1>5. todo' # <<>> /\ \A i \in DOMAIN todo' : View(tree'.root_exists, todo'[i].node) \in Outcomes
  BY <1>4 DEF Save
<1> QED BY <1>1, <1>2, <1>3, <1>5, HandlerWhole, CallIsAt

LEMMA FinishDeleteWhole == ASSUME Whole, FinishDelete PROVE AllOrNothing'
<1>1. /\ NoStorageCall /\ call'.pc = "return" /\ call'.req = call.req
      /\ call.pc = "root_underflow" /\ tree.root_exists /\ todo' # <<>>
      /\ \/ /\ Root.keys = <<>> /\ tree' = EmptyTree
            /\ \A i \in DOMAIN todo' : todo'[i].node = NewLeaf
         \/ /\ tree' = tree /\ \A i \in DOMAIN todo' : todo'[i].node = Root
  BY FinishDeleteAlone DEF Whole
<1>2. Shows \in Outcomes BY <1>1, WithinWhole, CallIsAt
<1>3. Shows = Held(Root) BY <1>1 DEF View, Shows
<1>4. /\ View(tree'.root_exists, Root) \in Outcomes
      /\ \A i \in DOMAIN todo' : View(tree'.root_exists, todo'[i].node) \in Outcomes
  <2>1. CASE Root.keys = <<>> /\ tree' = EmptyTree
    <3>1. Held(Root) = Nothing BY <2>1, HeldNothing
    <3>2. \A x : View(tree'.root_exists, x) = Nothing BY <2>1 DEF View, EmptyTree
    <3> QED BY <1>2, <1>3, <3>1, <3>2
  <2>2. CASE tree' = tree /\ \A i \in DOMAIN todo' : todo'[i].node = Root
    <3>1. View(tree'.root_exists, Root) = Shows BY <2>2 DEF Shows
    <3> QED BY <1>2, <2>2, <3>1
  <2> QED BY <1>1, <2>1, <2>2
<1> QED BY <1>1, <1>4, HandlerWhole, CallIsAt

LEMMA FinishClearWhole == ASSUME Whole, FinishClear PROVE AllOrNothing'
<1>1. /\ NoStorageCall /\ call'.pc = "return" /\ call'.req = call.req
      /\ call.pc = "clear_up" /\ call.req.op = "clear"
      /\ tree' = EmptyTree /\ todo' = << Save(ROOT_ID, NewLeaf) >>
  BY FinishClearAlone DEF Whole
<1>2. last = call.req BY <1>1, WithinWhole, CallIsAt
<1>3. After(before, last) = Nothing BY <1>1, <1>2 DEF After, ValueAfter, Nothing
<1>4. \A x : View(tree'.root_exists, x) = Nothing BY <1>1 DEF View, EmptyTree
<1>5. Nothing \in Outcomes BY <1>3 DEF Outcomes
<1>6. todo' # <<>> BY <1>1
<1> QED BY <1>1, <1>4, <1>5, <1>6, HandlerWhole, CallIsAt

LEMMA RollbackWhole == ASSUME Whole, Rollback PROVE AllOrNothing'
<1>1. /\ NoStorageCall /\ call'.pc = "rolled_back" /\ call'.req = call.req
      /\ call.pc = "rollback" /\ tree'.root_exists /\ todo' = << Save(ROOT_ID, Root) >>
      /\ tree' = call.orig
  BY RollbackAlone DEF Whole
<1>2. /\ Held(Root) \in Outcomes
      /\ NoFaults => tree.root_exists = header.root_exists
  BY <1>1, WithinWhole, CallIsAt
<1>3. NoFaults => tree.root_exists
  BY <1>1, CallIsAt DEF Whole, AllOrNothing, DiskRight
<1>4. tree \in Metadata /\ call.orig \in Metadata BY Running DEF Whole, OneLeaf
<1>5. NoFaults => tree'.root_exists = header.root_exists BY <1>1, <1>2, <1>3, <1>4 DEF Metadata
<1> DEFINE n == Root
<1>6. View(tree'.root_exists, n) \in Outcomes /\ todo' = << Save(ROOT_ID, n) >>
      /\ View(tree'.root_exists, Root) \in Outcomes
  BY <1>1, <1>2 DEF View
<1> HIDE DEF n
<1>7. todo' # <<>> /\ \A i \in DOMAIN todo' : View(tree'.root_exists, todo'[i].node) \in Outcomes
  BY <1>6 DEF Save
<1> QED BY <1>1, <1>5, <1>6, <1>7, HandlerWhole, CallIsAt

LEMMA StartOnEmptyTreeWhole == ASSUME Whole, StartOnEmptyTree PROVE AllOrNothing'
<1>1. /\ call.pc = "start" /\ todo = <<>> /\ ~tree.root_exists /\ NoStorageCall
      /\ call' = Answer(call.answer)
  BY DEF StartOnEmptyTree, Runs
<1>2. /\ last = call.req /\ Shows \in Outcomes /\ Shows = before /\ call \in Calls
      /\ NoFaults => Held(Root) \in Outcomes
      /\ call.req \in Request /\ ROOT_ID \in DOMAIN blocks
  BY <1>1, WithinWhole, CallIsAt
<1>3. call'.pc = "return" /\ call'.req = call.req BY <1>1, <1>2 DEF Answer, Calls, CallsIn
<1>4. CASE call.req.op = "upsert"
  <2> DEFINE n == InsertLeaf(NewLeaf, call.req.key, call.req.val)
  <2>1. tree'.root_exists /\ todo' = << Save(ROOT_ID, n) >> BY <1>4 DEF StartOnEmptyTree
  <2>2. NewLeaf \in WellShaped /\ Lonely(NewLeaf) /\ Held(NewLeaf) = Nothing
    BY SmallLeaves DEF Whole, OneLeaf
  <2>3. Held(n) = After(Held(NewLeaf), call.req) BY <1>2, <1>4, <2>2, HeldInsert
  <2>4. before = Nothing BY <1>1, <1>2 DEF Shows, View
  <2>5. Held(n) \in Outcomes BY <1>2, <2>2, <2>3, <2>4 DEF Outcomes
  <2> HIDE DEF n
  <2>6. todo' # <<>> /\ \A i \in DOMAIN todo' : todo'[i].node = n BY <2>1 DEF Save
  <2>7. \A x : View(tree'.root_exists, x) = Held(x) BY <2>1 DEF View
  <2> QED BY <1>1, <1>2, <1>3, <2>5, <2>6, <2>7, HandlerWhole, CallIsAt
<1>5. CASE call.req.op # "upsert"
  <2>1. tree' = tree /\ todo' = <<>> BY <1>1, <1>5 DEF StartOnEmptyTree
  <2> QED BY <1>1, <1>3, <2>1, QuietWhole, CallIsAt
<1> QED BY <1>4, <1>5

-----------------------------------------------------------------------------
(* Calls begin and end.                                                    *)

(* Where no call is running, all that matters is what it left behind.      *)
LEMMA OutsideWhole ==
  ASSUME call'.pc \in Waiting, todo' = <<>> \/ call'.pc = "opening",
         last' # NoRequest => ROOT_ID \in DOMAIN blocks' /\ Held(Root)' \in Outcomes',
         last' # NoRequest /\ call'.pc = "idle" => Shows' \in Outcomes',
         call'.pc = "opening" => last' = NoRequest,
         NoFaults' /\ call'.pc # "closed" => tree'.root_exists = header'.root_exists
  PROVE  AllOrNothing'
<1>1. Remembering' BY CallIsAt DEF Remembering, ROOT_ID, NoRequest
<1>2. HandleRight' BY CallIsAt DEF HandleRight, NoRequest
<1>3. DiskRight' BY CallIsAt DEF DiskRight, NoRequest
<1> QED BY <1>1, <1>2, <1>3 DEF AllOrNothing

(* The tree is open; a call returns.                                       *)
LEMMA OpenedWhole == ASSUME Whole, Opened PROVE AllOrNothing'
<1>1. /\ call.pc = "opening" /\ call'.pc = "idle" /\ todo = <<>> /\ todo' = <<>> /\ tree' = tree
      /\ header' = header /\ (NoFaults' <=> NoFaults)
  BY DEF Opened, Runs, Blank, NoStorageCall, NoFaults
<1>2. last = NoRequest /\ last' = last
  BY <1>1 DEF Whole, AllOrNothing, Remembering, HistoryNext, Begins, Returns
<1>3. NoFaults => tree.root_exists = header.root_exists
  BY <1>1 DEF Whole, AllOrNothing, DiskRight
<1> QED BY <1>1, <1>2, <1>3, OutsideWhole, CallIsAt

LEMMA ReturnWhole == ASSUME Whole, Return PROVE AllOrNothing'
<1>1. /\ call.pc = "return" /\ call'.pc = "idle" /\ todo = <<>> /\ todo' = <<>> /\ tree' = tree
      /\ header' = header /\ (NoFaults' <=> NoFaults)
  BY DEF Return, Runs, Blank, NoStorageCall, NoFaults
<1>2. last' = NoRequest BY <1>1 DEF Whole, HistoryNext, Begins, Returns
<1>3. NoFaults => tree.root_exists = header.root_exists
  BY <1>1, WithinWhole, CallIsAt
<1> QED BY <1>1, <1>2, <1>3, OutsideWhole, CallIsAt

(* A call begins with what the client sees.                                *)
LEMMA InvokeWhole == ASSUME Whole, NEW r \in Requests, Invoke(r) PROVE AllOrNothing'
<1>1. /\ call.pc = "idle" /\ call'.pc = "start" /\ call'.req = r /\ tree' = tree /\ todo' = todo
      /\ blocks' = blocks /\ header' = header /\ (NoFaults' <=> NoFaults)
  BY DEF Invoke, Blank, NoStorageCall, NoFaults
<1>2. todo = <<>> /\ ROOT_ID \in DOMAIN blocks
  BY <1>1, Running DEF Whole, OneLeaf, IInv, InvIn, NothingPending
<1>3. before' = Visible /\ last' = r BY <1>1 DEF Whole, HistoryNext, Begins
<1>4. Visible = Shows
  <2>1. Visible = Holds(tree.root_exists) BY <1>1 DEF Visible
  <2>2. IsLeaf(Root) /\ \A b \in DOMAIN blocks : blocks[b] \in WellShaped
    BY <1>2, TheLeaf, Running DEF Whole, OneLeaf, StorageTypeOK, StorageTypeIn
  <2> QED BY <1>2, <2>1, <2>2, SeenAlone DEF Whole, Shows
<1>5. r # NoRequest BY RequestsAssumption DEF Request, NoRequest
<1>6. Root' = Root BY <1>1 DEF Root, ROOT_ID
<1>7. Shows' = Shows BY <1>1, <1>6 DEF Shows
<1>8. before' \in Outcomes' BY DEF Outcomes
<1>9. NoFaults => tree.root_exists = header.root_exists
  BY <1>1, <1>2 DEF Whole, AllOrNothing, DiskRight
<1>10. NoFaults => Held(Root) = Shows
  <2>1. CASE tree.root_exists BY <2>1 DEF Shows, View
  <2>2. CASE NoFaults /\ ~tree.root_exists
    <3>1. Root.keys = <<>> BY <1>2, <1>9, <2>2 DEF Whole, OneLeaf, Alone, LeafStored
    <3> QED BY <2>2, <3>1, HeldNothing DEF Shows, View
  <2> QED BY <2>1, <2>2
<1>11. Remembering' BY <1>1, <1>2, <1>3, <1>5, CallIsAt DEF Remembering, ROOT_ID, NoRequest
<1>12. HandleRight'
  BY <1>1, <1>2, <1>3, <1>4, <1>7, <1>8, CallIsAt DEF HandleRight
<1>13. Held(Root)' = Held(Root) BY <1>6
<1>14. DiskRight'
  BY <1>1, <1>2, <1>3, <1>4, <1>8, <1>9, <1>10, <1>13, CallIsAt DEF DiskRight
<1> QED BY <1>11, <1>12, <1>14 DEF AllOrNothing

(* A handle of the tree shows what the tree has.                           *)
LEMMA SameWithoutRoot ==
  ASSUME OneLeaf, ROOT_ID \in DOMAIN blocks
  PROVE  View(header.root_exists, Root) = Held(Root)
<1>1. CASE header.root_exists BY <1>1 DEF View
<1>2. CASE ~header.root_exists
  <2>1. Root.keys = <<>> BY <1>2 DEF OneLeaf, Alone, LeafStored
  <2> QED BY <1>2, <2>1, HeldNothing DEF View
<1> QED BY <1>1, <1>2

(* The tree is opened, in whatever state it is on disk.                    *)
LEMMA OpenWhole == ASSUME Whole, Open PROVE AllOrNothing'
<1>1. /\ DiskSame /\ call.pc = "closed" /\ errors' = errors /\ crashes' = crashes
      /\ \/ ROOT_ID \in DOMAIN blocks /\ tree' = header /\ call'.pc = "idle" /\ todo' = <<>>
         \/ /\ ROOT_ID \notin DOMAIN blocks /\ tree' = EmptyTree /\ call'.pc = "opening"
            /\ ~header.root_exists /\ todo' = << Save(ROOT_ID, NewLeaf) >>
  BY OpenAlone DEF Whole
<1>2. before' = before /\ last' = last /\ Outcomes' = Outcomes
  BY <1>1 DEF Whole, HistoryNext, Begins, Returns, Outcomes
<1>3. last # NoRequest => ROOT_ID \in DOMAIN blocks /\ Held(Root) \in Outcomes
  BY <1>1, CallIsAt DEF Whole, AllOrNothing, Remembering, DiskRight
<1>4. Root' = Root /\ header' = header BY <1>1 DEF DiskSame
<1>5. Held(Root)' = Held(Root) BY <1>4
<1>6. CASE ROOT_ID \in DOMAIN blocks
  <2>1. tree' = header /\ call'.pc = "idle" /\ todo' = <<>> BY <1>1, <1>6
  <2>2. Shows' = Held(Root) BY <1>4, <1>6, <2>1, SameWithoutRoot DEF Shows, Whole
  <2>3. ROOT_ID \in DOMAIN blocks' BY <1>1, <1>6 DEF DiskSame
  <2> QED BY <1>2, <1>3, <1>4, <1>5, <2>1, <2>2, <2>3, OutsideWhole, CallIsAt
<1>7. CASE ROOT_ID \notin DOMAIN blocks
  <2>1. tree' = EmptyTree /\ call'.pc = "opening" /\ ~header.root_exists BY <1>1, <1>7
  <2>2. last' = NoRequest BY <1>2, <1>3, <1>7
  <2>3. header \in Metadata BY Running DEF Whole, OneLeaf
  <2>4. tree'.root_exists = header.root_exists BY <2>1, <2>3 DEF EmptyTree, Metadata
  <2> QED BY <1>4, <2>1, <2>2, <2>4, OutsideWhole, CallIsAt
<1> QED BY <1>6, <1>7

LEMMA CloseWhole == ASSUME Whole, Close PROVE AllOrNothing'
<1>1. DiskSame /\ call.pc = "idle" /\ call'.pc = "closed" /\ todo' = <<>>
  BY CloseAlone DEF Whole
<1>2. before' = before /\ last' = last /\ Outcomes' = Outcomes
  BY <1>1 DEF Whole, HistoryNext, Begins, Returns, Outcomes
<1>3. last # NoRequest => ROOT_ID \in DOMAIN blocks /\ Held(Root) \in Outcomes
  BY <1>1, CallIsAt DEF Whole, AllOrNothing, Remembering, DiskRight
<1>4. Root' = Root /\ (ROOT_ID \in DOMAIN blocks' <=> ROOT_ID \in DOMAIN blocks)
  BY <1>1 DEF DiskSame
<1>5. Held(Root)' = Held(Root) BY <1>4
<1> QED BY <1>1, <1>2, <1>3, <1>4, <1>5, OutsideWhole, CallIsAt

-----------------------------------------------------------------------------
(* Storage calls and failures.                                             *)

(* A leaf that is written holds what it shows.                             *)
LEMMA WrittenHolds ==
  ASSUME Whole, DiskWritten, call.pc \notin Waiting
  PROVE  /\ Held(Root') \in Outcomes /\ View(tree.root_exists, Root') = Held(Root')
<1> DEFINE n == Head(todo).node
<1>1. Root' = n /\ 1 \in DOMAIN todo /\ todo[1].node = n /\ ~Splits
  BY DEF DiskWritten
<1>2. View(tree.root_exists, todo[1].node) \in Outcomes
  BY <1>1 DEF Whole, AllOrNothing, HandleRight
<1>3. ~tree.root_exists => n.keys = <<>> BY DEF DiskWritten, WritesRoot
<1> HIDE DEF n
<1>4. View(tree.root_exists, n) = Held(n)
  <2>1. CASE tree.root_exists BY <2>1 DEF View
  <2>2. CASE ~tree.root_exists BY <1>3, <2>2, HeldNothing DEF View
  <2> QED BY <2>1, <2>2
<1> QED BY <1>1, <1>2, <1>4

(* The leaf has been written.                                              *)
LEMMA StorageCallWhole ==
  ASSUME Whole, StorageCall, saved'.next_block_id = 2
  PROVE  AllOrNothing'
<1>1. DiskWritten BY StorageCallAlone DEF Whole
<1>2. /\ todo # <<>> /\ todo' = Tail(todo) /\ tree' = tree /\ call' = call
      /\ (NoFaults' <=> NoFaults)
  BY DEF StorageCall, NoFaults
<1>3. before' = before /\ last' = last /\ Outcomes' = Outcomes
  <2>1. ~Begins /\ ~Returns BY <1>2 DEF Begins, Returns
  <2> QED BY <2>1 DEF Whole, HistoryNext, Outcomes
<1>4. header' = tree /\ ROOT_ID \in DOMAIN blocks' /\ ~Splits BY <1>1 DEF DiskWritten
<1>5. call.pc \in Writing \cup {"opening", "return", "rolled_back"}
  BY <1>2 DEF Whole, OneLeaf, Alone, LeafWritten
<1>6. todo \in Seq(StorageCalls) BY Running DEF Whole, OneLeaf
<1>7. \A i \in DOMAIN todo' : i + 1 \in DOMAIN todo /\ todo'[i] = todo[i + 1]
  BY <1>2, <1>6, FirstAndRest
<1>8. CASE call.pc = "opening"
  <2>1. last = NoRequest BY <1>8 DEF Whole, AllOrNothing, Remembering
  <2> QED BY <1>2, <1>3, <1>4, <1>8, <2>1, OutsideWhole, CallIsAt
<1>9. CASE call.pc # "opening"
  <2>1. call.pc \notin Waiting BY <1>5, <1>9, CallIsAt
  <2>2. Held(Root') \in Outcomes /\ View(tree.root_exists, Root') = Held(Root')
    BY <1>1, <2>1, WrittenHolds
  <2>3. Shows' = Held(Root') BY <1>2, <2>2 DEF Shows
  <2>4. ~Splits' BY <1>2, <1>4 DEF Splits, NoSplit, NoBlock
  <2>5. \A i \in DOMAIN todo' : View(tree.root_exists, todo'[i].node) \in Outcomes
    BY <1>4, <1>7, <2>1 DEF Whole, AllOrNothing, HandleRight
  <2>6. last = call.req /\ last # NoRequest BY <2>1, WithinWhole
  <2>7. Remembering' BY <1>2, <1>3, <1>4, <1>9, <2>6 DEF Remembering, ROOT_ID, NoRequest
  <2>8. HandleRight'
    BY <1>2, <1>3, <1>5, <2>1, <2>2, <2>3, <2>4, <2>5, CallIsAt DEF HandleRight
  <2>9. NoFaults /\ call.pc \in Undoing => tree.root_exists
    BY DEF Whole, AllOrNothing, DiskRight
  <2>10. DiskRight'
    <3>1. Held(Root)' = Held(Root') OBVIOUS
    <3> QED BY <1>2, <1>3, <1>4, <2>2, <2>9, <3>1 DEF DiskRight
  <2> QED BY <2>7, <2>8, <2>10 DEF AllOrNothing
<1> QED BY <1>8, <1>9

(* What a failure of a call leaves on disk.                                *)
LEMMA LeftOnDisk ==
  ASSUME Whole, NoFaults, DiskSame \/ DiskWritten, call.pc # "opening"
  PROVE  /\ last # NoRequest => ROOT_ID \in DOMAIN blocks' /\ Held(Root') \in Outcomes
         /\ call.pc \notin Waiting => View(tree.root_exists, Root') \in Outcomes
<1>1. CASE DiskSame
  <2>1. Root' = Root /\ (ROOT_ID \in DOMAIN blocks' <=> ROOT_ID \in DOMAIN blocks)
    BY <1>1 DEF DiskSame
  <2>2. last # NoRequest => ROOT_ID \in DOMAIN blocks /\ Held(Root) \in Outcomes
    BY DEF Whole, AllOrNothing, Remembering, DiskRight
  <2>3. call.pc \notin Waiting => Shows \in Outcomes BY WithinWhole
  <2> QED BY <2>1, <2>2, <2>3 DEF Shows
<1>2. CASE DiskWritten
  <2>1. todo # <<>> /\ ROOT_ID \in DOMAIN blocks' BY <1>2 DEF DiskWritten
  <2>2. call.pc \notin Waiting
    BY <2>1, CallIsAt DEF Whole, OneLeaf, Alone, LeafWritten
  <2>3. Held(Root') \in Outcomes /\ View(tree.root_exists, Root') = Held(Root')
    BY <1>2, <2>2, WrittenHolds
  <2> QED BY <2>1, <2>3
<1> QED BY <1>1, <1>2

(* An I/O error, a crash, and a leaf that is too long.                     *)
LEMMA StorageFailsWhole ==
  ASSUME Whole, NoFaults, StorageFails
  PROVE  AllOrNothing'
<1>1. /\ DiskSame \/ DiskWritten
      /\ Abandon /\ (todo # <<>> \/ Loaded # {}) /\ ~NoFaults'
  BY StorageFailsAlone DEF Whole, NoFaults
<1>2. /\ todo' = <<>> /\ tree' = tree /\ call.pc \notin {"closed", "idle"}
      /\ \/ call.pc = "opening" /\ call'.pc = "closed"
         \/ /\ call.pc # "opening" /\ call'.pc = "rollback" /\ call'.req = call.req
            /\ call.pc \in InTree \cup {"return"}
         \/ call.pc # "opening" /\ call'.pc = "idle"
  BY <1>1, AbandonAlone DEF Whole
<1>3. before' = before /\ last' = last /\ Outcomes' = Outcomes
  <2>1. ~Begins BY <1>2 DEF Begins
  <2>2. ~Returns
    <3>1. call.pc = "return" /\ todo = <<>> => Loaded = {} BY DEF Loaded
    <3> QED BY <1>1, <3>1 DEF Returns
  <2> QED BY <2>1, <2>2 DEF Whole, HistoryNext, Outcomes
<1>4. CASE call.pc = "opening"
  <2>1. last = NoRequest BY <1>4 DEF Whole, AllOrNothing, Remembering
  <2> QED BY <1>1, <1>2, <1>3, <1>4, <2>1, OutsideWhole, CallIsAt
<1>5. CASE call.pc # "opening"
  <2>1. call.pc \notin Waiting BY <1>2, <1>5, CallIsAt
  <2>2. /\ ROOT_ID \in DOMAIN blocks' /\ Held(Root') \in Outcomes
        /\ View(tree.root_exists, Root') \in Outcomes /\ last = call.req /\ last # NoRequest
    BY <1>1, <1>5, <2>1, LeftOnDisk, WithinWhole
  <2>3. Shows' \in Outcomes' BY <1>2, <1>3, <2>2 DEF Shows
  <2>4. CASE call'.pc = "idle"
    BY <1>1, <1>2, <1>3, <2>2, <2>3, <2>4, OutsideWhole, CallIsAt
  <2>5. CASE call'.pc = "rollback"
    <3>1. call'.req = call.req BY <1>2, <1>5, <2>5
    <3>2. Remembering' BY <1>3, <2>2, <2>5, <3>1 DEF Remembering, ROOT_ID, NoRequest
    <3>3. HandleRight' BY <1>2, <2>3, <2>5, CallIsAt DEF HandleRight
    <3>4. DiskRight'
      <4>1. Held(Root)' = Held(Root') OBVIOUS
      <4> QED BY <1>1, <1>3, <2>2, <4>1 DEF DiskRight
    <3> QED BY <3>2, <3>3, <3>4 DEF AllOrNothing
  <2> QED BY <1>2, <1>5, <2>4, <2>5
<1> QED BY <1>4, <1>5

LEMMA CrashWhole ==
  ASSUME Whole, NoFaults, Crash
  PROVE  AllOrNothing'
<1>1. /\ DiskSame \/ DiskWritten
      /\ call'.pc = "closed" /\ todo' = <<>> /\ ~NoFaults' /\ call.pc # "closed"
  BY CrashAlone DEF Whole, NoFaults
<1>2. before' = before /\ last' = last /\ Outcomes' = Outcomes
  BY <1>1 DEF Whole, HistoryNext, Begins, Returns, Outcomes
<1>3. last # NoRequest => ROOT_ID \in DOMAIN blocks' /\ Held(Root') \in Outcomes
  <2>1. call.pc = "opening" => last = NoRequest BY DEF Whole, AllOrNothing, Remembering
  <2> QED BY <1>1, <2>1, LeftOnDisk
<1>4. Held(Root)' = Held(Root') OBVIOUS
<1> QED BY <1>1, <1>2, <1>3, <1>4, OutsideWhole, CallIsAt

LEMMA InvalidBlockSizeWhole ==
  ASSUME Whole, InvalidBlockSize
  PROVE  AllOrNothing'
<1>1. /\ DiskSame /\ NoStorageCall /\ todo # <<>> /\ Abandon /\ call.pc \in Writing
  BY InvalidBlockSizeAlone DEF Whole
<1>2. /\ todo' = <<>> /\ tree' = tree
      /\ \/ call'.pc = "rollback" /\ call'.req = call.req
         \/ call'.pc = "idle"
  BY <1>1, AbandonAlone, CallIsAt DEF Whole
<1>3. /\ last = call.req /\ last # NoRequest /\ ROOT_ID \in DOMAIN blocks
      /\ Shows \in Outcomes
      /\ NoFaults => Held(Root) \in Outcomes
      /\ NoFaults => tree.root_exists = header.root_exists
      /\ before' = before /\ last' = last /\ Outcomes' = Outcomes
  BY <1>1, WithinWhole, CallIsAt
<1>4. tree.root_exists BY <1>1, CallIsAt DEF Whole, OneLeaf, Alone, LeafVisited
<1>5. Held(Root) \in Outcomes BY <1>3, <1>4 DEF Shows, View
<1>6. Root' = Root /\ header' = header /\ blocks' = blocks BY <1>1 DEF DiskSame, NoStorageCall
<1>7. NoFaults' <=> NoFaults BY <1>1 DEF NoStorageCall, NoFaults
<1>8. Held(Root)' = Held(Root) /\ Shows' = Shows BY <1>2, <1>6 DEF Shows
<1>9. CASE call'.pc = "idle"
  BY <1>2, <1>3, <1>5, <1>6, <1>7, <1>8, <1>9, OutsideWhole, CallIsAt
<1>10. CASE call'.pc = "rollback" /\ call'.req = call.req
  <2>1. Remembering' BY <1>3, <1>6, <1>10 DEF Remembering, ROOT_ID, NoRequest
  <2>2. HandleRight' BY <1>2, <1>3, <1>8, <1>10, CallIsAt DEF HandleRight
  <2>3. DiskRight' BY <1>2, <1>3, <1>4, <1>5, <1>6, <1>7, <1>8, <1>10, CallIsAt DEF DiskRight
  <2> QED BY <2>1, <2>2, <2>3 DEF AllOrNothing
<1> QED BY <1>2, <1>9, <1>10

-----------------------------------------------------------------------------
(* Every step.                                                             *)

(* No failure, or one.                                                     *)
Once == errors + crashes <= 1

(* A step of a tree with one leaf that has none but one afterwards.        *)
LEMMA NextAlone ==
  ASSUME OneLeaf, Next, saved'.next_block_id = 2
  PROVE  Alone'
<1>1. CASE Open BY <1>1, OpenAlone
<1>2. CASE Close BY <1>2, CloseAlone
<1>3. CASE \E r \in Requests : Invoke(r) BY <1>3, CallsAlone
<1>4. CASE StorageFails BY <1>4, StorageFailsAlone
<1>5. CASE Crash BY <1>5, CrashAlone
<1>6. CASE CallStep
  <2>1. CASE Opened \/ Return \/ RolledBack BY <2>1, CallsAlone
  <2>2. CASE StorageCall BY <2>2, StorageCallAlone
  <2>3. CASE StartOnTree \/ StartOnEmptyTree
    BY <2>3, StartOnTreeAlone, StartOnEmptyTreeAlone
  <2>4. CASE GetFromLeaf \/ ScanLeaf \/ UpdateMissing \/ DeleteNothing BY <2>4, ReadsAlone
  <2>5. CASE InsertIntoLeaf \/ FinishInsert
    <3>1. InsertIntoLeaf => Alone' BY InsertIntoLeafAlone
    <3>2. FinishInsert => Alone' BY FinishInsertAlone
    <3> QED BY <2>5, <3>1, <3>2
  <2>6. CASE DeleteFromLeaf \/ CountDeleted \/ FinishDelete \/ Rollback
    <3>1. DeleteFromLeaf => Alone' BY DeleteFromLeafAlone
    <3>2. CountDeleted => Alone' BY CountDeletedAlone
    <3>3. FinishDelete => Alone' BY FinishDeleteAlone
    <3>4. Rollback => Alone' BY RollbackAlone
    <3> QED BY <2>6, <3>1, <3>2, <3>3, <3>4
  <2>7. CASE ClearLeaf \/ FinishClear
    <3>1. ClearLeaf => Alone' BY ClearLeafAlone
    <3>2. FinishClear => Alone' BY FinishClearAlone
    <3> QED BY <2>7, <3>1, <3>2
  <2>8. CASE InvalidBlockSize BY <2>8, InvalidBlockSizeAlone
  <2> QED BY <1>6, <2>1, <2>2, <2>3, <2>4, <2>5, <2>6, <2>7, <2>8, NoInnerNode
          DEF CallStep, Search, Insert, Delete, Clear
<1> QED BY <1>1, <1>2, <1>3, <1>4, <1>5, <1>6 DEF Next

(* It leaves the call all of its effect or none, if it is not a second     *)
(* failure.                                                                *)
LEMMA NextWhole ==
  ASSUME Whole, Next, saved'.next_block_id = 2, StorageFails \/ Crash => NoFaults
  PROVE  AllOrNothing'
<1>0. OneLeaf BY DEF Whole
<1>1. CASE Open BY <1>1, OpenWhole
<1>2. CASE Close BY <1>2, CloseWhole
<1>3. CASE \E r \in Requests : Invoke(r) BY <1>3, InvokeWhole
<1>4. CASE StorageFails BY <1>4, StorageFailsWhole
<1>5. CASE Crash BY <1>5, CrashWhole
<1>6. CASE CallStep
  <2>1. CASE Opened \/ Return \/ RolledBack BY <2>1, OpenedWhole, ReturnWhole, RolledBackWhole
  <2>2. CASE StorageCall BY <2>2, StorageCallWhole
  <2>3. CASE StartOnTree \/ StartOnEmptyTree
    BY <2>3, StartOnTreeWhole, StartOnEmptyTreeWhole
  <2>4. CASE GetFromLeaf \/ ScanLeaf \/ UpdateMissing \/ DeleteNothing BY <2>4, ReadsWhole
  <2>5. CASE InsertIntoLeaf \/ FinishInsert BY <2>5, InsertIntoLeafWhole, FinishInsertWhole
  <2>6. CASE DeleteFromLeaf \/ CountDeleted \/ FinishDelete \/ Rollback
    BY <2>6, DeleteFromLeafWhole, CountDeletedWhole, FinishDeleteWhole, RollbackWhole
  <2>7. CASE ClearLeaf \/ FinishClear BY <2>7, ClearLeafWhole, FinishClearWhole
  <2>8. CASE InvalidBlockSize BY <2>8, InvalidBlockSizeWhole
  <2> QED BY <1>0, <1>6, <2>1, <2>2, <2>3, <2>4, <2>5, <2>6, <2>7, <2>8, NoInnerNode
          DEF CallStep, Search, Insert, Delete, Clear
<1> QED BY <1>1, <1>2, <1>3, <1>4, <1>5, <1>6 DEF Next

(* Failures are counted.                                                   *)
LEMMA FailuresMount ==
  ASSUME InvIn(Usable), Next
  PROVE  /\ errors \in Nat /\ crashes \in Nat
         /\ Once' => Once
         /\ Once' /\ (StorageFails \/ Crash) => NoFaults
<1>1. errors \in Nat /\ crashes \in Nat BY DEF InvIn, TypeIn
<1>2. StorageFails => errors' = errors + 1 /\ crashes' = crashes BY DEF StorageFails
<1>3. Crash => errors' = errors /\ crashes' = crashes + 1 BY DEF Crash
<1>4. Open \/ Close => errors' = errors /\ crashes' = crashes BY DEF Open, Close
<1>5. (\E r \in Requests : Invoke(r)) => errors' = errors /\ crashes' = crashes
  BY DEF Invoke, NoStorageCall
<1>6. CallStep => errors' = errors /\ crashes' = crashes
  BY OnlyStorageCallStores DEF StorageCall, NoStorageCall, Panic
<1> QED BY <1>1, <1>2, <1>3, <1>4, <1>5, <1>6 DEF Next, Once, NoFaults

-----------------------------------------------------------------------------
(* The count of a tree of one leaf.                                        *)
Tracked == Whole /\ Counting

(* insert_leaf adds one key, or none.                                      *)
LEMMA InsertLeafSize ==
  ASSUME NEW n \in WellShaped, IsLeaf(n), NEW k \in Key, NEW v \in Val
  PROVE  Size(InsertLeaf(n, k, v)) = IF HasKey(n, k) THEN Size(n) ELSE Size(n) + 1
<1> DEFINE p == FindKeyIndex(n, k) + 1
           ks == InsertAt(n.keys, p, k)
<1>1. InsertLeaf(n, k, v).keys = IF HasKey(n, k) THEN n.keys ELSE ks
  BY NodeParts DEF InsertLeaf, Node
<1>2. n.keys \in Seq(Key) /\ Len(n.keys) \in Nat BY NodeParts
<1>3. FindKeyIndex(n, k) \in 0..Len(n.keys) BY FindKeyIndexType
<1>4. p \in 1..(Len(n.keys) + 1) BY <1>2, <1>3
<1>5. Len(ks) = Len(n.keys) + 1 BY <1>2, <1>4, InsertAtType
<1> QED BY <1>1, <1>5 DEF Size

(* What a number is near to.                                               *)
LEMMA NearBy ==
  ASSUME NEW c, NEW n \in Int
  PROVE  /\ Near(c, n, {0}) => Near(c, n, ByOne)
         /\ Near(c, n, Slack) => Near(c, n, ByOne)
         /\ NoFaults /\ Near(c, n, Slack) => Near(c, n, {0}) /\ c = n % CountWidth
         /\ \A u \in ByOne : Near(c, n - u, {0}) => Near(c, n, ByOne)
<1>1. Near(c, n, {0}) => Near(c, n, ByOne) BY DEF Near, ByOne
<1>2. ASSUME NEW u \in ByOne, Near(c, n - u, {0}) PROVE Near(c, n, ByOne)
  <2>1. c = ((n - u) + 0) % CountWidth BY <1>2 DEF Near
  <2>2. (n - u) + 0 = n + (0 - u) /\ 0 - u \in ByOne BY DEF ByOne
  <2> QED BY <2>1, <2>2 DEF Near
<1>3. Near(c, n, {0}) => c = n % CountWidth
  <2>1. n + 0 = n OBVIOUS
  <2> QED BY <2>1 DEF Near
<1> QED BY <1>1, <1>2, <1>3 DEF Slack

(* Counting one more, and one less.                                        *)
LEMMA NearCounted ==
  ASSUME NEW c, NEW n \in Int, NEW S \in SUBSET Int
  PROVE  /\ Near(c, n - 1, S) => Near((c + 1) % CountWidth, n, S)
         /\ Near(c, n + 1, S) => Near((c - 1) % CountWidth, n, S)
<1>1. CountWidth \in Nat \ {0, 1} BY CountWidthAssumption
<1>2. ASSUME NEW d \in S, c = ((n - 1) + d) % CountWidth
      PROVE  (c + 1) % CountWidth = (n + d) % CountWidth
  <2> DEFINE e == (n - 1) + d
  <2>1. e \in Int /\ e + 1 = n + d OBVIOUS
  <2>2. c = e % CountWidth BY <1>2
  <2> HIDE DEF e
  <2> QED BY <1>1, <2>1, <2>2, Wrapped
<1>3. ASSUME NEW d \in S, c = ((n + 1) + d) % CountWidth
      PROVE  (c - 1) % CountWidth = (n + d) % CountWidth
  <2> DEFINE e == n + d
  <2>1. e \in Int /\ (n + 1) + d = e + 1 OBVIOUS
  <2>2. c = (e + 1) % CountWidth BY <1>3, <2>1
  <2> HIDE DEF e
  <2>3. (c - 1) % CountWidth = e % CountWidth BY <1>1, <2>1, <2>2, Wrapped
  <2> QED BY <2>3 DEF e
<1> QED BY <1>2, <1>3 DEF Near

(* How far off the count may be.                                           *)
LEMMA Slacks ==
  /\ Slack \in SUBSET Int /\ 0 \in Slack
  /\ NoFaults => Slack = {0}
  /\ ~NoFaults => Slack = ByOne
BY DEF Slack, ByOne

(* A step that makes no storage call.                                      *)
LEMMA Unstored ==
  ASSUME NoStorageCall
  PROVE  /\ Root' = Root /\ header' = header /\ Slack' = Slack /\ (NoFaults' <=> NoFaults)
         /\ Size(Root)' = Size(Root)
<1>1. blocks' = blocks /\ header' = header /\ errors' = errors /\ crashes' = crashes
  BY DEF NoStorageCall
<1>2. Root' = Root BY <1>1 DEF Root, ROOT_ID
<1>3. NoFaults' <=> NoFaults BY <1>1 DEF NoFaults
<1>4. Slack' = Slack BY <1>3 DEF Slack, ByOne
<1>5. Size(Root)' = Size(Root) BY <1>2
<1> QED BY <1>1, <1>2, <1>3, <1>4, <1>5

(* What is known of the counts while a call runs.                          *)
LEMMA WithinTracked ==
  ASSUME Tracked, call.pc \notin Waiting
  PROVE  /\ Size(Root) \in Nat /\ \A i \in DOMAIN todo : Size(todo[i].node) \in Nat
         /\ call \in Calls /\ tree \in Metadata /\ call.orig \in Metadata /\ call.req \in Request
         /\ tree.root_exists /\ call.pc \notin Writing \cup {"rollback"} =>
              /\ todo = <<>> => Near(tree.entry_count, Size(Root), Slack)
              /\ \A i \in DOMAIN todo : Near(tree.entry_count, Size(todo[i].node), Slack)
         /\ NoFaults /\ tree.root_exists => Near(tree.entry_count, Size(Root), ByOne)
<1>1. ROOT_ID \in DOMAIN blocks /\ OneLeaf BY WithinWhole DEF Tracked, Whole
<1>2. Root \in WellShaped BY <1>1, TheLeaf
<1>3. Size(Root) \in Nat BY <1>2, NodeParts DEF Size
<1>4. todo \in Seq(StorageCalls) BY <1>1, Running DEF OneLeaf
<1>5. ASSUME NEW i \in DOMAIN todo PROVE Size(todo[i].node) \in Nat
  <2>1. todo[i] \in StorageCalls BY <1>4, ElementOfSeq
  <2>2. todo[i].node \in WellShaped BY <2>1, StorageCallParts
  <2> QED BY <2>2, NodeParts DEF Size
<1>6. call \in Calls /\ tree \in Metadata /\ call.orig \in Metadata /\ call.req \in Request
  BY <1>1, Running, WithinWhole DEF OneLeaf, Tracked
<1> QED BY <1>3, <1>5, <1>6, CallIsAt DEF Tracked, Counting, HandleCounts

-----------------------------------------------------------------------------
(* Handlers and the count.                                                 *)

(* A handler that is not about to write the leaf anew.                     *)
LEMMA HandlerTracked ==
  ASSUME Tracked, NoStorageCall, call'.pc \notin Writing,
         tree'.root_exists /\ call'.pc \notin Away \cup {"rollback"} =>
           /\ todo' = <<>> => Near(tree'.entry_count, Size(Root), Slack)
           /\ \A i \in DOMAIN todo' : Near(tree'.entry_count, Size(todo'[i].node), Slack),
         NoFaults /\ tree'.root_exists /\ call'.pc \notin Away =>
           Near(tree'.entry_count, Size(Root), ByOne),
         header.root_exists /\ HeaderStays' => Near(header.entry_count, Size(Root), Slack),
         RollbackCounts'
  PROVE  Counting'
<1>1. /\ Root' = Root /\ header' = header /\ Slack' = Slack /\ (NoFaults' <=> NoFaults)
      /\ Size(Root)' = Size(Root)
  BY Unstored
<1>2. HandleCounts' BY <1>1 DEF HandleCounts, Writing, ByOne, Away
<1>3. HeaderCounts' BY <1>1 DEF HeaderCounts, Tracked, Counting, ByOne
<1> QED BY <1>2, <1>3 DEF Counting

(* What delete_safe would put back stays.                                  *)
LEMMA RollbackStays ==
  ASSUME Tracked, NoStorageCall, call.pc \notin Waiting, call'.req = call.req, call'.orig = call.orig,
         call'.pc \notin {"start", "insert_up", "rollback"},
         call'.pc = "rolled_back" => call.pc = "rollback",
         call'.pc = "descend" => call'.outcome = "NoChange",
         call'.pc \in {"descend", "delete_up"} =>
           call.pc \in {"start", "descend", "delete_up"} /\ tree' = tree,
         NoFaults /\ call.orig.root_exists /\ call.req.op = "delete_safe" =>
           \A i \in DOMAIN todo' : Near(call.orig.entry_count, Size(todo'[i].node), ByOne)
  PROVE  RollbackCounts'
<1>1. Size(Root)' = Size(Root) /\ (NoFaults' <=> NoFaults) /\ Root' = Root BY Unstored
<1>2. RollbackCounts BY DEF Tracked, Counting
<1> QED BY <1>1, <1>2, CallIsAt DEF RollbackCounts, ByOne

(* One that has no more to write than what is there.                       *)
LEMMA GoesOnTracked ==
  ASSUME Tracked, NoStorageCall, call.pc \notin Waiting \cup Undoing \cup Writing, tree' = tree,
         todo = <<>>, todo' = <<>>, call'.req = call.req, call'.orig = call.orig,
         call'.pc \notin Writing \cup Undoing \cup Away \cup {"start"},
         call'.pc = "descend" => call.pc = "start" /\ call'.outcome = call.outcome,
         HeaderStays' => HeaderStays
  PROVE  Counting'
<1>1. Counting BY DEF Tracked
<1>2. call.pc # "rollback" BY CallIsAt
<1>3. tree.root_exists => Near(tree.entry_count, Size(Root), Slack)
  BY <1>2, CallIsAt, WithinTracked
<1>4. NoFaults /\ tree.root_exists => Near(tree.entry_count, Size(Root), ByOne)
  BY WithinTracked, CallIsAt
<1>5. RollbackCounts'
  <2>1. call'.pc = "descend" => call'.outcome = "NoChange"
    BY <1>1 DEF Counting, RollbackCounts
  <2> QED BY <2>1, RollbackStays, CallIsAt
<1>6. header.root_exists /\ HeaderStays' => Near(header.entry_count, Size(Root), Slack)
  BY <1>1 DEF Counting, HeaderCounts
<1> QED BY <1>3, <1>4, <1>5, <1>6, HandlerTracked, CallIsAt

(* Starting on a tree.                                                     *)
LEMMA StartOnTreeTracked == ASSUME Tracked, StartOnTree PROVE Counting'
<1>1. /\ call.pc = "start" /\ todo = <<>> /\ todo' = <<>> /\ tree' = tree /\ NoStorageCall
      /\ call' = [ call EXCEPT !.pc = IF call.req.op = "clear" THEN "clear" ELSE "descend",
                               !.at = ROOT_ID ]
  BY DEF StartOnTree, Runs
<1>2. call \in Calls BY <1>1, WithinTracked, CallIsAt
<1>3. /\ call'.pc \in {"clear", "descend"} /\ call'.req = call.req /\ call'.orig = call.orig
      /\ call'.outcome = call.outcome
  BY <1>1, <1>2 DEF Calls, CallsIn
<1>4. HeaderStays BY <1>1, CallIsAt DEF HeaderStays
<1> QED BY <1>1, <1>3, <1>4, GoesOnTracked, CallIsAt

(* Clearing a leaf.                                                        *)
LEMMA ClearLeafTracked == ASSUME Tracked, ClearLeaf PROVE Counting'
<1>1. /\ NoStorageCall /\ tree' = tree /\ todo' = <<>> /\ todo = <<>> /\ call.pc = "clear"
      /\ call'.pc = "clear_up" /\ call'.req = call.req /\ call'.orig = call.orig
  BY ClearLeafAlone DEF Tracked, Whole
<1>2. HeaderStays BY <1>1, CallIsAt DEF HeaderStays
<1> QED BY <1>1, <1>2, GoesOnTracked, CallIsAt

(* Calls that only read, or find nothing to delete.                        *)
LEMMA ReadsTracked ==
  ASSUME Tracked, GetFromLeaf \/ ScanLeaf \/ UpdateMissing \/ DeleteNothing
  PROVE  Counting'
<1>0. OneLeaf BY DEF Tracked, Whole
<1>1. /\ NoStorageCall /\ tree' = tree /\ todo' = <<>> /\ call'.pc = "return"
      /\ call'.req = call.req /\ call'.orig = call.orig /\ call.pc \in {"descend", "delete_up"}
  BY <1>0, ReadsAlone
<1>2. todo = <<>> /\ (call.pc = "delete_up" => call.outcome = "NoChange")
  BY <1>0, <1>1, NoInnerNode
     DEF GetFromLeaf, ScanLeaf, UpdateMissing, DeleteNothing, AtLeaf, Runs
<1>3. HeaderStays BY <1>1, <1>2, CallIsAt DEF HeaderStays
<1>4. CASE call.pc = "descend" BY <1>1, <1>2, <1>3, <1>4, GoesOnTracked, CallIsAt
<1>5. CASE call.pc = "delete_up"
  <2>1. Uncounted = 0 /\ Size(Root) \in Nat /\ Size(Root) - 0 = Size(Root)
    BY <1>2, <1>5, WithinTracked, CallIsAt DEF Uncounted
  <2>2. Near(tree.entry_count, Size(Root), Slack)
    BY <1>2, <1>5, <2>1, CallIsAt DEF Tracked, Counting, HandleCounts
  <2>3. Near(tree.entry_count, Size(Root), ByOne) BY <2>1, <2>2, NearBy
  <2>4. header.root_exists => Near(header.entry_count, Size(Root), Slack)
    BY <1>3 DEF Tracked, Counting, HeaderCounts
  <2>5. RollbackCounts' BY <1>1, <1>5, RollbackStays, CallIsAt
  <2> QED BY <1>1, <2>2, <2>3, <2>4, <2>5, HandlerTracked, CallIsAt
<1> QED BY <1>1, <1>4, <1>5

(* The end of a call.                                                      *)
LEMMA OverTracked ==
  ASSUME Tracked, Opened \/ Return \/ RolledBack
  PROVE  Counting'
<1>1. /\ NoStorageCall /\ todo = <<>> /\ todo' = <<>> /\ tree' = tree /\ call'.pc = "idle"
      /\ call.pc \in {"opening", "return", "rolled_back"} /\ call'.req = NoRequest
  BY DEF Opened, Return, RolledBack, Runs, Blank
<1>2. RollbackCounts' BY <1>1, CallIsAt DEF RollbackCounts, NoRequest
<1>3. CASE call.pc = "opening"
  <2>1. ~tree.root_exists /\ ~header.root_exists
    BY <1>3 DEF Tracked, Whole, OneLeaf, Alone, LeafVisited
  <2> QED BY <1>1, <1>2, <2>1, HandlerTracked, CallIsAt
<1>4. CASE call.pc # "opening"
  <2>1. call.pc \notin Waiting \cup Writing \cup {"rollback"} BY <1>1, <1>4, CallIsAt
  <2>2. /\ tree.root_exists => Near(tree.entry_count, Size(Root), Slack)
        /\ NoFaults /\ tree.root_exists => Near(tree.entry_count, Size(Root), ByOne)
    BY <1>1, <2>1, WithinTracked
  <2>3. HeaderStays BY <1>1, <1>4, CallIsAt DEF HeaderStays
  <2>4. header.root_exists => Near(header.entry_count, Size(Root), Slack)
    BY <2>3 DEF Tracked, Counting, HeaderCounts
  <2> QED BY <1>1, <1>2, <2>2, <2>4, HandlerTracked, CallIsAt
<1> QED BY <1>3, <1>4

(* A call begins.                                                          *)
LEMMA InvokeTracked == ASSUME Tracked, NEW r \in Requests, Invoke(r) PROVE Counting'
<1>1. /\ call.pc = "idle" /\ call'.pc = "start" /\ tree' = tree /\ todo' = todo
      /\ call'.outcome = "NoChange" /\ call'.orig = tree /\ NoStorageCall
  BY DEF Invoke, Blank
<1>2. todo = <<>> BY <1>1 DEF Tracked, Whole, OneLeaf, IInv, InvIn, NothingPending
<1>3. Counting BY DEF Tracked
<1>4. /\ tree.root_exists => Near(tree.entry_count, Size(Root), Slack)
      /\ NoFaults /\ tree.root_exists => Near(tree.entry_count, Size(Root), ByOne)
  BY <1>1, <1>2, <1>3, CallIsAt DEF Counting, HandleCounts
<1>5. HeaderStays BY <1>1, CallIsAt DEF HeaderStays
<1>6. header.root_exists => Near(header.entry_count, Size(Root), Slack)
  BY <1>3, <1>5 DEF Counting, HeaderCounts
<1>7. Size(Root)' = Size(Root) /\ (NoFaults' <=> NoFaults) /\ Root' = Root BY <1>1, Unstored
<1>8. RollbackCounts' BY <1>1, <1>2, <1>4, <1>7, CallIsAt DEF RollbackCounts, ByOne
<1> QED BY <1>1, <1>2, <1>4, <1>6, <1>8, HandlerTracked, CallIsAt

(* A handler that has the leaf written, or a split begun.                  *)
LEMMA WriterTracked ==
  ASSUME Tracked, NoStorageCall, call.pc = "descend", call'.pc \in Writing, tree' = tree,
         todo = <<>>, tree.root_exists,
         todo' = <<>> => Uncounted' = 0,
         ~Splits' => \A i \in DOMAIN todo' : i = 1 /\ Size(todo'[i].node) - Uncounted' = Size(Root),
         todo' = <<>> => call'.pc = "delete_up" /\ call'.outcome = "NoChange",
         RollbackCounts'
  PROVE  Counting'
<1>1. /\ Root' = Root /\ header' = header /\ Slack' = Slack /\ (NoFaults' <=> NoFaults)
      /\ Size(Root)' = Size(Root)
  BY Unstored
<1>2. /\ Size(Root) \in Nat /\ Near(tree.entry_count, Size(Root), Slack)
      /\ NoFaults => Near(tree.entry_count, Size(Root), ByOne)
  BY WithinTracked, CallIsAt
<1>3. Size(Root) - 0 = Size(Root) BY <1>2
<1>4. HandleCounts'
  BY <1>1, <1>2, <1>3, CallIsAt DEF HandleCounts, ByOne
<1>5. HeaderStays BY CallIsAt DEF HeaderStays
<1>6. HeaderCounts' BY <1>1, <1>5 DEF HeaderCounts, Tracked, Counting, ByOne
<1> QED BY <1>4, <1>6 DEF Counting

(* The leaf with an entry more, or less.                                   *)
LEMMA InsertIntoLeafTracked == ASSUME Tracked, InsertIntoLeaf PROVE Counting'
<1> DEFINE n == InsertLeaf(Root, call.req.key, call.req.val)
<1>0. OneLeaf BY DEF Tracked, Whole
<1>1. /\ NoStorageCall /\ tree' = tree /\ call'.pc = "insert_up"
      /\ call.req \in Request /\ call.req.op \in {"upsert", "update"}
      /\ call.req.op = "update" => HasKey(Root, call.req.key)
      /\ call'.req = call.req /\ call'.answer = Get(Root, call.req.key)
      /\ todo' # <<>> /\ (~Splits' => todo' = << Save(ROOT_ID, n) >>)
  BY <1>0, InsertIntoLeafAlone
<1>2. /\ call.pc = "descend" /\ todo = <<>> /\ tree.root_exists /\ ROOT_ID \in DOMAIN blocks
  BY <1>0, AtTheLeaf DEF InsertIntoLeaf, AtLeaf
<1>3. Root \in WellShaped /\ IsLeaf(Root) /\ Lonely(Root) BY <1>0, <1>2, TheLeaf
<1>4. call.req.key \in Key /\ call.req.val \in Val BY <1>1 DEF Request
<1>5. Get(Root, call.req.key) = None <=> ~HasKey(Root, call.req.key)
  BY <1>3, <1>4, HeldMap
<1>6. Size(n) = IF HasKey(Root, call.req.key) THEN Size(Root) ELSE Size(Root) + 1
  BY <1>3, <1>4, InsertLeafSize
<1>7. Uncounted' = IF HasKey(Root, call.req.key) THEN 0 ELSE 1
  BY <1>1, <1>5 DEF Uncounted
<1>8. Size(Root) \in Nat BY <1>2, WithinTracked, CallIsAt
<1> HIDE DEF n
<1>9. Size(n) - Uncounted' = Size(Root) BY <1>6, <1>7, <1>8
<1>10. ~Splits' => \A i \in DOMAIN todo' : i = 1 /\ todo'[i].node = n BY <1>1 DEF Save
<1>11. RollbackCounts' BY <1>1, CallIsAt DEF RollbackCounts
<1> QED BY <1>1, <1>2, <1>9, <1>10, <1>11, WriterTracked, CallIsAt

LEMMA DeleteFromLeafTracked == ASSUME Tracked, DeleteFromLeaf PROVE Counting'
<1> DEFINE n == RemoveLeaf(Root, call.req.key)
<1>0. OneLeaf BY DEF Tracked, Whole
<1>1. /\ NoStorageCall /\ tree' = tree /\ call'.pc = "delete_up"
      /\ call.pc = "descend" /\ ROOT_ID \in DOMAIN blocks /\ tree.root_exists
      /\ call.req \in Request /\ call.req.op \in {"delete", "delete_safe"}
      /\ call'.req = call.req /\ call'.orig = call.orig
      /\ \/ /\ HasKey(Root, call.req.key) /\ todo' = << Save(ROOT_ID, n) >>
            /\ call'.outcome = "KeyRemoved"
         \/ todo' = <<>> /\ call'.outcome = call.outcome
  BY <1>0, DeleteFromLeafAlone
<1>2. todo = <<>> BY DEF DeleteFromLeaf, AtLeaf, Runs
<1>3. /\ Size(Root) \in Nat /\ Near(tree.entry_count, Size(Root), Slack)
  BY <1>1, <1>2, WithinTracked, CallIsAt
<1>4. /\ call.outcome = "NoChange"
      /\ call.req.op = "delete_safe" => call.orig = tree
  BY <1>1 DEF Tracked, Counting, RollbackCounts
<1>5. CASE todo' = <<>> /\ call'.outcome = call.outcome
  <2>1. Uncounted' = 0 BY <1>1, <1>4, <1>5 DEF Uncounted
  <2>2. RollbackCounts' BY <1>1, <1>5, RollbackStays, CallIsAt
  <2> QED BY <1>1, <1>2, <1>4, <1>5, <2>1, <2>2, WriterTracked, CallIsAt
<1>6. CASE /\ HasKey(Root, call.req.key) /\ todo' = << Save(ROOT_ID, n) >>
           /\ call'.outcome = "KeyRemoved"
  <2>1. Root \in WellShaped /\ IsLeaf(Root) /\ Ordered(Root.keys) BY <1>0, <1>1, TheLeaf
  <2>2. call.req.key \in Key BY <1>0, <1>1, RequestType DEF OneLeaf
  <2>3. Size(n) = Size(Root) - 1 BY <1>6, <2>1, <2>2, RemoveLeafOrdered DEF Size
  <2>4. Uncounted' = -1 BY <1>1, <1>6 DEF Uncounted
  <2> HIDE DEF n
  <2>5. Size(n) - Uncounted' = Size(Root) BY <1>3, <2>3, <2>4
  <2>6. todo' # <<>> /\ \A i \in DOMAIN todo' : i = 1 /\ todo'[i].node = n BY <1>6 DEF Save
  <2>7. NoFaults => Near(tree.entry_count, Size(n), ByOne)
    <3>1. NoFaults => tree.entry_count = Size(Root) % CountWidth BY <1>3, NearBy
    <3>2. Size(Root) = Size(n) + 1 /\ 1 \in ByOne BY <1>3, <2>3 DEF ByOne
    <3> QED BY <3>1, <3>2 DEF Near
  <2>8. NoFaults /\ call.orig.root_exists /\ call.req.op = "delete_safe" =>
          \A i \in DOMAIN todo' : Near(call.orig.entry_count, Size(todo'[i].node), ByOne)
    BY <1>4, <2>6, <2>7
  <2>9. RollbackCounts' BY <1>1, <2>8, RollbackStays, CallIsAt
  <2> QED BY <1>1, <1>2, <2>5, <2>6, <2>9, WriterTracked, CallIsAt
<1> QED BY <1>1, <1>5, <1>6

-----------------------------------------------------------------------------
(* Counting what was written.                                              *)
LEMMA CountDeletedTracked == ASSUME Tracked, CountDeleted PROVE Counting'
<1>0. OneLeaf BY DEF Tracked, Whole
<1>1. /\ NoStorageCall /\ call'.pc = "root_underflow" /\ call'.req = call.req
      /\ call.pc = "delete_up" /\ todo = <<>> /\ todo' = <<>>
      /\ call'.orig = call.orig /\ call.outcome # "NoChange"
      /\ tree' = [ tree EXCEPT !.entry_count = (@ - 1) % CountWidth ]
  BY <1>0, CountDeletedAlone
<1>2. Size(Root) \in Nat /\ tree \in Metadata BY <1>1, WithinTracked, CallIsAt
<1>3. tree'.entry_count = (tree.entry_count - 1) % CountWidth BY <1>1, <1>2 DEF Metadata
<1>4. Uncounted = -1 BY <1>1 DEF Uncounted
<1>5. Near(tree.entry_count, Size(Root) - Uncounted, Slack)
  BY <1>1, CallIsAt DEF Tracked, Counting, HandleCounts
<1>6. Size(Root) - Uncounted = Size(Root) + 1 BY <1>2, <1>4
<1>7. Near(tree'.entry_count, Size(Root), Slack) BY <1>2, <1>3, <1>5, <1>6, Slacks, NearCounted
<1>8. Near(tree'.entry_count, Size(Root), ByOne) BY <1>2, <1>7, NearBy
<1>9. ~HeaderStays' BY <1>1, CallIsAt DEF HeaderStays
<1>10. RollbackCounts' BY <1>1, RollbackStays, CallIsAt
<1> QED BY <1>1, <1>7, <1>8, <1>9, <1>10, HandlerTracked, CallIsAt

LEMMA FinishInsertTracked == ASSUME Tracked, FinishInsert PROVE Counting'
<1>0. OneLeaf BY DEF Tracked, Whole
<1>1. /\ NoStorageCall /\ call'.pc = "return" /\ call'.req = call.req
      /\ call.pc = "insert_up" /\ todo = <<>> /\ call'.orig = call.orig
      /\ todo' = << Save(ROOT_ID, Root) >>
      /\ tree' = IF call.req.op = "upsert" /\ call.answer = None
                 THEN [ tree EXCEPT !.entry_count = (@ + 1) % CountWidth ] ELSE tree
  BY <1>0, FinishInsertAlone
<1>2. Size(Root) \in Nat /\ tree \in Metadata BY <1>1, WithinTracked, CallIsAt
<1>3. Near(tree.entry_count, Size(Root) - Uncounted, Slack)
  BY <1>1, CallIsAt DEF Tracked, Counting, HandleCounts
<1>4. Near(tree'.entry_count, Size(Root), Slack)
  <2>1. CASE call.req.op = "upsert" /\ call.answer = None
    <3>1. Uncounted = 1 BY <1>1, <2>1 DEF Uncounted
    <3>2. tree'.entry_count = (tree.entry_count + 1) % CountWidth
      BY <1>1, <1>2, <2>1 DEF Metadata
    <3> QED BY <1>2, <1>3, <3>1, <3>2, Slacks, NearCounted
  <2>2. CASE ~(call.req.op = "upsert" /\ call.answer = None)
    <3>1. Uncounted = 0 /\ tree' = tree BY <1>1, <2>2 DEF Uncounted
    <3>2. Size(Root) - 0 = Size(Root) BY <1>2
    <3> QED BY <1>3, <3>1, <3>2
  <2> QED BY <2>1, <2>2
<1>5. Near(tree'.entry_count, Size(Root), ByOne) BY <1>2, <1>4, NearBy
<1> DEFINE n == Root
<1>6. Size(n) = Size(Root) /\ todo' = << Save(ROOT_ID, n) >> BY <1>1
<1> HIDE DEF n
<1>7. todo' # <<>> /\ \A i \in DOMAIN todo' : Size(todo'[i].node) = Size(Root) BY <1>6 DEF Save
<1>8. ~HeaderStays' BY <1>1, <1>7, CallIsAt DEF HeaderStays
<1>9. NoFaults /\ call.orig.root_exists /\ call.req.op = "delete_safe" =>
        \A i \in DOMAIN todo' : Near(call.orig.entry_count, Size(todo'[i].node), ByOne)
  BY <1>7 DEF Tracked, Counting, RollbackCounts
<1>10. RollbackCounts' BY <1>1, <1>9, RollbackStays, CallIsAt
<1> QED BY <1>1, <1>4, <1>5, <1>7, <1>8, <1>10, HandlerTracked, CallIsAt

LEMMA FinishDeleteTracked == ASSUME Tracked, FinishDelete PROVE Counting'
<1>0. OneLeaf BY DEF Tracked, Whole
<1>1. /\ NoStorageCall /\ call'.pc = "return" /\ call'.req = call.req
      /\ call.pc = "root_underflow" /\ todo = <<>>
      /\ call'.orig = call.orig /\ tree.root_exists /\ todo' # <<>>
      /\ \/ /\ Root.keys = <<>> /\ tree' = EmptyTree
            /\ \A i \in DOMAIN todo' : todo'[i].node = NewLeaf
         \/ /\ tree' = tree /\ \A i \in DOMAIN todo' : todo'[i].node = Root
  BY <1>0, FinishDeleteAlone
<1>2. /\ Size(Root) \in Nat /\ Near(tree.entry_count, Size(Root), Slack)
      /\ NoFaults => Near(tree.entry_count, Size(Root), ByOne)
  BY <1>1, WithinTracked, CallIsAt
<1>3. \A i \in DOMAIN todo' : Size(todo'[i].node) = Size(Root)
  <2>1. Root.keys = <<>> => Size(NewLeaf) = Size(Root) BY DEF Size, NewLeaf
  <2> QED BY <1>1, <2>1
<1>4. ~tree'.root_exists \/ tree' = tree BY <1>1 DEF EmptyTree
<1>5. ~HeaderStays' BY <1>1, CallIsAt DEF HeaderStays
<1>6. NoFaults /\ call.orig.root_exists /\ call.req.op = "delete_safe" =>
        \A i \in DOMAIN todo' : Near(call.orig.entry_count, Size(todo'[i].node), ByOne)
  BY <1>3 DEF Tracked, Counting, RollbackCounts
<1>7. RollbackCounts' BY <1>1, <1>6, RollbackStays, CallIsAt
<1> QED BY <1>1, <1>2, <1>3, <1>4, <1>5, <1>7, HandlerTracked, CallIsAt

LEMMA FinishClearTracked == ASSUME Tracked, FinishClear PROVE Counting'
<1>0. OneLeaf BY DEF Tracked, Whole
<1>1. /\ NoStorageCall /\ call'.pc = "return" /\ call'.req = call.req
      /\ call.pc = "clear_up" /\ call.req.op = "clear"
      /\ call'.orig = call.orig /\ tree' = EmptyTree /\ todo' = << Save(ROOT_ID, NewLeaf) >>
  BY <1>0, FinishClearAlone
<1>2. ~tree'.root_exists BY <1>1 DEF EmptyTree
<1>3. todo' # <<>> BY <1>1
<1>4. ~HeaderStays' BY <1>1, <1>3, CallIsAt DEF HeaderStays
<1>5. RollbackCounts' BY <1>1, RollbackStays, CallIsAt
<1> QED BY <1>1, <1>2, <1>4, <1>5, HandlerTracked, CallIsAt

LEMMA RollbackTracked == ASSUME Tracked, Rollback PROVE Counting'
<1>0. OneLeaf BY DEF Tracked, Whole
<1>1. /\ NoStorageCall /\ call'.pc = "rolled_back" /\ call'.req = call.req
      /\ call.pc = "rollback" /\ todo = <<>> /\ call'.orig = call.orig
      /\ tree' = call.orig /\ todo' = << Save(ROOT_ID, Root) >>
  BY <1>0, RollbackAlone
<1>2. Counting BY DEF Tracked
<1>3. call.req.op = "delete_safe" /\ Near(call.orig.entry_count, Size(Root), Slack)
  BY <1>1, <1>2, CallIsAt DEF Counting, RollbackCounts
<1>4. Size(Root) \in Nat BY <1>1, WithinTracked, CallIsAt
<1>5. Near(call.orig.entry_count, Size(Root), ByOne) BY <1>3, <1>4, NearBy
<1> DEFINE n == Root
<1>6. Size(n) = Size(Root) /\ todo' = << Save(ROOT_ID, n) >> BY <1>1
<1> HIDE DEF n
<1>7. todo' # <<>> /\ \A i \in DOMAIN todo' : Size(todo'[i].node) = Size(Root) BY <1>6 DEF Save
<1>8. HeaderStays BY <1>1, CallIsAt DEF HeaderStays
<1>9. header.root_exists => Near(header.entry_count, Size(Root), Slack)
  BY <1>2, <1>8 DEF Counting, HeaderCounts
<1>10. RollbackCounts' BY <1>1, <1>5, <1>7, RollbackStays, CallIsAt
<1> QED BY <1>1, <1>3, <1>5, <1>7, <1>9, <1>10, HandlerTracked, CallIsAt

LEMMA StartOnEmptyTreeTracked == ASSUME Tracked, StartOnEmptyTree PROVE Counting'
<1>0. OneLeaf BY DEF Tracked, Whole
<1>1. /\ call.pc = "start" /\ todo = <<>> /\ ~tree.root_exists /\ NoStorageCall
      /\ call' = Answer(call.answer)
  BY DEF StartOnEmptyTree, Runs
<1>2. call \in Calls /\ call.req \in Request /\ Size(Root) \in Nat
  BY <1>1, WithinTracked, CallIsAt
<1>3. call'.pc = "return" /\ call'.req = call.req /\ call'.orig = call.orig
  BY <1>1, <1>2 DEF Answer, Calls, CallsIn
<1>4. CASE call.req.op = "upsert"
  <2> DEFINE n == InsertLeaf(NewLeaf, call.req.key, call.req.val)
  <2>1. tree' = [ root_exists |-> TRUE, entry_count |-> 1 ] /\ todo' = << Save(ROOT_ID, n) >>
    BY <1>4 DEF StartOnEmptyTree
  <2>2. Size(n) = 1
    <3>1. call.req.key \in Key /\ call.req.val \in Val BY <1>0, <1>2, <1>4, RequestType DEF OneLeaf
    <3>2. NewLeaf \in WellShaped /\ IsLeaf(NewLeaf) /\ NewLeaf.keys = <<>>
      BY <1>0, NewLeafShaped, SmallLeaves DEF OneLeaf
    <3>3. ~HasKey(NewLeaf, call.req.key) /\ Size(NewLeaf) = 0 BY <3>2 DEF HasKey, Size
    <3> QED BY <3>1, <3>2, <3>3, InsertLeafSize
  <2>3. 1 % CountWidth = 1 BY CountWidthAssumption
  <2>4. tree'.entry_count = 1 BY <2>1
  <2>5. Near(1, 1, Slack)
    <3>1. 0 \in Slack /\ 1 + 0 = 1 BY Slacks
    <3> QED BY <2>3, <3>1 DEF Near
  <2>6. NoFaults => Near(1, Size(Root), ByOne)
    <3>1. NoFaults => ~header.root_exists
      BY <1>1, WithinWhole, CallIsAt DEF Tracked
    <3>2. ROOT_ID \in DOMAIN blocks BY <1>1, WithinWhole, CallIsAt DEF Tracked
    <3>3. NoFaults => Root.keys = <<>> BY <1>0, <3>1, <3>2 DEF OneLeaf, Alone, LeafStored
    <3>4. NoFaults => Size(Root) = 0 BY <3>3 DEF Size
    <3>5. 0 + 1 = 1 /\ 1 \in ByOne BY DEF ByOne
    <3> QED BY <2>3, <3>4, <3>5 DEF Near
  <2> HIDE DEF n
  <2>7. todo' # <<>> /\ \A i \in DOMAIN todo' : Size(todo'[i].node) = 1 BY <2>1, <2>2 DEF Save
  <2>8. ~HeaderStays' BY <1>3, <2>7, CallIsAt DEF HeaderStays
  <2>9. RollbackCounts' BY <1>1, <1>3, <1>4, RollbackStays, CallIsAt
  <2> QED BY <1>1, <1>3, <2>4, <2>5, <2>6, <2>7, <2>8, <2>9, HandlerTracked, CallIsAt
<1>5. CASE call.req.op # "upsert"
  <2>1. tree' = tree /\ todo' = <<>> BY <1>1, <1>5 DEF StartOnEmptyTree
  <2>2. HeaderStays BY <1>1, CallIsAt DEF HeaderStays
  <2> QED BY <1>1, <1>3, <2>1, <2>2, GoesOnTracked, CallIsAt
<1> QED BY <1>4, <1>5

-----------------------------------------------------------------------------
(* Storage calls, failures and the count.                                  *)

(* Where no call is running.                                               *)
LEMMA OutsideTracked ==
  ASSUME call'.pc \in Waiting, todo' = <<>> \/ call'.pc = "opening",
         call'.req = NoRequest, call'.pc \in {"idle", "closed"} \/ ~header'.root_exists,
         call'.pc = "idle" /\ tree'.root_exists =>
           /\ Near(tree'.entry_count, Size(Root'), Slack')
           /\ NoFaults' => Near(tree'.entry_count, Size(Root'), ByOne),
         header'.root_exists =>
           /\ Near(header'.entry_count, Size(Root'), Slack')
           /\ NoFaults' => Near(header'.entry_count, Size(Root'), ByOne)
  PROVE  Counting'
<1>1. Size(Root)' = Size(Root') OBVIOUS
<1>2. HandleCounts' BY <1>1, CallIsAt DEF HandleCounts, ByOne
<1>3. HeaderCounts' BY <1>1 DEF HeaderCounts, ByOne
<1>4. RollbackCounts' BY CallIsAt DEF RollbackCounts, NoRequest
<1> QED BY <1>2, <1>3, <1>4 DEF Counting

(* What the leaf's count is after a write, or without one.                 *)
LEMMA DiskTracked ==
  ASSUME Tracked, DiskSame \/ DiskWritten, call.pc \notin {"closed", "idle"}, NoFaults
  PROVE  /\ tree.root_exists /\ call.pc # "opening" => Near(tree.entry_count, Size(Root'), ByOne)
         /\ header'.root_exists => Near(header'.entry_count, Size(Root'), ByOne)
         /\ call.orig.root_exists /\ call.req.op = "delete_safe" =>
              Near(call.orig.entry_count, Size(Root'), ByOne)
<1>1. Counting BY DEF Tracked
<1>2. CASE DiskSame
  <2>1. Root' = Root /\ header' = header BY <1>2 DEF DiskSame
  <2> QED BY <1>1, <2>1, CallIsAt DEF Counting, HandleCounts, HeaderCounts, RollbackCounts
<1>3. CASE DiskWritten
  <2> DEFINE n == todo[1].node
  <2>1. Root' = n /\ 1 \in DOMAIN todo /\ todo # <<>> /\ header' = tree /\ ~Splits
    BY <1>3 DEF DiskWritten
  <2>2. call.pc \in Writing \cup {"opening", "return", "rolled_back"}
    BY <2>1 DEF Tracked, Whole, OneLeaf, Alone, LeafWritten
  <2>3. call.pc = "opening" => ~tree.root_exists
    BY DEF Tracked, Whole, OneLeaf, Alone, LeafVisited
  <2>4. call.pc # "opening" => Size(n) \in Nat
    BY <2>1, <2>2, WithinTracked, CallIsAt
  <2> HIDE DEF n
  <2>5. CASE call.pc \in Writing
    <3>1. Near(tree.entry_count, Size(n) - Uncounted, {0}) /\ Uncounted \in ByOne
      BY <1>1, <2>1, <2>5, Slacks DEF Counting, HandleCounts, Uncounted, ByOne, n
    <3>2. Near(tree.entry_count, Size(n), ByOne) BY <2>4, <2>5, <3>1, NearBy, CallIsAt
    <3> QED BY <1>1, <2>1, <3>2 DEF Counting, RollbackCounts, n
  <2>6. CASE call.pc \in {"return", "rolled_back"}
    <3>1. tree.root_exists => Near(tree.entry_count, Size(n), Slack)
      BY <2>1, <2>6, WithinTracked, CallIsAt DEF n
    <3>2. tree.root_exists => Near(tree.entry_count, Size(n), ByOne)
      BY <2>4, <2>6, <3>1, NearBy
    <3> QED BY <1>1, <2>1, <3>2 DEF Counting, RollbackCounts, n
  <2>7. CASE call.pc = "opening"
    <3>1. call.orig.root_exists /\ call.req.op = "delete_safe" =>
            Near(call.orig.entry_count, Size(n), ByOne)
      BY <1>1, <2>1 DEF Counting, RollbackCounts, n
    <3> QED BY <2>1, <2>3, <2>7, <3>1
  <2> QED BY <2>2, <2>5, <2>6, <2>7
<1> QED BY <1>2, <1>3

(* The tree is opened and closed.                                          *)
LEMMA OpenTracked == ASSUME Tracked, Open PROVE Counting'
<1>0. OneLeaf /\ Counting BY DEF Tracked, Whole
<1>1. /\ DiskSame /\ call.pc = "closed" /\ errors' = errors /\ crashes' = crashes
      /\ \/ ROOT_ID \in DOMAIN blocks /\ tree' = header /\ call'.pc = "idle" /\ todo' = <<>>
         \/ /\ ROOT_ID \notin DOMAIN blocks /\ tree' = EmptyTree /\ call'.pc = "opening"
            /\ ~header.root_exists /\ todo' = << Save(ROOT_ID, NewLeaf) >>
  BY <1>0, OpenAlone
<1>2. Root' = Root /\ header' = header /\ Slack' = Slack /\ (NoFaults' <=> NoFaults)
  BY <1>1 DEF DiskSame, Slack, NoFaults, ByOne
<1>3. call'.req = NoRequest
  BY <1>0, <1>1 DEF Open, Blank, OneLeaf, IInv, InvIn, NothingPending
<1>4. HeaderStays BY <1>1, CallIsAt DEF HeaderStays
<1>5. header.root_exists =>
        /\ Near(header.entry_count, Size(Root), Slack)
        /\ NoFaults => Near(header.entry_count, Size(Root), ByOne)
  BY <1>0, <1>4 DEF Counting, HeaderCounts
<1> QED BY <1>1, <1>2, <1>3, <1>5, OutsideTracked, CallIsAt

LEMMA CloseTracked == ASSUME Tracked, Close PROVE Counting'
<1>0. OneLeaf /\ Counting BY DEF Tracked, Whole
<1>1. /\ DiskSame /\ call.pc = "idle" /\ call'.pc = "closed" /\ todo' = <<>>
      /\ errors' = errors /\ crashes' = crashes
  BY <1>0, CloseAlone
<1>2. Root' = Root /\ header' = header /\ Slack' = Slack /\ (NoFaults' <=> NoFaults)
  BY <1>1 DEF DiskSame, Slack, NoFaults, ByOne
<1>3. call'.req = NoRequest BY DEF Close, Forget, Closed, Blank
<1>4. HeaderStays BY <1>1, CallIsAt DEF HeaderStays
<1>5. header.root_exists =>
        /\ Near(header.entry_count, Size(Root), Slack)
        /\ NoFaults => Near(header.entry_count, Size(Root), ByOne)
  BY <1>0, <1>4 DEF Counting, HeaderCounts
<1> QED BY <1>1, <1>2, <1>3, <1>5, OutsideTracked, CallIsAt

(* The leaf has been written, and with it the count.                       *)
LEMMA StorageCallTracked ==
  ASSUME Tracked, StorageCall, saved'.next_block_id = 2
  PROVE  Counting'
<1>0. OneLeaf /\ Counting BY DEF Tracked, Whole
<1>1. DiskWritten BY <1>0, StorageCallAlone
<1>2. /\ todo # <<>> /\ todo' = Tail(todo) /\ tree' = tree /\ call' = call
      /\ errors' = errors /\ crashes' = crashes
  BY DEF StorageCall
<1>3. Slack' = Slack /\ (NoFaults' <=> NoFaults) BY <1>2 DEF Slack, NoFaults, ByOne
<1> DEFINE n == todo[1].node
<1>4. Root' = n /\ 1 \in DOMAIN todo /\ header' = tree /\ ~Splits
  BY <1>1 DEF DiskWritten
<1>5. call.pc \in Writing \cup {"opening", "return", "rolled_back"}
  BY <1>0, <1>2 DEF OneLeaf, Alone, LeafWritten
<1>6. \A i \in DOMAIN todo' : i + 1 \in DOMAIN todo /\ i + 1 # 1 /\ todo'[i] = todo[i + 1]
  <2>1. todo \in Seq(StorageCalls) BY <1>0, Running DEF OneLeaf
  <2>2. Tail(todo) \in Seq(StorageCalls) BY <1>2, <2>1, HeadTailProperties
  <2>3. DOMAIN todo' = 1..Len(todo') BY <1>2, <2>2, LenProperties
  <2>4. Len(todo') \in Nat BY <1>2, <2>2, LenProperties
  <2>5. \A i \in DOMAIN todo' : i + 1 # 1 BY <2>3, <2>4
  <2> QED BY <1>2, <2>1, <2>5, FirstAndRest
<1>7. ~Splits' BY <1>2, <1>4 DEF Splits, NoSplit, NoBlock
<1>8. Size(Root)' = Size(n) BY <1>4
<1>9. call.pc # "opening" => Size(n) \in Nat BY <1>4, <1>5, WithinTracked, CallIsAt
<1>10. call.pc = "opening" => ~tree.root_exists BY <1>0 DEF OneLeaf, Alone, LeafVisited
<1> HIDE DEF n
<1>11. CASE call.pc \in Writing
  <2>1. DOMAIN todo' = {} BY <1>0, <1>4, <1>6, <1>11 DEF Counting, HandleCounts
  <2>2. todo' = <<>>
    <3>1. todo \in Seq(StorageCalls) BY <1>0, Running DEF OneLeaf
    <3>2. Tail(todo) \in Seq(StorageCalls) BY <1>2, <3>1, HeadTailProperties
    <3>3. Tail(todo) # <<>> => 1 \in DOMAIN Tail(todo) BY <3>2, FirstAndRest
    <3> QED BY <1>2, <2>1, <3>3
  <2>3. Near(tree.entry_count, Size(n) - Uncounted, Slack) /\ Uncounted \in ByOne
    BY <1>0, <1>4, <1>11 DEF Counting, HandleCounts, Uncounted, ByOne, n
  <2>4. NoFaults => Near(tree.entry_count, Size(n), ByOne)
    <3>1. NoFaults => Near(tree.entry_count, Size(n) - Uncounted, {0}) BY <2>3, Slacks
    <3>2. Size(n) \in Int BY <1>9, <1>11, CallIsAt
    <3> QED BY <2>3, <3>1, <3>2, NearBy
  <2>5. Uncounted' = Uncounted BY <1>2 DEF Uncounted
  <2>6. HandleCounts'
    BY <1>2, <1>3, <1>8, <1>11, <2>1, <2>2, <2>3, <2>4, <2>5, CallIsAt DEF HandleCounts, ByOne
  <2>7. HeaderStays' => Near(tree.entry_count, Size(n), Slack)
    <3>1. Size(n) - 0 = Size(n) BY <1>9, <1>11, CallIsAt
    <3>2. HeaderStays' => Uncounted = 0
      BY <1>2, <1>11, <2>2, CallIsAt DEF HeaderStays, Uncounted
    <3> QED BY <2>3, <3>1, <3>2
  <2>8. HeaderCounts' BY <1>3, <1>4, <1>8, <2>4, <2>7 DEF HeaderCounts, ByOne
  <2>9. RollbackCounts'
    BY <1>0, <1>2, <1>3, <1>4, <1>8, <1>11, <2>1, CallIsAt DEF Counting, RollbackCounts, ByOne, n
  <2> QED BY <2>6, <2>8, <2>9 DEF Counting
<1>12. CASE call.pc \notin Writing
  <2>1. call.pc \in {"opening", "return", "rolled_back"} BY <1>5, <1>12
  <2>2. call.pc # "opening" /\ tree.root_exists =>
          \A i \in DOMAIN todo : Near(tree.entry_count, Size(todo[i].node), Slack)
    BY <2>1, WithinTracked, CallIsAt
  <2>3. tree.root_exists => Near(tree.entry_count, Size(n), Slack)
    BY <1>4, <1>10, <2>2 DEF n
  <2>4. tree.root_exists => Near(tree.entry_count, Size(n), ByOne)
    BY <1>9, <1>10, <2>3, NearBy
  <2>5. HandleCounts'
    BY <1>2, <1>3, <1>6, <1>8, <1>10, <1>12, <2>2, <2>3, <2>4, CallIsAt DEF HandleCounts, ByOne
  <2>6. HeaderCounts' BY <1>3, <1>4, <1>8, <2>3, <2>4 DEF HeaderCounts, ByOne
  <2>7. RollbackCounts'
    BY <1>0, <1>2, <1>3, <1>4, <1>6, <1>8, <2>1 DEF Counting, RollbackCounts, ByOne, n
  <2> QED BY <2>5, <2>6, <2>7 DEF Counting
<1> QED BY <1>11, <1>12

(* An I/O error, a crash, and a leaf that is too long.                     *)
LEMMA StorageFailsTracked == ASSUME Tracked, NoFaults, StorageFails PROVE Counting'
<1>0. OneLeaf BY DEF Tracked, Whole
<1>1. /\ DiskSame \/ DiskWritten
      /\ Abandon /\ (todo # <<>> \/ Loaded # {}) /\ ~NoFaults' /\ Slack' = ByOne
  BY <1>0, StorageFailsAlone DEF NoFaults, Slack, ByOne
<1>2. /\ todo' = <<>> /\ tree' = tree /\ call.pc \notin {"closed", "idle"} /\ LeafVisited'
      /\ \/ call.pc = "opening" /\ call'.pc = "closed"
         \/ /\ call.pc # "opening" /\ call'.pc = "rollback" /\ call'.req = call.req
            /\ call'.orig = call.orig
         \/ call.pc # "opening" /\ call'.pc = "idle"
  BY <1>0, <1>1, AbandonAlone
<1>3. /\ tree.root_exists /\ call.pc # "opening" => Near(tree.entry_count, Size(Root'), ByOne)
      /\ header'.root_exists => Near(header'.entry_count, Size(Root'), ByOne)
      /\ call.orig.root_exists /\ call.req.op = "delete_safe" =>
           Near(call.orig.entry_count, Size(Root'), ByOne)
  BY <1>1, <1>2, DiskTracked
<1>4. CASE call'.pc \in {"closed", "idle"}
  <2>1. call'.req = NoRequest BY <1>1, <1>4 DEF Abandon, Closed, Blank
  <2> QED BY <1>1, <1>2, <1>3, <1>4, <2>1, OutsideTracked, CallIsAt
<1>5. CASE call'.pc = "rollback"
  <2>1. Size(Root)' = Size(Root') OBVIOUS
  <2>2. call.req.op = "delete_safe" BY <1>1, <1>5 DEF Abandon, Closed, Blank
  <2>3. call.orig.root_exists BY <1>2, <1>5, CallIsAt DEF LeafVisited
  <2>4. HandleCounts' BY <1>1, <1>5, CallIsAt DEF HandleCounts
  <2>5. HeaderCounts' BY <1>1, <1>3, <2>1 DEF HeaderCounts
  <2>6. RollbackCounts' BY <1>1, <1>2, <1>3, <1>5, <2>1, <2>2, <2>3 DEF RollbackCounts
  <2> QED BY <2>4, <2>5, <2>6 DEF Counting
<1> QED BY <1>2, <1>4, <1>5

LEMMA CrashTracked == ASSUME Tracked, NoFaults, Crash PROVE Counting'
<1>0. OneLeaf BY DEF Tracked, Whole
<1>1. /\ DiskSame \/ DiskWritten
      /\ call'.pc = "closed" /\ todo' = <<>> /\ ~NoFaults' /\ call.pc # "closed"
      /\ Slack' = ByOne
  BY <1>0, CrashAlone DEF NoFaults, Slack, ByOne
<1>2. call'.req = NoRequest BY DEF Crash, Forget, Closed, Blank
<1>3. header'.root_exists => Near(header'.entry_count, Size(Root'), ByOne)
  <2>1. CASE call.pc # "idle" BY <1>1, <2>1, DiskTracked
  <2>2. CASE call.pc = "idle"
    <3>1. todo = <<>> BY <1>0, <2>2 DEF OneLeaf, IInv, InvIn, NothingPending
    <3>2. DiskSame BY <1>1, <3>1 DEF DiskWritten
    <3>3. Root' = Root /\ header' = header BY <3>2 DEF DiskSame
    <3> QED BY <3>3 DEF Tracked, Counting, HeaderCounts
  <2> QED BY <2>1, <2>2
<1> QED BY <1>1, <1>2, <1>3, OutsideTracked, CallIsAt

LEMMA InvalidBlockSizeTracked == ASSUME Tracked, InvalidBlockSize PROVE Counting'
<1>0. OneLeaf /\ Counting BY DEF Tracked, Whole
<1>1. /\ DiskSame /\ NoStorageCall /\ todo # <<>> /\ Abandon /\ call.pc \in Writing
  BY <1>0, InvalidBlockSizeAlone
<1>2. /\ todo' = <<>> /\ tree' = tree /\ LeafVisited'
      /\ \/ /\ call'.pc = "rollback" /\ call'.req = call.req /\ call'.orig = call.orig
         \/ call'.pc = "idle"
  BY <1>0, <1>1, AbandonAlone, CallIsAt
<1>3. /\ Near(tree.entry_count, Size(Root), Slack)
      /\ NoFaults /\ tree.root_exists => Near(tree.entry_count, Size(Root), ByOne)
  BY <1>0, <1>1, CallIsAt DEF Counting, HandleCounts
<1>4. HeaderStays BY <1>1 DEF HeaderStays
<1>5. header.root_exists => Near(header.entry_count, Size(Root), Slack)
  BY <1>0, <1>4 DEF Counting, HeaderCounts
<1>6. Size(Root)' = Size(Root) /\ Slack' = Slack /\ (NoFaults' <=> NoFaults) BY <1>1, Unstored
<1>7. RollbackCounts'
  <2>1. CASE call'.pc = "idle"
    <3>1. call'.req = NoRequest BY <1>1, <2>1 DEF Abandon, Closed, Blank
    <3> QED BY <2>1, <3>1, CallIsAt DEF RollbackCounts, NoRequest
  <2>2. CASE call'.pc = "rollback" /\ call'.req = call.req /\ call'.orig = call.orig
    <3>1. call.req.op = "delete_safe" BY <1>1, <2>2, CallIsAt DEF Abandon, Closed, Blank
    <3>2. call.pc = "delete_up"
      BY <1>0, <1>1, <3>1, CallIsAt DEF Counting, RollbackCounts
    <3>3. call.orig = tree BY <1>0, <3>1, <3>2 DEF Counting, RollbackCounts
    <3>4. Size(Root) \in Nat BY <1>1, WithinTracked, CallIsAt
    <3>5. Near(call.orig.entry_count, Size(Root), ByOne) BY <1>3, <3>3, <3>4, NearBy
    <3> QED BY <1>2, <1>3, <1>6, <2>2, <3>1, <3>3, <3>5 DEF RollbackCounts, ByOne
  <2> QED BY <1>2, <2>1, <2>2
<1> QED BY <1>1, <1>2, <1>3, <1>5, <1>6, <1>7, HandlerTracked, CallIsAt

(* Every step of a tree of one leaf.                                       *)
LEMMA NextTracked ==
  ASSUME Tracked, Next, saved'.next_block_id = 2, StorageFails \/ Crash => NoFaults
  PROVE  Counting'
<1>0. OneLeaf BY DEF Tracked, Whole
<1>1. CASE Open BY <1>1, OpenTracked
<1>2. CASE Close BY <1>2, CloseTracked
<1>3. CASE \E r \in Requests : Invoke(r) BY <1>3, InvokeTracked
<1>4. CASE StorageFails BY <1>4, StorageFailsTracked
<1>5. CASE Crash BY <1>5, CrashTracked
<1>6. CASE CallStep
  <2>1. CASE Opened \/ Return \/ RolledBack BY <2>1, OverTracked
  <2>2. CASE StorageCall BY <2>2, StorageCallTracked
  <2>3. CASE StartOnTree \/ StartOnEmptyTree
    BY <2>3, StartOnTreeTracked, StartOnEmptyTreeTracked
  <2>4. CASE GetFromLeaf \/ ScanLeaf \/ UpdateMissing \/ DeleteNothing BY <2>4, ReadsTracked
  <2>5. CASE InsertIntoLeaf \/ FinishInsert BY <2>5, InsertIntoLeafTracked, FinishInsertTracked
  <2>6. CASE DeleteFromLeaf \/ CountDeleted \/ FinishDelete \/ Rollback
    BY <2>6, DeleteFromLeafTracked, CountDeletedTracked, FinishDeleteTracked, RollbackTracked
  <2>7. CASE ClearLeaf \/ FinishClear BY <2>7, ClearLeafTracked, FinishClearTracked
  <2>8. CASE InvalidBlockSize BY <2>8, InvalidBlockSizeTracked
  <2> QED BY <1>0, <1>6, <2>1, <2>2, <2>3, <2>4, <2>5, <2>6, <2>7, <2>8, NoInnerNode
          DEF CallStep, Search, Insert, Delete, Clear
<1> QED BY <1>1, <1>2, <1>3, <1>4, <1>5, <1>6 DEF Next

-----------------------------------------------------------------------------
(* The invariant is inductive.                                             *)
IInvOneLeaf ==
  /\ InvIn(Usable) /\ OneLeafKept
  /\ saved.next_block_id = 2 => IInv

(* It holds of no tree at all.                                             *)
LEMMA InitOneLeaf == ASSUME Init, HistoryInit PROVE IInvOneLeaf
<1>1. InvIn(Usable) /\ IInv BY InitIInv, UsableInv
<1>2. /\ blocks = [ b \in {} |-> NewLeaf ] /\ freeList = <<>> /\ saved.free_blocks = <<>>
      /\ saved.next_block_id = 2 /\ nextId = 2
      /\ header = EmptyTree /\ tree = EmptyTree /\ todo = <<>>
  BY DEF Init, StorageInit, NewAllocator, NewMetadata
<1>3. /\ call.pc = "closed" /\ call.stack = <<>> /\ call.outcome = "NoChange"
      /\ last = NoRequest
  BY DEF Init, HistoryInit, Closed, Blank
<1>4. DOMAIN blocks = {} /\ IsFiniteSet(DOMAIN blocks) BY <1>2, FS_EmptySet
<1>5. Onward BY <1>3, <1>4 DEF Onward
<1>6. LeafStored
  <2>1. ~header.root_exists BY <1>2 DEF EmptyTree
  <2> QED BY <1>2, <1>4, <2>1 DEF LeafStored
<1>7. LeafVisited BY <1>3, CallIsAt DEF LeafVisited
<1>8. LeafWritten BY <1>2, <1>3 DEF LeafWritten, Splits
<1>9. AllOrNothing
  BY <1>3, CallIsAt DEF AllOrNothing, Remembering, HandleRight, DiskRight
<1>10. Counting
  <2>1. ~header.root_exists /\ ~tree.root_exists /\ call.req = NoRequest
    BY <1>2 DEF EmptyTree, Init, Closed, Blank
  <2> QED BY <1>3, <2>1, CallIsAt
          DEF Counting, HandleCounts, HeaderCounts, RollbackCounts, NoRequest
<1> QED BY <1>1, <1>5, <1>6, <1>7, <1>8, <1>9, <1>10 DEF IInvOneLeaf, OneLeafKept, Alone

(* A step that changes nothing.                                            *)
LEMMA StillOneLeaf ==
  ASSUME UNCHANGED allvars, Alone
  PROVE  Alone' /\ (AllOrNothing => AllOrNothing') /\ (Counting => Counting')
<1>1. /\ blocks' = blocks /\ saved' = saved /\ freeList' = freeList /\ header' = header
      /\ tree' = tree /\ call' = call /\ todo' = todo /\ errors' = errors /\ crashes' = crashes
      /\ before' = before /\ last' = last
  BY DEF allvars, vars
<1>2. Root' = Root BY <1>1 DEF Root, ROOT_ID
<1>3. /\ LeafStored' /\ LeafVisited' /\ (Splits' <=> Splits)
  BY <1>1, <1>2 DEF Alone, LeafStored, LeafVisited, ROOT_ID, Splits, NoSplit, NoBlock
<1>4. \A i \in DOMAIN todo' : WritesRoot(todo[i])' <=> WritesRoot(todo[i])
  BY <1>1 DEF WritesRoot, ROOT_ID
<1>5. LeafWritten' BY <1>1, <1>3, <1>4 DEF Alone, LeafWritten
<1>6. Shows' = Shows /\ Held(Root)' = Held(Root) BY <1>1, <1>2 DEF Shows
<1>7. AllOrNothing => AllOrNothing'
  BY <1>1, <1>3, <1>6
     DEF AllOrNothing, Remembering, HandleRight, DiskRight, NoFaults, Outcomes, ROOT_ID, NoRequest
<1>8. Slack' = Slack /\ (NoFaults' <=> NoFaults) /\ Size(Root)' = Size(Root)
  BY <1>1, <1>2 DEF NoFaults, Slack, ByOne
<1>9. Uncounted' = Uncounted /\ (HeaderStays' <=> HeaderStays)
  BY <1>1 DEF Uncounted, HeaderStays, Writing
<1>10. Counting => Counting'
  BY <1>1, <1>3, <1>8, <1>9
     DEF Counting, HandleCounts, HeaderCounts, RollbackCounts, Away, Writing, Undoing, ByOne
<1> QED BY <1>3, <1>5, <1>7, <1>10 DEF Alone

(* Every step keeps it.                                                    *)
LEMMA NextOneLeaf ==
  ASSUME OneEntryFits, IInvOneLeaf, [Next /\ HistoryNext]_allvars
  PROVE  IInvOneLeaf'
<1>1. InvIn(Usable) /\ Onward BY DEF IInvOneLeaf, OneLeafKept
<1>2. [Next]_vars BY DEF allvars
<1>3. InvIn(Usable)' BY <1>1, <1>2, UsableInv
<1>4. Onward' /\ Grows BY <1>1, <1>2, <1>3, NextGrows
<1>5. saved'.next_block_id = 2 => saved.next_block_id = 2
  <2>1. saved.next_block_id \in Nat \ {0, 1}
    BY <1>1 DEF InvIn, TypeIn, StorageTypeIn, FileMetadata, Allotted
  <2> QED BY <1>4, <2>1 DEF Grows
<1>6. ASSUME saved'.next_block_id = 2
      PROVE  IInv' /\ Alone' /\ (Once' => AllOrNothing' /\ Counting')
  <2>0. IInv BY <1>5, <1>6 DEF IInvOneLeaf
  <2>1. Alone /\ (Once => AllOrNothing /\ Counting)
    BY <1>5, <1>6 DEF IInvOneLeaf, OneLeafKept, Once
  <2>1a. IInv'
    <3>1. Unmixed BY <2>1 DEF Unmixed, Rebalances, Alone, LeafVisited
    <3> QED BY <1>2, <2>0, <3>1, NextIInv
  <2>2. OneLeaf BY <2>0, <2>1 DEF OneLeaf
  <2>3. CASE UNCHANGED allvars
    <3>1. Once' => Once BY <2>3 DEF allvars, vars, Once
    <3> QED BY <2>1, <2>1a, <2>3, <3>1, StillOneLeaf
  <2>4. CASE Next /\ HistoryNext
    <3>1. Alone' BY <1>6, <2>2, <2>4, NextAlone
    <3>2. Once' => Once /\ (StorageFails \/ Crash => NoFaults) BY <1>1, <2>4, FailuresMount
    <3>3. Once => Whole /\ Tracked BY <1>1, <2>1, <2>2, <2>4 DEF Whole, Tracked, Onward
    <3>4. Once' => AllOrNothing' BY <1>6, <2>4, <3>2, <3>3, NextWhole
    <3>5. Once' => Counting' BY <1>6, <2>4, <3>2, <3>3, NextTracked
    <3> QED BY <2>1a, <3>1, <3>4, <3>5
  <2> QED BY <2>3, <2>4
<1> QED BY <1>3, <1>4, <1>6 DEF IInvOneLeaf, OneLeafKept, Once

(* What the invariant says of a client that looks after a failure.         *)
LEMMA OneLeafIsDurable ==
  ASSUME OneEntryFits, IInvOneLeaf
  PROVE  OneLeafDurable
<1> SUFFICES ASSUME saved.next_block_id = 2, call.pc \in {"idle", "closed"}, last # NoRequest, Once
             PROVE  Visible \in Outcomes
  BY DEF OneLeafDurable, Durable, Outcomes, Once
<1>1. OneLeaf /\ AllOrNothing /\ IsFiniteSet(DOMAIN blocks)
  BY DEF IInvOneLeaf, OneLeafKept, OneLeaf, Onward, Once
<1>2. ROOT_ID \in DOMAIN blocks BY <1>1 DEF AllOrNothing, Remembering
<1>3. ASSUME NEW e PROVE Holds(e) = View(e, Root)
  BY <1>1, <1>2, TheLeaf, SeenAlone, Running DEF OneLeaf, StorageTypeOK, StorageTypeIn
<1>4. CASE call.pc = "idle"
  <2>1. Visible = Shows BY <1>3, <1>4 DEF Visible, Shows
  <2> QED BY <1>1, <1>4, <2>1, CallIsAt DEF AllOrNothing, HandleRight
<1>5. CASE call.pc = "closed"
  <2>1. Visible = Held(Root) BY <1>1, <1>2, <1>3, <1>5, SameWithoutRoot DEF Visible
  <2> QED BY <1>1, <1>5, <2>1, CallIsAt DEF AllOrNothing, DiskRight
<1> QED BY <1>4, <1>5

(* What it says of the count.                                              *)
LEMMA OneLeafIsCounted ==
  ASSUME OneEntryFits, IInvOneLeaf
  PROVE  CountWithinOne
<1> DEFINE n == Root.key_count
           c == tree.entry_count
<1> SUFFICES ASSUME Quiet, Once, saved.next_block_id = 2, tree.root_exists
             PROVE  c \in { i % CountWidth : i \in {n - 1, n, n + 1} }
  BY DEF CountWithinOne, Once, Root
<1>1. call.pc = "idle" /\ todo = <<>> BY DEF Quiet
<1>2. OneLeaf /\ Counting BY DEF IInvOneLeaf, OneLeafKept, OneLeaf, Once
<1>3. ROOT_ID \in DOMAIN blocks BY <1>1, <1>2, Running DEF OneLeaf
<1>4. n = Size(Root) /\ Size(Root) \in Nat BY <1>2, <1>3, TheLeaf, NodeParts DEF Size
<1>5. Near(c, Size(Root), Slack) BY <1>1, <1>2, CallIsAt DEF Counting, HandleCounts
<1>6. Near(c, Size(Root), ByOne) BY <1>4, <1>5, NearBy
<1> HIDE DEF n, c
<1>7. PICK d \in ByOne : c = (n + d) % CountWidth BY <1>4, <1>6 DEF Near
<1>8. n + d \in {n - 1, n, n + 1} BY <1>4, <1>7 DEF ByOne
<1> QED BY <1>7, <1>8

(* The invariant holds in every reachable state.                           *)
LEMMA AlwaysOneLeaf == ASSUME OneEntryFits PROVE HistorySpec => []IInvOneLeaf
<1>1. Init /\ HistoryInit => IInvOneLeaf BY InitOneLeaf
<1>2. IInvOneLeaf /\ [Next /\ HistoryNext]_allvars => IInvOneLeaf' BY NextOneLeaf
<1> QED BY <1>1, <1>2, PTL DEF HistorySpec

(* As long as the tree has never had but one leaf, a call that one I/O     *)
(* error or one crash has cut off has all of its effect or none: what is   *)
(* found afterwards, in the same handle or by opening the tree again, is   *)
(* what the tree held before the call or what the call makes of it.        *)
THEOREM OneLeafAllOrNothing == ASSUME OneEntryFits PROVE HistorySpec => []OneLeafDurable
<1>1. IInvOneLeaf => OneLeafDurable BY OneLeafIsDurable
<1> QED BY <1>1, AlwaysOneLeaf, PTL

(* Its count of entries is then off by one at most: one too low where an   *)
(* insertion was cut off, one too high where a deletion was, and never     *)
(* further off, whatever delete_safe puts back.                            *)
THEOREM OneLeafCounted == ASSUME OneEntryFits PROVE HistorySpec => []CountWithinOne
<1>1. IInvOneLeaf => CountWithinOne BY OneLeafIsCounted
<1> QED BY <1>1, AlwaysOneLeaf, PTL
=============================================================================
