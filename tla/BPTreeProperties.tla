--------------------------- MODULE BPTreeProperties ---------------------------
(***************************************************************************)
(* What makes the tree of BPTree correct.  The first half walks the blocks *)
(* on disk the way the read-only methods of the tree do; the second half   *)
(* states the properties.  A walk carries "fuel", the number of levels it  *)
(* may still go down, so that it ends on a damaged tree as well.           *)
(***************************************************************************)
EXTENDS BPTree

Fuel == Cardinality(DOMAIN blocks)

-----------------------------------------------------------------------------
(* get: from a block down to the leaf where a key belongs.                 *)

Lookup[fuel \in Nat] == [ id \in BlockId |-> [ k \in Key |->
  IF fuel = 0 \/ id \notin DOMAIN blocks THEN None
  ELSE IF IsLeaf(blocks[id]) THEN Get(blocks[id], k)
  ELSE Lookup[fuel - 1][blocks[id].child_ids[FindKeyIndex(blocks[id], k) + 1]][k] ] ]

Found(k) == Lookup[Fuel][ROOT_ID][k]

(* collect_blocks_recursive: the blocks from a block down, in order.       *)
BlocksBelow[fuel \in Nat] == [ id \in BlockId |->
  IF fuel = 0 \/ id \notin DOMAIN blocks THEN <<id>>
  ELSE <<id>> \o FlattenSeq([ i \in DOMAIN blocks[id].child_ids |->
                               BlocksBelow[fuel - 1][blocks[id].child_ids[i]] ]) ]

(* The leaves alone.                                                       *)
LeavesBelow[fuel \in Nat] == [ id \in BlockId |->
  IF fuel = 0 \/ id \notin DOMAIN blocks THEN <<>>
  ELSE IF IsLeaf(blocks[id]) THEN <<id>>
  ELSE FlattenSeq([ i \in DOMAIN blocks[id].child_ids |->
                      LeavesBelow[fuel - 1][blocks[id].child_ids[i]] ]) ]

(* range(..): the leaves from a leaf on, along next_leaf.                  *)
Chain[fuel \in Nat] == [ id \in OptionBlockId |->
  IF fuel = 0 \/ id \notin DOMAIN blocks THEN <<>>
  ELSE <<id>> \o Chain[fuel - 1][blocks[id].next_leaf] ]

Leftmost[fuel \in Nat] == [ id \in BlockId |->
  IF fuel = 0 \/ id \notin DOMAIN blocks \/ IsLeaf(blocks[id]) THEN id
  ELSE Leftmost[fuel - 1][Head(blocks[id].child_ids)] ]

Scanned == Chain[Fuel][Leftmost[Fuel][ROOT_ID]]

ScannedEntries ==
  UNION { { <<blocks[b].keys[i], blocks[b].values[i]>> : i \in DOMAIN blocks[b].keys } :
            b \in { x \in ToSet(Scanned) : IsLeaf(blocks[x]) } }

(* validate_recursive visits every node with its depth and the bounds that *)
(* the separators above it set, here sets of at most one key.              *)
Children(s) ==
  LET n == blocks[s.id]
  IN { [ id |-> n.child_ids[i], depth |-> s.depth + 1,
         min |-> IF i = 1 THEN s.min ELSE {n.keys[i - 1]},
         max |-> IF i = Len(n.keys) + 1 THEN s.max ELSE {n.keys[i]} ] : i \in DOMAIN n.child_ids }

Level[d \in Nat] ==
  IF d = 0 THEN { [ id |-> ROOT_ID, depth |-> 0, min |-> {}, max |-> {} ] }
  ELSE UNION { Children(s) : s \in { x \in Level[d - 1] : x.id \in DOMAIN blocks } }

Visited == UNION { Level[d] : d \in 0..Fuel }

WithinBounds(s) ==
  \A i \in DOMAIN blocks[s.id].keys :
    /\ \A m \in s.min : m <= blocks[s.id].keys[i]
    /\ \A m \in s.max : blocks[s.id].keys[i] < m

Leaves == { s \in Visited : IsLeaf(blocks[s.id]) }

CountedEntries == MapThenSumSet(LAMBDA s : blocks[s.id].key_count, Leaves) % CountWidth

(* validate                                                                *)
Validates ==
  IF ~tree.root_exists THEN tree.entry_count = 0
  ELSE /\ \A s \in Visited :
            s.id \in DOMAIN blocks /\ ValidNode(blocks[s.id]) /\ WithinBounds(s)
       /\ \A s, t \in Leaves : s.depth = t.depth
       /\ tree.entry_count = CountedEntries

-----------------------------------------------------------------------------
CallTypeIn(c, nodes) ==
  /\ c \in CallsIn(nodes)
  /\ c.pc = "scan" \/ (c.pc \in {"start", "descend"} /\ c.req.op = "range") =>
       c.answer \in Entries
  /\ (c.pc = "insert_up" /\ c.stack # <<>>) => c.split # NoSplit

(* Every node that is in a block, on the path or on its way to a block is  *)
(* one of "nodes" and leads to blocks a tree may be handed; only such      *)
(* blocks are freed.                                                       *)
TypeIn(nodes) ==
  /\ StorageTypeIn(nodes)
  /\ header \in Metadata /\ tree \in Metadata
  /\ CallTypeIn(call, nodes)
  /\ todo \in Seq(StorageCallsIn(nodes))
  /\ errors \in 0..MaxErrors /\ crashes \in 0..MaxCrashes

(* Whatever fails, a node never has a key without a value or a child for   *)
(* it, so that no search indexes past the end of what a node has.          *)
TypeOK == TypeIn(Usable)

(* A node's parts have the lengths that its own validate() asks for.       *)
NodesConsistent == \A b \in DOMAIN blocks : ShapeOK(blocks[b])

(* Whatever fails and however often, block 1 stays the root: it is never   *)
(* handed out nor freed, no node has it as a child, and an open handle     *)
(* always finds a node in it.                                              *)
RootKept ==
  /\ call.pc \notin {"closed", "opening"} => ROOT_ID \in DOMAIN blocks
  /\ ROOT_ID \notin ToSet(freeList) \cup ToSet(saved.free_blocks) \cup {nextId}
  /\ \A b \in DOMAIN blocks : ROOT_ID \notin ToSet(blocks[b].child_ids)

Quiet == call.pc = "idle" /\ todo = <<>>

NoFaults == errors = 0 /\ crashes = 0

(* After every call the tree passes its own validate(): node shapes, keys  *)
(* between the separators above them, all leaves at one depth, and a count *)
(* of entries that is exact.                                               *)
ValidatesWhenQuiet == Quiet /\ NoFaults => Validates

(* After every call a scan along next_leaf visits exactly the leaves that  *)
(* the tree reaches from its root, in the order of their keys: splits and  *)
(* merges keep the two ways into the data in step.                         *)
ChainMatchesTree ==
  Quiet /\ NoFaults /\ tree.root_exists => Scanned = LeavesBelow[Fuel][ROOT_ID]

(* After every call each block file is the root or the child of exactly    *)
(* one node, and every id ever handed out is either such a block or on the *)
(* free list, once: nothing leaks, nothing is shared, nothing is free and  *)
(* in use.                                                                 *)
BlocksAccounted ==
  Quiet /\ NoFaults =>
    LET used == IF tree.root_exists THEN BlocksBelow[Fuel][ROOT_ID] ELSE <<ROOT_ID>>
        ids  == used \o freeList
    IN /\ ToSet(used) = DOMAIN blocks
       /\ IsInjective(ids)
       /\ ToSet(ids) = 1..(nextId - 1)

(* After every call each node other than the root holds between min_keys   *)
(* and max_keys_per_node keys, and the root does not lead to one child     *)
(* only: rebalancing is never left half done.                              *)
Balanced ==
  Quiet /\ NoFaults /\ tree.root_exists =>
    /\ \A b \in DOMAIN blocks : Len(blocks[b].keys) <= MaxKeys
    /\ \A b \in DOMAIN blocks \ {ROOT_ID} : Len(blocks[b].keys) >= MinKeys
    /\ IsInternal(blocks[ROOT_ID]) => blocks[ROOT_ID].keys # <<>>

(* A tree without entries has no root (a test asserts it), where nodes may *)
(* hold three keys: with two none underflows, and leaves may be empty.     *)
EmptyTreeHasNoRoot ==
  Quiet /\ NoFaults /\ tree.entry_count = 0 => ~tree.root_exists

(* After every call the handle's metadata and the allocator's state are    *)
(* the ones on disk, so closing the tree, which writes nothing, loses      *)
(* nothing.                                                                *)
HandleMatchesDisk ==
  Quiet /\ NoFaults =>
    /\ tree = header
    /\ saved = [ next_block_id |-> nextId, free_blocks |-> freeList ]

(* No step writes a path node from a stale copy: the node an ancestor call *)
(* of insert or delete holds since it went down is still the one on disk   *)
(* when the recursion comes back to it.                                    *)
FramesFresh ==
  NoFaults => \A i \in DOMAIN call.stack :
                LET f == call.stack[i]
                IN todo = <<>> /\ call.pc # "reload" =>
                     f.id \in DOMAIN blocks /\ blocks[f.id] = f.node

(* Where no entry is encoded in more than its share (a run without heavy   *)
(* values), a call that rebalances or splits never has a node that is      *)
(* longer than a block, so that none fails halfway with InvalidBlockSize.  *)
NeverRefused == NoFaults /\ todo # <<>> => ~Refused(Head(todo))

(* No call comes upon a block that is not there, neither one that it loads *)
(* nor one that it frees: no id outlives its block, in a node on disk or   *)
(* in a copy that the call has kept.                                       *)
NothingDangles ==
  NoFaults => IF todo = <<>> THEN Loaded \subseteq DOMAIN blocks
              ELSE Head(todo).do = "free" => Head(todo).id \in DOMAIN blocks

(* One failure, whatever it interrupts, never makes the allocator list an  *)
(* id twice, nor one it has not handed out: no call is given a block that  *)
(* another node already lives in.  In a deep tree this is not so: see the  *)
(* run deep_merge.                                                         *)
AllocatorSound ==
  errors + crashes <= 1 =>
    /\ IsInjective(freeList) /\ IsInjective(saved.free_blocks)
    /\ ToSet(freeList) \subseteq 2..(nextId - 1)
    /\ ToSet(saved.free_blocks) \subseteq 2..(saved.next_block_id - 1)

(* But it is so as long as there are too few blocks for three levels: a    *)
(* root, two inner nodes and their leaves take seven.                      *)
TwoLevelsSound == saved.next_block_id <= 7 => AllocatorSound

(* What is on disk of the allocator is what it has in memory, between any  *)
(* two storage calls and after any number of crashes, as long as no call   *)
(* has returned an error: a process that dies between two calls loses no   *)
(* block and hands none out twice.                                         *)
AllocatorPersisted ==
  errors = 0 /\ call.pc # "closed" => saved = AllocatorMetadata

(* No block of the tree is free or has two parents.                        *)
OwnsItsBlocks == IsInjective(BlocksBelow[Fuel][ROOT_ID] \o freeList)

(* An insertion into a tree that has a root and in which no block is free  *)
(* or has two parents (OwnsItsBlocks), however it is interrupted, never    *)
(* makes a scan lose an entry: the new right half is on disk before the    *)
(* left one is cut.                                                        *)
InsertKeepsScan ==
  [][ /\ call.req.op \in {"upsert", "update"} /\ call.orig.root_exists
      /\ OwnsItsBlocks
      => \A e \in ScannedEntries : e[1] # call.req.key => e \in ScannedEntries' ]_vars

(* One failure in a tree that has never had but one leaf leaves the count  *)
(* of entries wrong by one at most: one too low when an insertion was cut  *)
(* short, one too high when a deletion was.                                *)
CountWithinOne ==
  Quiet /\ errors + crashes <= 1 /\ saved.next_block_id = 2 /\ tree.root_exists =>
    LET n == blocks[ROOT_ID].key_count
    IN tree.entry_count \in { i % CountWidth : i \in {n - 1, n, n + 1} }

(* A scan comes to an end: no leaf leads back to itself along next_leaf.   *)
ScansEnd == Quiet /\ tree.root_exists => IsInjective(Scanned)

(* What binary_search returns on keys out of order is unspecified.  Faults *)
(* can lead to such a node, and what a search does then is not explored.   *)
Searchable ==
  call.pc \in {"descend", "scan", "insert_up"} /\ todo = <<>> =>
    NoFaults \/ \A b \in DOMAIN blocks : Sorted(blocks[b].keys)
=============================================================================
