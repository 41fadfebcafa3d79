-------------------------------- MODULE BPTree --------------------------------
(***************************************************************************)
(* The B+ tree of src/src/bptree/tree.rs: one handle, one call at a time   *)
(* (the methods borrow the handle), every call a sequence of calls of the  *)
(* block storage.  A step loads the nodes it needs, computes, and leaves   *)
(* in "todo" the storage calls the code makes next, with the very nodes it *)
(* computed from what it loaded; the storage calls are then made one step  *)
(* each, so that a crash or an I/O error may hit before, after and in the  *)
(* middle of each of them.                                                 *)
(***************************************************************************)
EXTENDS BlockStorage

CONSTANTS
  MaxKeys,        \* max_keys_per_node
  CountWidth,     \* entry_count is an integer modulo this (2^64 in the code)
  Fits(_, _),     \* does a node fit in a block, of this id?
  Requests,       \* the calls the client may make
  MaxErrors,      \* bound: storage calls that fail
  MaxCrashes      \* bound: crashes of the process

ASSUME MaxKeysAssumption == MaxKeys \in Nat /\ MaxKeys >= 2     \* .max(2)
ASSUME CountWidthAssumption == CountWidth \in Nat \ {0, 1}

Bound == [ kind : {"Included", "Excluded"}, key : Key ] \cup [ kind : {"Unbounded"} ]

Request ==
       [ op : {"upsert", "update"}, key : Key, val : Val ]
  \cup [ op : {"get", "delete", "delete_safe"}, key : Key ]
  \cup [ op : {"range"}, start : Bound, end : Bound ]
  \cup [ op : {"clear"} ]

ASSUME RequestsAssumption == Requests \subseteq Request
ASSUME FaultsAssumption == MaxErrors \in Nat /\ MaxCrashes \in Nat

NoRequest == [ op |-> "none" ]

VARIABLES
  header,     \* on disk, in front of the root node in block 1: BPTreeMetadata
  tree,       \* in memory: the handle's root_exists and entry_count
  call,       \* in memory: the running call
  todo,       \* in memory: the storage calls the running call makes next
  errors, crashes   \* how many there were

vars == <<blocks, saved, nextId, freeList, header, tree, call, todo, errors, crashes>>

ROOT_ID == 1

Metadata == [ root_exists : BOOLEAN, entry_count : 0..(CountWidth - 1) ]

EmptyTree == [ root_exists |-> FALSE, entry_count |-> 0 ]

(* A storage call to make, with nodes of the set "nodes".  AllocateBlock's *)
(* id is the one it will return.                                           *)
StorageCallsIn(nodes) ==
  { c \in [ do : {"save", "free", "allocate"}, id : BlockId, node : nodes ] :
      c.do = "free" => c.id \in Allotted }

Save(id, node) == [ do |-> "save", id |-> id, node |-> node ]
Free(id)       == [ do |-> "free", id |-> id, node |-> NewLeaf ]
Allocate       == [ do |-> "allocate", id |-> FreshBlock, node |-> NewLeaf ]

(* A node on the path from the root, as loaded, and the child taken.       *)
Frame(id, n, i) == [ id |-> id, node |-> n, idx |-> i ]

FramesIn(nodes) ==
  { f \in [ id : BlockId, node : nodes, idx : Nat ] :
      IsInternal(f.node) /\ f.idx \in DOMAIN f.node.child_ids }

NoSplit == [ key |-> None, id |-> NoBlock ]

(* The running call: where it is (pc), the node it visits (at), the path   *)
(* to it (stack), what the recursive call below returned (split, outcome), *)
(* what it will return (answer) and the metadata it started from (orig).   *)
Blank == [ pc |-> "idle", req |-> NoRequest, at |-> NoBlock, stack |-> <<>>,
           split |-> NoSplit, outcome |-> "NoChange", answer |-> None,
           orig |-> EmptyTree ]

Closed == [ Blank EXCEPT !.pc = "closed" ]

Entries == Seq(Key \X Val)

CallsIn(nodes) ==
  [ pc      : {"closed", "opening", "idle", "start", "descend", "scan", "insert_up",
               "delete_up", "reload", "root_underflow", "rollback", "rolled_back",
               "clear", "clear_up", "return"},
    req     : Request \cup {NoRequest},
    at      : OptionBlockId,
    stack   : Seq(FramesIn(nodes)),
    split   : [ key : Key, id : Allotted ] \cup {NoSplit},
    outcome : {"NoChange", "KeyRemoved", "Underflow"},
    answer  : Val \cup {None} \cup Entries,
    orig    : Metadata ]

MinKeys == ((MaxKeys + 1) \div 2) - 1

Init ==
  /\ StorageInit
  /\ header = EmptyTree
  /\ tree = EmptyTree
  /\ call = Closed
  /\ todo = <<>>
  /\ errors = 0 /\ crashes = 0

-----------------------------------------------------------------------------
(* Storage calls.  save_node writes a block and syncs; the root's block    *)
(* begins with the handle's metadata as it is at that moment.              *)

(* Mutant: the metadata is written with the first root only.               *)
SaveHeaderOnce(id) ==
  header' = IF id = ROOT_ID /\ ~header.root_exists THEN tree ELSE header

SaveHeader(id) == header' = IF id = ROOT_ID THEN tree ELSE header

WriteHeader(c) == IF c.do = "save" THEN SaveHeader(c.id) ELSE UNCHANGED header

Perform(c) == Done(c) /\ WriteHeader(c)

PerformHalf(c) == HalfDone(c) /\ WriteHeader(c)

(* The call returns an error.  save_node can also fail in its sync, when   *)
(* its write_block has succeeded.                                          *)
Interrupted(c) ==
  \/ NotDone(c) /\ UNCHANGED header
  \/ HalfBroken(c) /\ WriteHeader(c)
  \/ c.do = "save" /\ Perform(c)

(* A node whose encoding is longer than a block is refused before anything *)
(* is written.                                                             *)
Refused(c) == c.do = "save" /\ ~Fits(c.id, c.node)

StorageCall ==
  /\ todo # <<>>
  /\ ~Refused(Head(todo))
  /\ Perform(Head(todo))
  /\ todo' = Tail(todo)
  /\ UNCHANGED <<tree, call, errors, crashes>>

(* The blocks a handler loads, besides the ones it loads again.            *)
(* Mutant: a sibling lends its last key above the limit and one more.      *)
CanLendTooMuch(id) == blocks[id].key_count >= MinKeys

CanLend(id) == blocks[id].key_count > MinKeys

Sibling(parent, i) == IF i \in DOMAIN parent.child_ids THEN parent.child_ids[i] ELSE NoBlock

UnderflowLoads(id, i) ==
  IF id \notin DOMAIN blocks \/ i \notin DOMAIN blocks[id].child_ids THEN {id}
  ELSE LET left  == Sibling(blocks[id], i - 1)
           right == Sibling(blocks[id], i + 1)
           lends == left \in DOMAIN blocks /\ CanLend(left)
       IN ({blocks[id].child_ids[i], left} \cup IF lends THEN {} ELSE {right}) \ {NoBlock}

CollapsesRoot == blocks[ROOT_ID].key_count = 0 /\ blocks[ROOT_ID].child_ids # <<>>

(* Mutants: a root leaf is never dropped; it is dropped with its last key. *)
EmptiesRootNever == FALSE
EmptiesRootEarly == blocks[ROOT_ID].key_count <= 1 /\ IsLeaf(blocks[ROOT_ID])

EmptiesRoot   == blocks[ROOT_ID].key_count = 0 /\ IsLeaf(blocks[ROOT_ID])

Loaded ==
  CASE call.pc \in {"descend", "scan", "clear"} -> {call.at}
    [] call.pc = "reload" -> {Last(call.stack).id}
    [] call.pc = "delete_up" /\ call.stack # <<>> /\ call.outcome = "Underflow" ->
         UnderflowLoads(Last(call.stack).id, Last(call.stack).idx)
    [] call.pc = "root_underflow" ->
         {ROOT_ID} \cup IF CollapsesRoot THEN {Head(blocks[ROOT_ID].child_ids)} ELSE {}
    [] OTHER -> {}

(* The handlers below run when no storage call is outstanding.             *)
Runs(pc) == call.pc = pc /\ todo = <<>> /\ Loaded \subseteq DOMAIN blocks

NoStorageCall == UNCHANGED <<blocks, saved, nextId, freeList, header, errors, crashes>>

SaveMetadata(meta) == Save(ROOT_ID, IF meta.root_exists THEN blocks[ROOT_ID] ELSE NewLeaf)

Answer(a) == [ call EXCEPT !.pc = "return", !.answer = a, !.stack = <<>>, !.at = NoBlock,
                           !.split = NoSplit, !.outcome = "NoChange" ]

-----------------------------------------------------------------------------
(* Opening a tree: FileBlockStorage::new, then BPTree::new.                *)

Open ==
  /\ call.pc = "closed"
  /\ OpenStorage
  /\ IF ROOT_ID \in DOMAIN blocks
     THEN /\ tree' = header
          /\ call' = Blank
          /\ UNCHANGED todo
     ELSE /\ tree' = EmptyTree
          /\ call' = [ Blank EXCEPT !.pc = "opening" ]
          /\ todo' = << Save(ROOT_ID, NewLeaf) >>
  /\ UNCHANGED <<header, errors, crashes>>

Opened ==
  /\ Runs("opening")
  /\ call' = Blank
  /\ UNCHANGED <<tree, todo>> /\ NoStorageCall

(* The client drops the handle between two calls: nothing is written.      *)
Forget ==
  /\ call' = Closed
  /\ todo' = <<>>
  /\ tree' = EmptyTree
  /\ ForgetAllocator

Close ==
  /\ call.pc = "idle"
  /\ Forget
  /\ UNCHANGED <<disk, header, errors, crashes>>

-----------------------------------------------------------------------------
(* Calls begin and end.                                                    *)

Invoke(r) ==
  /\ call.pc = "idle"
  /\ call' = [ Blank EXCEPT !.pc = "start", !.req = r, !.orig = tree,
                            !.answer = IF r.op = "range" THEN <<>> ELSE None ]
  /\ UNCHANGED <<tree, todo>> /\ NoStorageCall

Return ==
  /\ Runs("return")
  /\ call' = Blank
  /\ UNCHANGED <<tree, todo>> /\ NoStorageCall

StartOnTree ==
  /\ Runs("start")
  /\ tree.root_exists
  /\ call' = [ call EXCEPT !.pc = IF call.req.op = "clear" THEN "clear" ELSE "descend",
                           !.at = ROOT_ID ]
  /\ UNCHANGED <<tree, todo>> /\ NoStorageCall

StartOnEmptyTree ==
  /\ Runs("start")
  /\ ~tree.root_exists
  /\ call' = Answer(call.answer)
  /\ IF call.req.op = "upsert"
     THEN /\ tree' = [ root_exists |-> TRUE, entry_count |-> 1 ]
          /\ todo' = << Save(ROOT_ID, InsertLeaf(NewLeaf, call.req.key, call.req.val)) >>
     ELSE UNCHANGED <<tree, todo>>
  /\ NoStorageCall

-----------------------------------------------------------------------------
(* Searching: from the root to a leaf.                                     *)

ChildPosition(n) ==
  IF call.req.op # "range" THEN FindKeyIndex(n, call.req.key) + 1
  ELSE IF call.req.start.kind = "Unbounded" THEN 1
  ELSE FindKeyIndex(n, call.req.start.key) + 1

Descend ==
  /\ Runs("descend")
  /\ LET n == blocks[call.at]
         i == ChildPosition(n)
     IN /\ IsInternal(n)
        /\ call' = [ call EXCEPT !.at = n.child_ids[i],
                                 !.stack = Append(@, Frame(call.at, n, i)) ]
  /\ UNCHANGED <<tree, todo>> /\ NoStorageCall

AtLeaf(ops) ==
  /\ Runs("descend")
  /\ IsLeaf(blocks[call.at])
  /\ call.req.op \in ops

GetFromLeaf ==
  /\ AtLeaf({"get"})
  /\ call' = Answer(Get(blocks[call.at], call.req.key))
  /\ UNCHANGED <<tree, todo>> /\ NoStorageCall

(* Keys are sorted, so those in the range are a contiguous part of a leaf. *)
BeforeStart(k) ==
  \/ call.req.start.kind = "Included" /\ k < call.req.start.key
  \/ call.req.start.kind = "Excluded" /\ k <= call.req.start.key

(* Mutant: an excluded end is treated as an included one.                  *)
PastEndInclusive(k) == call.req.end.kind # "Unbounded" /\ k > call.req.end.key

PastEnd(k) ==
  \/ call.req.end.kind = "Included" /\ k > call.req.end.key
  \/ call.req.end.kind = "Excluded" /\ k >= call.req.end.key

ScanLeaf ==
  /\ AtLeaf({"range"}) \/ (Runs("scan") /\ IsLeaf(blocks[call.at]))
  /\ LET n     == blocks[call.at]
         first == Cardinality({ i \in DOMAIN n.keys : BeforeStart(n.keys[i]) }) + 1
         last  == Cardinality({ i \in DOMAIN n.keys : ~PastEnd(n.keys[i]) })
         found == [ i \in 1..Len(n.keys) |-> <<n.keys[i], n.values[i]>> ]
         acc   == call.answer \o SubSeq(found, first, last)
     IN call' = IF last < Len(n.keys) \/ n.next_leaf = NoBlock
                THEN Answer(acc)
                ELSE [ call EXCEPT !.pc = "scan", !.at = n.next_leaf,
                                   !.stack = <<>>, !.answer = acc ]
  /\ UNCHANGED <<tree, todo>> /\ NoStorageCall

-----------------------------------------------------------------------------
(* Inserting: the leaf, then the ancestors as long as nodes split.         *)

(* Mutants: the left half is saved first; the leaf is not linked to its    *)
(* new right half.                                                         *)
SplitWritesLeftFirst(id, left, right) ==
  << Allocate, Save(id, left), Save(FreshBlock, right) >>
LinkToRightDropped(left) == left

SplitWrites(id, left, right) == << Allocate, Save(FreshBlock, right), Save(id, left) >>

LinkToRight(left) == IF IsLeaf(left) THEN [ left EXCEPT !.next_leaf = FreshBlock ] ELSE left

(* Save a changed node, or its two halves when it holds too many keys.     *)
SaveOrSplit(id, n) ==
  IF Len(n.keys) <= MaxKeys
  THEN [ split |-> NoSplit, writes |-> << Save(id, n) >> ]
  ELSE [ split  |-> [ key |-> Split(n).key, id |-> FreshBlock ],
         writes |-> SplitWrites(id, LinkToRight(Split(n).left), Split(n).right) ]

(* Without a split the ancestors return without touching their nodes.      *)
AfterInsert(res, path) ==
  /\ todo' = res.writes
  /\ call' = [ call EXCEPT !.pc = "insert_up", !.split = res.split,
                           !.stack = IF res.split = NoSplit THEN <<>> ELSE path,
                           !.at = NoBlock,
                           !.answer = IF call.pc = "descend"
                                      THEN Get(blocks[call.at], call.req.key) ELSE @ ]

(* update looks its key up with get, then inserts: two descents through    *)
(* the same nodes, here one.                                               *)
UpdateMissing ==
  /\ AtLeaf({"update"})
  /\ ~HasKey(blocks[call.at], call.req.key)
  /\ call' = Answer(None)
  /\ UNCHANGED <<tree, todo>> /\ NoStorageCall

InsertIntoLeaf ==
  /\ AtLeaf({"upsert", "update"})
  /\ call.req.op = "update" => HasKey(blocks[call.at], call.req.key)
  /\ AfterInsert(SaveOrSplit(call.at, InsertLeaf(blocks[call.at], call.req.key, call.req.val)),
                 call.stack)
  /\ UNCHANGED tree /\ NoStorageCall

InsertIntoParent ==
  /\ Runs("insert_up")
  /\ call.stack # <<>>
  /\ LET f == Last(call.stack)
         n == InsertInternal(f.node, call.split.key, f.node.child_ids[f.idx], call.split.id)
     IN AfterInsert(SaveOrSplit(f.id, n), Front(call.stack))
  /\ UNCHANGED tree /\ NoStorageCall

(* Back at the top.  When the root split, its left half moves to a block   *)
(* of its own and block 1 becomes the new root.                            *)
FinishInsert ==
  /\ Runs("insert_up")
  /\ call.stack = <<>>
  /\ tree' = IF call.req.op = "upsert" /\ call.answer = None
             THEN [ tree EXCEPT !.entry_count = (@ + 1) % CountWidth ] ELSE tree
  /\ todo' = IF call.split = NoSplit THEN << SaveMetadata(tree) >>
             ELSE << Allocate,
                     Save(FreshBlock, blocks[ROOT_ID]),
                     Save(ROOT_ID, InsertInternal(NewInternal, call.split.key,
                                                  FreshBlock, call.split.id)) >>
  /\ call' = Answer(call.answer)
  /\ NoStorageCall

-----------------------------------------------------------------------------
(* Deleting: the leaf, then the ancestors, rebalancing children that have  *)
(* become too small.                                                       *)

(* Mutant: nothing underflows.                                             *)
UnderflowsNever(id, n) == FALSE

Underflows(id, n) == id # ROOT_ID /\ n.key_count < MinKeys

DeleteFromLeaf ==
  /\ AtLeaf({"delete", "delete_safe"})
  /\ LET k == call.req.key
         n == RemoveLeaf(blocks[call.at], k)
     IN IF HasKey(blocks[call.at], k)
        THEN /\ todo' = << Save(call.at, n) >>
             /\ call' = [ call EXCEPT !.pc = "delete_up", !.at = NoBlock,
                            !.answer = Get(blocks[call.at], k),
                            !.outcome = IF Underflows(call.at, n) THEN "Underflow"
                                                                  ELSE "KeyRemoved" ]
        ELSE /\ call' = [ call EXCEPT !.pc = "delete_up", !.at = NoBlock ]
             /\ UNCHANGED todo
  /\ UNCHANGED tree /\ NoStorageCall

(* An ancestor of a node that did not underflow saves its own node again.  *)
SaveAncestor ==
  /\ Runs("delete_up")
  /\ call.stack # <<>> /\ call.outcome # "Underflow"
  /\ LET f == Last(call.stack) IN todo' = << Save(f.id, f.node) >>
  /\ call' = [ call EXCEPT !.stack = Front(@) ]
  /\ UNCHANGED tree /\ NoStorageCall

(* handle_child_underflow: child number i of the parent has underflowed.   *)
BorrowLeftWrites(id, parent, i) ==
  LET left  == parent.child_ids[i-1]
      child == parent.child_ids[i]
      b     == BorrowFromLeft(blocks[child], blocks[left], parent.keys[i-1])
  IN << Save(left, b.sibling), Save(child, b.node),
        Save(id, [ parent EXCEPT !.keys[i-1] = b.separator ]) >>

BorrowRightWrites(id, parent, i) ==
  LET right == parent.child_ids[i+1]
      child == parent.child_ids[i]
      b     == BorrowFromRight(blocks[child], blocks[right], parent.keys[i])
  IN << Save(right, b.sibling), Save(child, b.node),
        Save(id, [ parent EXCEPT !.keys[i] = b.separator ]) >>

(* merge_nodes: children i and i+1 become one, the right one's block is    *)
(* freed, then the parent is saved.                                        *)
MergeWrites(id, parent, i) ==
  LET left  == parent.child_ids[i]
      right == parent.child_ids[i+1]
  IN << Save(left, Merge(blocks[left], blocks[right], parent.keys[i])),
        Free(right),
        Save(id, [ parent EXCEPT !.keys = RemoveAt(@, i),
                                 !.child_ids = RemoveAt(@, i + 1),
                                 !.key_count = @ - 1 ]) >>

Lends(sibling) == sibling # NoBlock /\ CanLend(sibling)

RebalanceWrites(id, parent, i) ==
  LET left  == Sibling(parent, i - 1)
      right == Sibling(parent, i + 1)
  IN IF Lends(left) THEN BorrowLeftWrites(id, parent, i)
     ELSE IF Lends(right) THEN BorrowRightWrites(id, parent, i)
     ELSE IF left # NoBlock THEN MergeWrites(id, parent, i - 1)
     ELSE IF right # NoBlock THEN MergeWrites(id, parent, i)
     ELSE <<>>

(* The child that a rebalancing of child number i is with, as a position:  *)
(* the left sibling unless only the right one lends or exists.             *)
Partner(parent, i) ==
  LET left  == Sibling(parent, i - 1)
      right == Sibling(parent, i + 1)
  IN IF Lends(left) \/ (left # NoBlock /\ ~Lends(right)) \/ right = NoBlock THEN i - 1 ELSE i + 1

(* The separator between the two, which the code indexes without a check.  *)
SeparatorAt(parent, i) == IF Partner(parent, i) < i THEN i - 1 ELSE i

(* What the code does not check is checked by the language.  None of it    *)
(* comes up before a failure.                                              *)
RebalancePanics(parent, i) ==
  LET sibling == Sibling(parent, Partner(parent, i))
  IN \/ i \notin DOMAIN parent.child_ids
     \/ sibling # NoBlock /\ SeparatorAt(parent, i) \notin DOMAIN parent.keys
     \/ /\ Lends(sibling) /\ Partner(parent, i) > i
        /\ Lendable(blocks[parent.child_ids[i]], blocks[sibling]) = <<>>

(* Only merge compares the kinds of the two nodes.                         *)
(* Mutant: it does not.                                                    *)
MergesTwoKindsNever(parent, i) == FALSE

MergesTwoKinds(parent, i) ==
  LET sibling == Sibling(parent, Partner(parent, i))
  IN /\ sibling # NoBlock /\ ~CanLend(sibling)
     /\ IsLeaf(blocks[sibling]) # IsLeaf(blocks[parent.child_ids[i]])

(* An ancestor of a node that underflowed, its children loaded.            *)
Rebalances == Runs("delete_up") /\ call.stack # <<>> /\ call.outcome = "Underflow"

HandleChildUnderflow ==
  /\ Rebalances
  /\ LET f == Last(call.stack)
         p == blocks[f.id]
     IN /\ ~RebalancePanics(p, f.idx) /\ ~MergesTwoKinds(p, f.idx)
        /\ todo' = RebalanceWrites(f.id, p, f.idx)
  /\ call' = [ call EXCEPT !.pc = "reload" ]
  /\ UNCHANGED tree /\ NoStorageCall

(* The parent is loaded again to see whether it underflows in its turn.    *)
(* Mutant: the call falls through to saving the node as it was loaded on   *)
(* the way down.                                                           *)
CheckParentStale ==
  /\ Runs("reload")
  /\ call' = [ call EXCEPT !.pc = "delete_up", !.outcome = "KeyRemoved" ]
  /\ UNCHANGED <<tree, todo>> /\ NoStorageCall

CheckParent ==
  /\ Runs("reload")
  /\ LET f == Last(call.stack)
     IN call' = [ call EXCEPT !.pc = "delete_up", !.stack = Front(@),
                    !.outcome = IF Underflows(f.id, blocks[f.id]) THEN "Underflow"
                                                                  ELSE "KeyRemoved" ]
  /\ UNCHANGED <<tree, todo>> /\ NoStorageCall

DeleteNothing ==
  /\ Runs("delete_up")
  /\ call.stack = <<>> /\ call.outcome = "NoChange"
  /\ call' = Answer(None)
  /\ UNCHANGED <<tree, todo>> /\ NoStorageCall

CountDeleted ==
  /\ Runs("delete_up")
  /\ call.stack = <<>> /\ call.outcome # "NoChange"
  /\ tree' = [ tree EXCEPT !.entry_count = (@ - 1) % CountWidth ]
  /\ call' = [ call EXCEPT !.pc = "root_underflow" ]
  /\ UNCHANGED todo /\ NoStorageCall

(* Mutant: the child's block is not freed.                                 *)
CollapseWritesLeaky(only) == << Save(ROOT_ID, blocks[only]), Save(ROOT_ID, blocks[only]) >>

CollapseWrites(only) ==
  << Save(ROOT_ID, blocks[only]), Free(only), Save(ROOT_ID, blocks[only]) >>

(* handle_root_underflow, then save_metadata.                              *)
FinishDelete ==
  /\ Runs("root_underflow")
  /\ \/ /\ CollapsesRoot
        /\ todo' = CollapseWrites(Head(blocks[ROOT_ID].child_ids))
        /\ UNCHANGED tree
     \/ /\ EmptiesRoot
        /\ tree' = EmptyTree
        /\ todo' = << SaveMetadata(EmptyTree), SaveMetadata(EmptyTree) >>
     \/ /\ ~CollapsesRoot /\ ~EmptiesRoot
        /\ todo' = << SaveMetadata(tree) >>
        /\ UNCHANGED tree
  /\ call' = Answer(call.answer)
  /\ NoStorageCall

-----------------------------------------------------------------------------
(* Clearing: children before their parent, the root's block is kept.       *)

(* Mutants: clear forgets the blocks without freeing them; it frees the    *)
(* root's block with the others.                                           *)
FreeNothing(id) == <<>>
FreeAlways(id)  == << Free(id) >>

FreeUnlessRoot(id) == IF id = ROOT_ID THEN <<>> ELSE << Free(id) >>

ClearInternal ==
  /\ Runs("clear")
  /\ IsInternal(blocks[call.at])
  /\ call' = [ call EXCEPT !.at = Head(blocks[call.at].child_ids),
                           !.stack = Append(@, Frame(call.at, blocks[call.at], 1)) ]
  /\ UNCHANGED <<tree, todo>> /\ NoStorageCall

ClearLeaf ==
  /\ Runs("clear")
  /\ IsLeaf(blocks[call.at])
  /\ call' = [ call EXCEPT !.pc = "clear_up", !.at = NoBlock ]
  /\ todo' = FreeUnlessRoot(call.at)
  /\ UNCHANGED tree /\ NoStorageCall

ClearNext ==
  /\ Runs("clear_up")
  /\ call.stack # <<>>
  /\ LET f == Last(call.stack)
     IN IF f.idx < Len(f.node.child_ids)
        THEN /\ call' = [ call EXCEPT !.pc = "clear", !.at = f.node.child_ids[f.idx + 1],
                            !.stack = Append(Front(@), Frame(f.id, f.node, f.idx + 1)) ]
             /\ UNCHANGED todo
        ELSE /\ call' = [ call EXCEPT !.stack = Front(@) ]
             /\ todo' = FreeUnlessRoot(f.id)
  /\ UNCHANGED tree /\ NoStorageCall

FinishClear ==
  /\ Runs("clear_up")
  /\ call.stack = <<>>
  /\ tree' = EmptyTree
  /\ todo' = << SaveMetadata(EmptyTree) >>
  /\ call' = Answer(None)
  /\ NoStorageCall

-----------------------------------------------------------------------------
(* Failures.  An error propagates through every caller with "?"; only      *)
(* delete_safe does something about it.                                    *)

Abandon ==
  /\ todo' = <<>>
  /\ call' = IF call.pc = "opening" THEN Closed
             ELSE IF call.req.op = "delete_safe" /\ call.pc # "rolled_back"
             THEN [ Blank EXCEPT !.pc = "rollback", !.req = call.req, !.orig = call.orig ]
             ELSE Blank
  /\ UNCHANGED tree

(* An I/O error: in a storage call that writes, or in one that reads.      *)
StorageFails ==
  /\ errors < MaxErrors
  /\ errors' = errors + 1
  /\ \/ todo # <<>> /\ ~Refused(Head(todo)) /\ Interrupted(Head(todo))
     \/ todo = <<>> /\ Loaded # {} /\ UNCHANGED <<storage, header>>
  /\ Abandon
  /\ UNCHANGED crashes

(* The storage answers BlockNotFound, to a read or to deallocate_block.    *)
BlockNotFound ==
  /\ \/ todo = <<>> /\ ~(Loaded \subseteq DOMAIN blocks)
     \/ todo # <<>> /\ Head(todo).do = "free" /\ Head(todo).id \notin DOMAIN blocks
  /\ Abandon
  /\ NoStorageCall

(* write_block answers InvalidBlockSize; what the call saved before stays. *)
InvalidBlockSize ==
  /\ todo # <<>> /\ Refused(Head(todo))
  /\ Abandon
  /\ NoStorageCall

(* The nodes to merge are a leaf and an inner node; nothing is saved yet.  *)
BlockCorrupted ==
  /\ Rebalances
  /\ LET f == Last(call.stack)
     IN ~RebalancePanics(blocks[f.id], f.idx) /\ MergesTwoKinds(blocks[f.id], f.idx)
  /\ Abandon
  /\ NoStorageCall

(* A panic unwinds the task that owns the handle: delete_safe, too, has no *)
(* say.                                                                    *)
Panic ==
  /\ Rebalances
  /\ RebalancePanics(blocks[Last(call.stack).id], Last(call.stack).idx)
  /\ Forget
  /\ UNCHANGED <<disk, header, errors, crashes>>

(* delete_safe puts the handle's metadata back and saves it.               *)
(* Mutant: what it puts back is not what it started from.                  *)
RollbackToEmpty ==
  /\ Runs("rollback")
  /\ tree' = EmptyTree
  /\ todo' = << SaveMetadata(EmptyTree) >>
  /\ call' = [ call EXCEPT !.pc = "rolled_back" ]
  /\ NoStorageCall

Rollback ==
  /\ Runs("rollback")
  /\ tree' = call.orig
  /\ todo' = << SaveMetadata(call.orig) >>
  /\ call' = [ call EXCEPT !.pc = "rolled_back" ]
  /\ NoStorageCall

RolledBack ==
  /\ Runs("rolled_back")
  /\ call' = Blank
  /\ UNCHANGED <<tree, todo>> /\ NoStorageCall

(* The process dies, between two storage calls or within one; what was     *)
(* synced stays.                                                           *)
Crash ==
  /\ crashes < MaxCrashes
  /\ call.pc # "closed"
  /\ crashes' = crashes + 1
  /\ Forget
  /\ \/ UNCHANGED <<disk, header>>
     \/ todo # <<>> /\ ~Refused(Head(todo)) /\ PerformHalf(Head(todo))
  /\ UNCHANGED errors

-----------------------------------------------------------------------------
Search == Descend \/ GetFromLeaf \/ ScanLeaf

Insert == UpdateMissing \/ InsertIntoLeaf \/ InsertIntoParent \/ FinishInsert

Delete ==
  \/ DeleteFromLeaf \/ SaveAncestor \/ HandleChildUnderflow \/ CheckParent
  \/ DeleteNothing \/ CountDeleted \/ FinishDelete \/ Rollback \/ RolledBack

Clear == ClearInternal \/ ClearLeaf \/ ClearNext \/ FinishClear

(* The steps of the call that is running.                                  *)
CallStep ==
  \/ StorageCall \/ Opened \/ StartOnTree \/ StartOnEmptyTree \/ Return
  \/ Search \/ Insert \/ Delete \/ Clear
  \/ BlockNotFound \/ InvalidBlockSize \/ BlockCorrupted \/ Panic

Next ==
  \/ Open \/ Close
  \/ \E r \in Requests : Invoke(r)
  \/ CallStep
  \/ StorageFails \/ Crash

Spec == Init /\ [][Next]_vars

(* A client that awaits its future lets the call run to its end.           *)
FairSpec == Spec /\ WF_vars(CallStep)
=============================================================================
