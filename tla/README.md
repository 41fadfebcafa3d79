# bptree in TLA+

Models, model checking and proofs for the persistent B+ tree of this repository
(`src/src`, a Rust library of about 1500 lines without its tests). A tree lives in
a directory of block files; one handle works on it, one call at a time, and every
call is a sequence of reads and writes of whole blocks, each of them a sequence of
steps on the file system. What is hard about it is what such sequences leave behind:
after thousands of calls, and after a call that was cut short.

Contents: [the system](#1-the-system), [the modules](#2-the-modules),
[the runs](#3-the-runs), [what the checks show](#4-what-the-checks-show),
[the proofs](#5-the-proofs), [what is not modelled](#6-what-is-not-modelled),
[the plan](#7-the-plan).

## 1. The system

| component | source | state | operations |
|---|---|---|---|
| Tree, `BPTree` | `bptree/tree.rs` | in memory `root_exists`, `entry_count`, `max_keys_per_node`; on disk the same in front of the root in block 1 (`BPTreeMetadata`) | `new`, `upsert` (= `insert`), `update`, `get`, `range`, `delete`, `delete_safe`, `delete_batch`, `clear`, `validate`, `get_all_block_ids`, `len` |
| Node, `UniversalNode` | `bptree/node.rs` | keys, values or child ids, `key_count`, `next_leaf` | `find_key_index`, `insert_leaf`, `insert_internal`, `remove_leaf`, `split`, `merge`, `borrow_from_left`, `borrow_from_right`, `validate` |
| Block storage, `FileBlockStorage` | `storage/file.rs`, `storage/storage_trait.rs` | files `block_<id>` and `metadata.bin`; in memory `next_block_id`, `free_blocks` | `new`, `read_block`, `write_block`, `allocate_block`, `deallocate_block`, `deallocate_blocks`, `sync` |
| Serialization | `ser/mod.rs` | none | bincode and padding to the block size |
| Errors | `bptree/error.rs`, `StorageError` | none | `Io`, `BlockNotFound`, `BlockCorrupted`, ... |
| Client | `bin/madsim_test.rs`, tests, benchmarks | a `BTreeMap` beside the tree | random calls, compared with the map |
| Iterator | `bptree/iterator.rs` | - | not declared in `bptree/mod.rs`, so not compiled |

**Interactions.** The client calls a method that borrows the handle (`&mut self`, or
`&self` for reads), so calls on one handle never overlap. A method loads nodes
(`read_block`), computes on copies, allocates blocks and saves nodes (`write_block`,
then `sync`, which writes `metadata.bin` once more). Each storage call that changes a
block also rewrites `metadata.bin`, after the block's file. A file is replaced by
creating a temporary file, filling it, syncing it and renaming it over the old one;
the directory is never synced. Nothing in memory is cached between two calls but
the four integers and the free list above; nothing is logged, so nothing is undone
or completed when a tree is opened again.

**What is hard, and what correctness means.**

- *Long sequences of calls.* Splits, borrows and merges rewrite three nodes at a
  time, with one set of rules for leaves and another for inner nodes; underflow
  climbs; the root moves in and out of block 1. Correct: the tree is valid and
  balanced after every call, both ways into the leaves (from the root and along
  `next_leaf`) agree, no block leaks or is used twice, and the caller sees an ordered
  map.
- *Stale copies.* The recursion holds every node of the path while the calls below
  it change the disk. Correct: none of those copies is written when it is out of
  date.
- *Failure.* A crash or an I/O error may come between any two storage calls or
  inside one. Correct, and claimed by the code's documentation: nothing is lost. What
  the code does keep is less; see the findings in section 4. The machine may die, too, and
  with it what the file system had not yet committed.
- *Reuse of blocks.* A freed block is the next one handed out. A reference that a
  crash left behind then leads to an unrelated node.
- *Retries.* A call of the storage that failed may have changed the allocator in memory;
  made again, it must not change it twice.
- *Boundaries.* Two keys per node (`min_keys` = 0), the count at zero, sizes near the
  block size: how many keys a node may have is estimated from the sizes of the types in
  memory, while keys and values are encoded in as many bytes as they take.

The list of hazards with their lines is in `PROJECT.json`.

## 2. The modules

```
UniversalNode                nodes and the operators on them               node.rs
  NodeSizes                  encoded sizes, estimate_max_keys              tree.rs, ser/mod.rs
  TreeShape                  what a B+ tree is, node by node
  Allocator                  next_block_id, the free list, their metadata  file.rs
    FileBlocks               the storage, one action per file system step  file.rs
      FileBlocksProperties   its invariants
        FileBlocksRefinement history variable, the mapping to StorageContract
          MCFileBlocks       contents for TLC
    BlockStorage             the storage's calls, whole, half and failed   storage_trait.rs, file.rs
      StorageContract        these calls as a specification: what a tree may assume
      BPTree                 the tree: one action per step of a method     tree.rs
        BPTreeProperties     walks of the tree, invariants, action properties
          BPTreeIntact       the invariant of the tree as long as nothing fails
          BPTreeRefinement   history variables, the mapping to OrderedMap, Durable
            BPTreeMap        the invariant that makes the tree a map (with BPTreeIntact)
              BPTreeOneLeaf  the invariant of a tree of one leaf under one failure
            MCBPTree         a client for TLC, and the sizes of NodeSizes
              MCScripted     a client that first makes a fixed sequence of calls
OrderedMap                   abstract specification: what the caller is promised

UniversalNodeProofs          lemmas on the node operators
  TreeShapeProofs            lemmas on B+ trees: what a split, loan or merge makes of one
    BPTreeIntactProofs       without failures every call leaves a B+ tree; a full node fits
      BPTreeMapProofs        without failures BPTree implements OrderedMap
        BPTreeWalkProofs     without failures the walks, the scan and the count agree with the tree
          BPTreeOneLeafProofs  one failure in a tree of one leaf
  BPTreeProofs               what holds under any failures: inductive invariant, theorems
  FileBlocksProofs           the storage's inductive invariants, FileBlocks implements StorageContract
```

Two specifications are abstract. `OrderedMap` is what the tree promises its caller;
`BPTree` is shown to implement it, and proved to as long as nothing fails. `StorageContract` is what the tree takes for granted
of the storage below it: `BPTree` is proved to use nothing more, and `FileBlocks` to
give nothing less. So the two halves of the program are each explored on their own, the
tree with storage calls of one step and the storage with any caller, and their
composition is justified by the contract instead of by a product of the two state
spaces.

**UniversalNode.** A node is a record with the fields of the Rust struct (`is_dirty`,
which nothing reads, left out). An operation on `&mut self` is an operator that
returns the new node. `binary_search` on sorted keys is a count of the smaller keys.
`None` for an id is block 0, which the code never uses.

**Allocator.** `nextId` and `freeList` are the allocator in memory; `AllocatorMetadata` is
what `metadata.bin` keeps of it. Both storages are built on it.

**BlockStorage.** `blocks` is the set of block files, a function from ids to nodes;
`saved` is `metadata.bin`. There is one operator per call, and three views of a call `c`:
`Done(c)` is the call run to its end, `HalfDone(c)` what is on disk when it is cut short
after the block's file has changed and before `metadata.bin` has, `Broken(c)` what it
leaves, in memory as well, when it returns an error.

**StorageContract** puts these together: `Call(c)` returns Ok and is `Done`, or fails and is
`Broken` (or, for `write_block`, done: the tree's `save_node` syncs afterwards, and that
may be what failed); `Dies(c)` leaves `Done(c)` or `HalfDone(c)` on disk. The history
variable `failures` counts the errors returned, so that a failed call cannot pass for one
that succeeded.

**FileBlocks.** The directory is a function `files` from names to files, with their
`data` and whether they are `synced`; `temp` is the temporary file. A call is a record
`call` with the step it takes next:

- `Open`, `Close`: `FileBlockStorage::new`, which loads `metadata.bin` or, in an empty
  directory, writes it; the handle is dropped.
- `BeginWrite`, `BeginAllocate`, `BeginDeallocate`, `BeginDeallocateAll`, `BeginSync`: the
  part of `write_block`, `allocate_block`, `deallocate_block`, `deallocate_blocks` and `sync`
  before their first step on a file. The client writes and frees blocks that it has,
  writes the root's block, and repeats a failed call where the constant `Retried` lets it.
- `InvalidBlockSize`, `WriteTemp`, `SyncTemp`, `RenameTemp`: `write_block_file` and
  `save_metadata`; after a block's file the same steps are taken for `metadata.bin`.
- `RemoveNext`, `PushRemoved`: the files are removed one by one, the ids pushed.
- `Return`: the call returns Ok. `IOError`: any file operation, and with it the call,
  returns an error. `Crash`: the process dies within a call, the directory stays.
- `Outage`: the machine dies. The file system assumed is one that commits the directory in the
  order in which it is changed, and commits it whenever a file is synced (as journaling
  file systems do; POSIX promises less). Then renames and removals since the last
  `sync_all` may be undone, from the last one backwards: `committed` is the set of directories
  that may come back. A file that was not synced comes back as `Torn`. On a file
  system that reorders directory changes nothing here is claimed.

The history variables `holds` and `remembers` are what the client may rely on: the blocks
it has been given, what each may contain, and which of them it may have noted down in a block that
is safely on disk. After an outage it has those.

**NodeSizes.** `NodeLength` is the length of bincode's encoding of a node, with the lengths of
keys and values left to two constants; `EstimateMaxKeys` is `estimate_max_keys`, with the
subtraction modulo the width of a `usize`. `MCBPTree` instantiates both for strings and gives
them to `BPTree` as its constants `Fits` and `MaxKeys`.

**BPTree.** `header` is the metadata in block 1, `tree` the handle's copy of it. A
call is a record `call`: where it is (`pc`), the block it visits (`at`), the path with
the nodes *as they were loaded* (`stack`), what the recursive call below returned
(`split`, `outcome`), its answer, and the metadata from before it (`orig`, what
`delete_safe` puts back). A handler loads the blocks it needs, computes, and
puts into `todo` the storage calls that the code makes next, with the values it
computed; `StorageCall` then makes them one per step. So every interleaving point of
the code with a failure, that is every storage call, is a step, and
nothing else is. The order in `todo` is the order in the code.

- `Open`, `Opened`: `FileBlockStorage::new` and `BPTree::new`. `Close`: the handle is
  dropped, nothing is written.
- `StartOnTree`, `StartOnEmptyTree`, `Descend`, `GetFromLeaf`, `ScanLeaf`: the
  beginning of every method, `get_recursive`, `range`.
- `InsertIntoLeaf`, `InsertIntoParent`, `FinishInsert`, `UpdateMissing`:
  `insert_recursive`, `upsert`, `update`. `update` descends twice in the code, first
  for `get`; here once.
- `DeleteFromLeaf`, `SaveAncestor`, `HandleChildUnderflow`, `CheckParent`,
  `DeleteNothing`, `CountDeleted`, `FinishDelete`, `Rollback`, `RolledBack`:
  `delete_recursive`, `handle_child_underflow`, `merge_nodes`,
  `handle_root_underflow`, `delete`, `delete_safe`.
- `ClearInternal`, `ClearLeaf`, `ClearNext`, `FinishClear`: `deallocate_recursive`,
  `clear`.
- `StorageFails`: an I/O error in a storage call, which may have done nothing, or its
  first half, or, for `save_node`, all of `write_block`. `InvalidBlockSize`: a node that is
  longer than its block is refused. `BlockNotFound` and `BlockCorrupted` are the errors that
  damaged trees lead to, the second from `merge` when the two nodes are a leaf and an inner node.
  `Abandon` is `?` in every caller.
- `Panic`: `handle_child_underflow` indexes a separator that is not there, or a borrow takes the first of no
  values or no children, which a tree damaged by a failure can lead to. The unwinding drops the
  handle; nothing is written.
- `Crash`: the process dies, between two storage calls or half way through one.

Rebalancing deserves a word. `RebalanceWrites` goes by the order of the code: the left sibling if it has
a key to spare, then the right one, then a merge with the left one, with the right one only where there is no left one.
`Partner` is the sibling that comes out. Only `merge` compares the kinds of the two nodes (`MergesTwoKinds`); a borrow
goes by the kind of the node that underflowed, and what it finds in a sibling of the other kind is in `BorrowFromLeft`
(nothing is taken, but the sibling has lost its key) and in `RebalancePanics`.

One simplification is left. A sort order that is lost on disk ends a behaviour in runs with faults, before a search
would depend on it (`Searchable`, section 3). `range`'s start and end are any bounds, a range with
its start after its end included.

**TreeShape** says what a B+ tree is without walking it: `Tree(B, s, root)` relates each block
of `B` to its children and its link, by way of `s`, which gives every block its height, parent and range
of keys. **BPTreeIntact** adds what a call may assume of the tree at each `pc`, as the invariant
`Intact`. **BPTreeMap** says whose entries the blocks hold at each `pc`, and what the call has
found out so far, as the invariant `MapKept`, and that `entry_count` is the number of entries of that map, as `TallyKept`.
**BPTreeOneLeaf** says what one failure may leave of a tree that has never had but one leaf, as `OneLeafKept`.
The four are for the proofs (section 5).

**OrderedMap** has a map, the pending call, whether it has taken effect, and its
answer: `Invoke`, `Perform`, `Return`. It is the `BTreeMap` of `madsim_test.rs` with
the answers of the tree's public methods.

**BPTreeRefinement.** `before` and `last` are history variables: what the map was when
the running call began, and that call. A call takes effect when its last
storage call is done. Until then the abstract map is `before`; then it is what `get`
finds on disk. `ActsAsOrderedMap` is the safety of `OrderedMap` under this mapping,
`ImplementsOrderedMap` its liveness as well.

## 3. The runs

TLC checks every run exhaustively.

| run | what is in it | checked | distinct states |
|---|---|---|---|
| `small_tree` | 5 keys, 3 per node, two values for key 1; upsert, update, delete, clear, get, reopening, without end | `TypeOK`, `ValidatesWhenQuiet`, `ChainMatchesTree`, `BlocksAccounted`, `Balanced`, `EmptyTreeHasNoRoot`, `HandleMatchesDisk`, `FramesFresh`, `NothingDangles`, `ImplementsOrderedMap` | 265 000 |
| `thin_nodes` | 4 keys, 2 per node; upsert, delete_safe, clear, range with all bounds, without end | `ValidatesWhenQuiet`, `ChainMatchesTree`, `BlocksAccounted`, `ImplementsOrderedMap` | 90 000 |
| `wide_nodes` | 7 keys, 5 per node, entries that fill their shares; upsert, delete, without end | `ValidatesWhenQuiet`, `Balanced`, `NeverRefused`, `ActsAsOrderedMap` | 62 000 |
| `tall_tree` | 12 keys, 3 per node; ten or twelve upserts and some deletes that make three levels, then any three of upsert, delete, clear | `ValidatesWhenQuiet`, `BlocksAccounted`, `ImplementsOrderedMap` | 60 000 |
| `faults` | 12 keys, 3 per node, an I/O error and a crash anywhere; the six scripts below | `TypeOK`, `TwoLevelsSound`, `AllocatorPersisted`, `RootKept`, `OneLeafDurable`, `CountWithinOne`, `InsertKeepsScan` | 591 000 |
| `file_steps` | the storage alone: two blocks beside the root's, every call in any order without end, one I/O error, one death of the process and one of the machine anywhere; `deallocate_block` retried | `WholeFiles`, `HandedOutOnce`, `AcknowledgedKept`, `ImplementsContract` | 1 050 000 |
| `crash_durability` | 5 keys, 3 per node; upsert, delete, one crash | `Durable`: violated | |
| `torn_clear_scan` | fourteen fixed calls with a clear among them, one crash | `ScansEnd`: violated | |
| `mixed_borrow` | seventeen fixed calls with a clear among them, one crash in the clear | `NodesConsistent`: violated | |
| `deep_merge` | 34 keys, 3 per node; 49 fixed calls that make four levels, one I/O error in the 38th or later | `AllocatorSound`: violated | |
| `oversized` | 6 keys, 5 per node, values that may be longer than their share; six upserts, then any four of upsert and delete, no fault | `Durable`: violated | |
| `retried_free` | the storage alone, one I/O error, `deallocate_blocks` retried | `HandedOutOnce`: violated | |

**The clients of `faults`.** Six scripts, one of which a behaviour follows
(`Faulty` in `MCScripted`): `TwoThinLeaves`, six calls that leave two leaves which the next
delete merges, and then any three of upsert and delete_safe on keys 1 to 5; the
same six calls and then any four of upsert, delete and clear on keys 1 to 3; `TornClear`,
sixteen fixed calls in which a clear that is cut short leads to a tree with freed blocks
in it that come back as other nodes, and a merge meets a leaf and an inner node; `TornClearBorrow` and
`TornClearPanic`, a clear that is cut short and eight or six calls after which a leaf that underflows lies beside an inner
node with keys to spare, on its left and on its right; and any number of calls on keys 1 to 3 with values one of
which fits in a leaf and two of which do not. One entry always fits: a first entry that alone
is too long for block 1 is not among these, and is what `OneEntryFits` excludes in section 5.

**Keys, values and sizes.** Keys are `1..n`. A value belongs to one key (`v % 64 = k`), so
that a value that ends up under another key is noticed; where a key has one value,
`upsert` of a stored key writes the value back, and only runs with two see an overwrite.
Keys and values stand for strings: `size_of::<String>()` is 24, a key is encoded in 10 bytes, a light
value in 58, so that an entry takes exactly the 68 bytes that `estimate_max_keys` sets aside for it,
and a heavy value (`v > 64`) in `HeavyLength` bytes. Blocks of 300, 368 and 504 bytes then
give 2, 3 and 5 keys per node. `CountWidth` is 16 for 2^64 (64 in `deep_merge`, which holds more entries), `SizeWidth` is 65536.

**Why the bounds are enough.** With nodes of three keys a leaf splits at four keys and
underflows below one, so five keys give a root leaf, an inner root with two or three
leaves, both borrows, both merges and the root's collapse. Three levels need ten
keys in ascending order, more than can be explored in full; `tall_tree` starts from two
three-level trees chosen so that inner nodes merge, borrow from the left and from the
right within three calls. Capacity 2 is the least the code allows and the only one with
`min_keys` = 0; capacity 5 is the least with `min_keys` = 2, where nodes that underflow
still hold keys. In the runs without faults the client never stops, so counts of
calls are not bounded: the state space is finite because freed blocks are reused.
Five keys with capacity 2 (14 million states) were explored once without a violation.
In `file_steps` two blocks beside the root's are enough for a block to be freed while another is
handed out and for `deallocate_blocks` to be cut short between two files; ids are
reused, so calls are not bounded either. `deallocate_blocks` gets lists of two ids (`FreeLists`); the
proofs allow any non-empty lists without repetitions. That nothing depends on these numbers is proved
(section 5).

`MaxErrors`, `MaxCrashes` and `MaxOutages` bound failures, `MaxId` the ids a client may be given.
A script bounds the calls after it. `Searchable` stops a behaviour, in runs with faults,
when a call is about to search while a node on disk has keys out of order, because what `binary_search`
then returns is unspecified. The last two make the model stop where the system would not, and so
`faults`, `oversized`, `deep_merge`, `mixed_borrow` and `torn_clear_scan`, which have a script that ends, and
`crash_durability`, in which a crash may leave keys out of order, have `CHECK_DEADLOCK
FALSE`; `tall_tree` ends in states from which the handle can still be closed and opened. All the
others check for deadlock.

**Fairness.** `MCFairSpec` and `ScriptFairSpec` have weak fairness of `CallStep`, the
steps of a running call, and of nothing else. A client that awaits the future of a call
drives it, and `FileBlockStorage` never suspends: its methods are `async` over blocking
file operations. Nothing is assumed of the client: it need not make another call, and
`Open`, `Close` and `Invoke` are not fair. Fairness is used by `ImplementsOrderedMap`,
in which every call takes effect and returns; a `range` that never came to the end of
the chain would violate it.

## 4. What the checks show

**Without failures**, and as long as nodes fit in their blocks, the tree is right, in every
state that the runs reach. The invariants are about *quiet* states, between two calls:

- `ValidatesWhenQuiet`: the tree passes its own `validate`, which includes an exact
  `entry_count`.
- `ChainMatchesTree`: the leaves along `next_leaf` are those below the root, in order.
- `BlocksAccounted`: every id ever handed out is in the tree or on the free list, once.
- `Balanced`: nodes hold between `min_keys` and `max_keys_per_node` keys.
- `HandleMatchesDisk`: what is in memory is on disk, so that dropping the handle is
  harmless.
- `FramesFresh`, at every step: no copy on the path is out of date when the recursion
  comes back to it. The exception is `reload`, between `handle_child_underflow` and the
  second `load_node` of the parent, which is there for that reason.
- `NothingDangles`, at every step: no call loads or frees a block that is not there. Merges and
  `clear` free blocks while nodes on disk and copies on the path still hold their ids; none of
  these ids is used.
- `NeverRefused`, at every step: no node that is about to be saved is longer than its block, be
  it in the middle of a merge or a split, when entries fill the shares they are estimated at.
- `ActsAsOrderedMap`, at every step: answers and contents are those of an ordered map.
  `ImplementsOrderedMap`: and every call that is awaited takes effect and returns.

`EmptyTreeHasNoRoot` (a count of 0 means `root_exists` is false) needs at least three keys per node. With two,
no node underflows, so a tree that has once split keeps its inner root and its empty leaves when the last key
is deleted, and `root_exists` stays true, which `test_basic_delete` (tree.rs:880) asserts not to be so for a
larger capacity. The map a client sees is not affected, and `thin_nodes` checks validity, the chain and the blocks for it.

**With failures:**

- `RootKept` and `TypeOK` hold under any failures (proved, section 5): the root's block
  is never lost, and every node is `Usable`: it has a value or a child for each of its keys, and
  its children are blocks that a tree may be handed, so that no search indexes past the end of a node. It does not follow
  that a node passes its own `validate`: that is `NodesConsistent`, which holds as long as nothing fails
  (proved) and which a crash can undo (`mixed_borrow`). What `TypeOK` rests on is that `merge` compares the kinds
  of its nodes, while the borrows need not: a borrow between two kinds leaves too many children or values, a merge would leave
  a key without its child. The script `TornClear` leads to the state in which it matters.
- `AllocatorPersisted`: crashes alone never make the allocator in memory differ from
  `metadata.bin` between two storage calls.
- `TwoLevelsSound`: as long as there are too few blocks for a third level, one failure never makes
  the allocator list an id twice. Two may: a merge cut short leaves a parent that leads to a freed
  block, `allocate_block` cut short by a second crash creates that block's file while its id is
  still on the saved free list, and a later merge or clear frees it again. In a tree of four levels
  one is enough: `AllocatorSound`, the same without the condition, is violated by `deep_merge`.
- `InsertKeepsScan`: an insertion into an existing tree, however interrupted, never
  hides another entry from a scan, as long as no block of the tree is free or has two parents. It says nothing of the first insertion into an
  empty tree: it writes a new root over block 1, and after a `clear` that failed half way
  the old root, with the entries it still leads to, may be there.
- `OneLeafDurable`: while the tree is one leaf, a call that was interrupted, or refused
  because the leaf would be too long, has happened or not (proved, section 5).
- `CountWithinOne`: in such a tree one failure leaves `entry_count` wrong by one at most,
  `delete_safe`'s rollback included (proved). One too low is what makes a later delete take the
  count below zero.

**The storage:**

- `WholeFiles`: no file with a name that is read is ever half written, not even when the
  machine dies, because a file is synced before it is renamed.
- `HandedOutOnce`: `allocate_block` never returns a block that its client has, although
  an error leaves the allocator in memory ahead of the disk, a crash may fall between a block's
  file and `metadata.bin`, and an outage may undo the last rename. A `deallocate_block` that failed
  may be made again: it looks for the file first.
- `AcknowledgedKept`: a block that the client has contains what the last `write_block`
  that returned Ok wrote, or what one wrote that did not return.
- `ImplementsContract`: every step is a step of `StorageContract` or changes nothing that the tree can
  see; in particular an error leaves the free list as `Broken` says. The death of the
  machine is not part of that contract, and so not of `BPTree`: it may undo a call that returned Ok.

**Findings**, each with its run:

1. `crash_durability`. README.md of the repository promises durability "even during
   crashes". A call that writes several blocks is not atomic. The shortest
   counterexample: the root, a leaf of three keys, splits; the process dies after the
   left half was saved over block 1 and before the new root was. The right half is in
   a block that nothing but the left half's `next_leaf` leads to: `range` finds its
   entries, `get` and `delete` do not. Borrows and merges have similar windows.
2. `torn_clear_scan`. A `clear` cut short leaves the root leading to blocks that are on
   the free list. They are handed out again while their old parents still lead to them,
   and calls that all succeed can then make two leaves each other's successors: an
   unbounded `range` loops for ever.
3. `oversized`. `estimate_max_keys` reckons with the size of keys and values in memory. A leaf with
   longer values is refused by the storage after its sibling has been saved without the
   entry it lends: an entry is lost in a delete of another key, with no fault at all.
4. `retried_free`. `deallocate_blocks` pushes every id it is given, whether it found a
   file or not. If its last step, saving `metadata.bin`, fails, and the client makes
   the call again, the ids are on the free list twice, and two calls of
   `allocate_block` return the same block. The tree itself never calls `deallocate_blocks`.
5. `deep_merge`. A merge frees the right node before it saves the parent that leads to it.
   In the run the two are inner nodes, and `deallocate_block` fails when it saves
   `metadata.bin`. The calls that follow all succeed. One splits the parent, which still leads to the
   free block, and is given that block for the right half: an inner node that is its own
   last child. A delete merges its left child with it, which frees its block and
   then saves it as the parent; the root's merge frees it once more. The
   free list has its id twice, and `allocate_block` will give it to two nodes.
6. `mixed_borrow`. After a clear cut short the blocks it freed come back as an inner node and a leaf that
   are siblings. When the leaf underflows it borrows from the inner node, since `borrow_from_left` compares
   nothing: the inner node's last key is popped, there is no value to pop, the leaf gets nothing. The inner node is
   saved with one key less and all of its children, and `delete` returns Ok. `merge` would have
   refused the pair with `BlockCorrupted`. From the other side `borrow_from_right` panics.

## 5. The proofs

The theorems hold for all values of the constants: every set of integer keys, every
set of values, every capacity of at least two, every set of requests, any number of blocks
and of failures. The assumptions are the named ones beside the constants in `UniversalNode`,
`BPTree`, `FileBlocks` and `NodeSizes`; a theorem that needs more says so in its ASSUME.

**The tree, whatever fails** (`BPTreeProofs`).

- `TypeCorrect`: `Spec => []TypeOK`. The part with content is `Usable`: every node on
  disk, on the path of the running call or on its way to disk has a value for every key or more children
  than keys, a `key_count` that says how many there are, and children that are blocks a tree
  may be handed; and `todo` frees only such blocks. This is proved although failures may
  damage the tree as a whole: none of the node operations relies on a tree that is
  intact to keep that much. It is less than `validate` asks for, and cannot be more (`mixed_borrow`).
- `RootNeverLost`: `Spec => []RootKept`. Block 1 is never handed out, freed or a child, and
  an open handle finds a node in it.
- `AllocatorAlwaysPersisted`: `Spec => []AllocatorPersisted`.
- `TreeKeepsContract`: every step of the tree is a step of `StorageContract` or leaves the
  storage alone.

The invariant is stated for a set of nodes: `InvIn(S) == TypeIn(S) /\ NothingPending /\ RootStored`, where `S` is
`Usable`, or `WellShaped`, the nodes with exactly matching parts. `TypeIn`
alone is not inductive: `Return` and `Close` need that no storage call is outstanding when there is
no call (`NothingPending`), and the steps that load block 1 need it to be there whenever
a handle is open (`RootStored`), which in turn needs that `todo` never frees block 1, a
part of `TypeIn`. `InvIn(Usable)` is kept by every step. `IInv == InvIn(WellShaped)` is kept by every step that is not
a borrow between two kinds (`Unmixed`), and before a failure there is none.
`NextInvIn` has one lemma per action for both.
`HandlerStep` reduces the actions without a storage call to the types of what they
compute, and those rest on one lemma per node operator, for either set: `SplitIn`, `MergeIn`,
`BorrowFromLeftShaped`, `BorrowFromRightShaped` and so on. The merge is where the
kinds of the two nodes must agree, and where `merge` compares them. `BorrowFromLeftShaped` says what becomes of two
nodes of different kinds: the sibling is `Usable` and no longer `WellShaped`. `BorrowFromRightShaped` is about
what `RebalancePanics` leaves, a sibling that has something to take. That it has a key follows from
`CanLend`, which compares with `min_keys`, since `min_keys` is at least 0.

**The tree, as long as nothing fails** (`TreeShapeProofs`, `BPTreeIntactProofs`).

- `TreeIntact`: `[]Intact`, from which the others follow.
- `PathNeverStale`: `[]FramesFresh`. The copies of nodes on a call's path are what is on disk.
- `NothingEverDangles`: `[]NothingDangles`. Every child, `next_leaf` and block on the path of
  a call has a file, in the middle of a split, a merge or `clear` as well.
- `NodesAlwaysFit`: `[]NeverRefused`. No node is ever longer than its block.
- `AlwaysBalanced`: `[]Balanced`. No node other than the root has fewer than `min_keys` keys between calls.
- `HandleAlwaysOnDisk`: `[]HandleMatchesDisk`.
- `ShapesExact`: `[](NoFaults => NodesConsistent)`. Every node on disk has parts of exactly matching lengths.
- `ShortEntriesFit`: the hypothesis of these is met where no entry is encoded in more than its share.

All but the last assume `FullFits`: a node with at most `max_keys_per_node` keys is no longer than a
block. That is what `estimate_max_keys` promises and `FullNodeFits` proves under conditions on the
entries; where it does not hold a save is refused, a failure, and the theorems would speak of
nothing (`oversized` shows what happens).

The properties say what a tree looks like by walks of it (`BPTreeProperties`), recursive functions that
follow the code, and from which nothing can be said of a step: one node that changes changes the
walk anywhere. So `TreeShape` says it node by node:
given `s`, the height of every block, its parent and the range of keys that it may have, `Tree(B, s, root)` says of
each block and its children that they agree, and of each leaf that its link leads to the leaf where its
range ends. Every clause is about two blocks that are neighbours, so an operator that changes two of
them and their parent need only be followed there. The lemmas of `TreeShapeProofs` say
what becomes of a tree (the new `s` is written down in each) when a node is split and its parent told,
two siblings are merged, a key is borrowed, the root is replaced by its only child, or a leaf's entries
change. Where a fact about the whole tree is wanted (every block but the root has its
parent's parent above it; a tree has a leaf with a given bound) they choose the node of extreme height
from a finite set (`Highest`), in place of an induction.

`Intact` says that without failures the storage calls outstanding will succeed (`Ready`), that
every id is in use or free (`Accounted`), that the metadata in memory is on disk or on its way
(`HeaderFollows`), and that the call is where its `pc` says (`InPlace`). The last is about `Settled`, the blocks
with the outstanding calls taken as made. Then a storage call changes nothing and the handlers alone
are left: `Place` says for each `pc` what a handler finds. Most find a whole tree and a path in it
(`Searching`, `Deleting`). Between `InsertIntoLeaf` and `InsertIntoParent` they find a tree one
node of which has been cut in two (`Splitting`), between `DeleteFromLeaf` and `HandleChildUnderflow`
one with a node that is a key short, and in `clear` what is left of the tree that was there (`Clearing`). There
is one lemma per handler. The invariant is `IInvIntact`: it adds `InvIn(Usable)`, which failures keep, and `IInv`
as long as there is none, since in a whole tree siblings are of one kind and no loan is between two (`SiblingsAlike`). TLC checked `Intact` with a computed witness for the two existentials on
`thin_nodes`, `small_tree` and `wide_nodes` before it was proved.

**The tree is a map** (`BPTreeMapProofs`), under the same assumption.

- `TreeActsAsMap`: `HistorySpec /\ []NoFaults => ActsAsOrderedMap`. Every step of a behaviour in
  which nothing fails is `Invoke`, `Perform` or `Return` of `OrderedMap`, or changes nothing in it.
- `TreeHoldsMap`: `[]MapKept`, the invariant under it.

`MapKept` speaks of `Settled` again. Of the map `before` that a call has found, and of
what the call makes of it (`After`), one agrees with the entries of all leaves: `before` while the call
searches, `After` from the step on that changes a leaf. A split whose parent is not aware of it, a
child that is too small, a borrow and a merge all have the entries they had, which `TreeShapeProofs`
says of each of them (`SameEntries`). It does not matter what order the storage calls have on disk:
they change nothing in `Settled`. `clear` is the exception, as half of the entries are gone while it is under way, and
so nothing is said of them before `FinishClear`. A `range` has listed, in order, the entries asked
for in all leaves before the one it has come to (`Listed`), and a leaf's range of keys ends where that
of its link begins, so none is missed and none comes twice.

The map of `OrderedMap` is what `get` finds (`Visible`), a recursive function of the blocks. `FoundStored`
shows that it finds exactly what is stored: the levels it may go down are counted up
with a set of numbers that has 0 and every successor (`CountUp`), which takes the place of the
induction theorems, and are enough because a tree has a block at each height (`RootLow`). Since
only one map agrees with given entries (`SeenHeld`), a step that leaves the entries alone leaves the map alone,
be it `Close` or `Open`, and a call that has its answer shows `After`, which is what `Perform` asks
for, operation by operation (`AfterByKey`, `ListedInOrder`).

**The walks** (`BPTreeWalkProofs`), under the same assumption. `Intact` has all there is to know of the
tree in terms of neighbours; these theorems are what it means for the walks that the code makes.

- `NoBlockLeaks`: `[]BlocksAccounted`, for `collect_blocks_recursive`.
- `ScanMatchesTree`: `[]ChainMatchesTree`, for `range` along `next_leaf`.
- `QuietValidates`: `[]ValidatesWhenQuiet`, for `validate_recursive`, of which the count is the larger part
  (below).

That a walk is what its definition says needs a proof too, since a recursive function is a
`CHOOSE`: its levels are counted up once more with `CountUp`. What the walk collects below a block
(`Covers`) is the sequence of what it collects below its children, joined one after the other; that it
has no block twice follows from the parents: a block below two children would have one
ancestor at one height in common. A leaf is below the root because the ancestor at each height is (`RootReaches`). The
leaves below a block form a `Row`: the range of keys of each ends where that of the next begins
(`Follows`), the first one begins and the last one ends where the block does. The leaf that
`next_leaf` leads to begins there as well, and no two leaves begin at the same key, so that the chain
from the first leaf is the row of the root (`ChainIsRow`). `validate` goes down level by level; level d is
the set of the blocks that are d below the root in height (`Levels`), with the bounds that the separators set.

**The count.** `IInvCount` is inductive over `HistorySpec` (its history variables restrict nothing).

- `EntriesCounted`: `[]TallyKept`. `entry_count`, in the handle or on disk when there is none, is the number
  of entries modulo its width, at every step but those of `clear`.
- `NoEmptyRoot`: `[]EmptyTreeHasNoRoot`, for at least 3 keys in a node (with 2 a leaf may be empty beside
  others) and in behaviours in which there are never 2^64 entries or
  more (`FewEntries`): with so many the count is 0 again.

The handlers change the map and the count at different steps: the leaf is changed on the way down, `FinishInsert`
and `CountDeleted` count on the way up. So `Tallied` is the map that has been counted, at each `pc`, and the invariant
says that the count is its size. Counting a key that was there, or none for one that was not, would
break it at `FinishInsert`: the call's `answer` says whether the key was found, and the invariant of the map says that it
says so rightly. For `validate`, the sum of the leaves' `key_count` is the number of keys in all
leaves, because no two leaves share a key (`KeysSummed`, over the fold of the community modules), and these
are the keys of the map.

**One leaf, one failure** (`BPTreeOneLeafProofs`). Any number of failures may come, at any step; what is
claimed is claimed of states in which there has been one at most.

- `OneLeafAllOrNothing`: `HistorySpec => []OneLeafDurable`. A call that was cut off has all of its effect
  or none, in the same handle and when the tree is opened again.
- `OneLeafCounted`: `HistorySpec => []CountWithinOne`.

`IInvOneLeaf` is inductive: `InvIn(Usable)`, `OneLeafKept`, and `IInv` in a tree that has never split, in which
there is nothing to rebalance. A tree of one leaf is block 1, and what holds of it
is kept in three parts. `Alone` is where the calls can be: they write block 1 and nothing else, with a
sorted leaf without a link, and the first step out of such a tree is an allocation. That step makes
`next_block_id` in `metadata.bin` larger than 2, and it never shrinks (`Onward`), so that nothing more is
claimed of a tree that has once split. `AllOrNothing` says that the handle and the disk each show `before`
or `After`, at every step at which a failure matters. Both are needed: after an error the client
goes on with the handle, after a crash with what is on disk. `Counting` says how far the counts are off:
not at all as long as nothing has failed, except between the write of the leaf and the step that
counts (`Uncounted`), and by one at most afterwards; and that what `delete_safe` remembers to put back is no
further off. A second failure may add to the first, which is why the last two are stated for
`errors + crashes <= 1`, while `Alone` holds under any number.

The two theorems assume `OneEntryFits`: a leaf with one entry is no longer than block 1. `upsert` into
an empty tree sets `root_exists` and `entry_count` in memory before it saves the first leaf (tree.rs:278); were
that refused, which needs no fault, the handle would have an entry that is nowhere. A leaf that becomes
too long later is refused without harm, and so nothing is assumed of leaves with two
entries or more (`FullFits` is not needed here). TLC checked the parts of `OneLeafKept` as invariants, with one
error and one crash, before they were proved.

**The storage** (`FileBlocksProofs`), with three layers of one inductive invariant.

- `FilesAlwaysWhole`: `Spec => []WholeFiles`. `Whole` says that every directory that is there or may
  come back has synced files of the right kind, and that a temporary file about to be
  renamed is synced and is what the call should write.
- `BlocksHandedOutOnce`: `[]HandedOutOnce`, if a failed `deallocate_blocks` is not made again. `Unshared` says that
  the blocks of the client are taken in memory, in `metadata.bin` and in every
  directory that may come back, and that blocks on their way to the free list are nobody's.
  The case that is not obvious is a failed `deallocate_block`: as long as its file is
  there its id was not pushed.
- `AcknowledgedAlwaysKept`: `[]AcknowledgedKept`, under the same condition; `Kept` extends it to the directories
  that may come back.

Outages need the order in which the file system commits: `committed` is reset by every sync,
which is why the last directory, and not any mixture of old and new files, comes back.

**The refinement** (`FileBlocksProofs`): `FilesImplementContract`, `RefSpec =>
ImplementsContract`. The history variable `before` remembers the storage that a call found; until
`metadata.bin` is renamed the contract is shown that one. `Progress` says how far the
call has come from it: the block's file is the old one or the new one, or the first n of the blocks
are gone, while `metadata.bin` is as it was. From it `SavedDone` concludes that a call which
has renamed `metadata.bin` is `Done`, `ErrorBroken` that one which fails is `Broken`, and
`DeathHalfDone` that one which dies is `HalfDone` or nothing. Together with `TreeKeepsContract`
it justifies exploring the tree with storage calls of one step each. An outage is no step of
the contract: `ImplementsContract` speaks of every other step, those after an outage included.

**The sizes** (`BPTreeIntactProofs`): `FullNodeFits`. In a block with room for the overhead and two
shares, a node with no more keys than `EstimateMaxKeys`, whose entries are encoded within their shares,
fits in its block, with the tree's metadata in front of it too. The 164 bytes of overhead are
enough for the 33 of the node's own fields, the child and the link more than keys, and the 26 of the
metadata. The two conditions are what `oversized` and blocks of less than 164 bytes lack.

Only model-checked: what a failure leaves behind in a tree of more than one leaf, that is
`TwoLevelsSound` and `InsertKeepsScan`, which would need an invariant of damaged trees; everything about liveness and fairness, which the prover does not reach.

## 6. What is not modelled

- That decoding gives back what was encoded: serde's and bincode's promise. Of
  `ser/mod.rs` the lengths, the padding and the refusal are modelled; `serialize_node`,
  `serialize_node_padded` and `deserialize_node` are called by tests only.
- The errors of opening: `VersionMismatch`, a block size that differs, a corrupt
  `metadata.bin`. They return before anything has changed, a step that changes nothing
  (and `WholeFiles` shows that a corrupt file does not come about). tree.rs:93 expects a
  block of zeros to say "not initialised"; zeros deserialise to version 0, which is refused before.
- `delete_batch`, a loop of `delete` that stops at the first error, as a client may do itself.
- A file system that reorders changes of its directory, and loss of what was synced.
- The tree under the death of the machine: `FileBlocks` has it, and shows what the storage
  keeps; a tree that rests on several calls of the storage loses no less than in a crash.
- Two handles on one directory: nothing in the code prevents it, nothing supports it.
- `iterator.rs` (not declared in `bptree/mod.rs`, so not compiled); `first_key`, `last_key`
  and `get_child_id`, which the tree does not call; error variants that no code
  constructs; tests and benchmarks.
- Panics outside of `handle_child_underflow`: a count that wraps below zero, and a block size below 164 bytes, panic
  in a debug build; the model wraps around as a release build does.
- A search on a node with keys out of order, which only damaged trees have (`Searchable`).

## 7. The plan

Done: the storage on its files and its contract with the tree, the tree and its refinement of
`OrderedMap`, the sizes, and the theorems of section 5. What would come next:

1. A contract that includes the death of the machine, and the tree on it.
2. By how much `entry_count` may be off in trees of more than one leaf, and which of them one failure
   leaves with a sound allocator.
