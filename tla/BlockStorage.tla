----------------------------- MODULE BlockStorage -----------------------------
(***************************************************************************)
(* The block storage under the tree as a client of the trait BlockStorage  *)
(* (src/src/storage/storage_trait.rs) sees FileBlockStorage                *)
(* (src/src/storage/file.rs): a directory with one file per block and a    *)
(* file metadata.bin with the allocator's state.  Every call is a record   *)
(* c; Done(c) is the call run to its end, HalfDone(c) what it has changed  *)
(* on disk when it is cut short, Broken(c) the call that returns an error. *)
(* FileBlocks has the steps within a call.                                 *)
(***************************************************************************)
EXTENDS Allocator

VARIABLES
  blocks,      \* the files block_<id>: a function from ids to contents
  saved        \* metadata.bin

disk == <<blocks, saved>>
storage == <<blocks, saved, nextId, freeList>>

(* The blocks hold nodes of the set "nodes".                               *)
StorageTypeIn(nodes) ==
  /\ DOMAIN blocks \subseteq BlockId
  /\ \A b \in DOMAIN blocks : blocks[b] \in nodes
  /\ saved \in FileMetadata
  /\ nextId \in Allotted
  /\ freeList \in Seq(Allotted)

(* An empty directory.                                                     *)
StorageInit ==
  /\ blocks = [ b \in {} |-> NewLeaf ]
  /\ saved = NewMetadata
  /\ NewAllocator

OpenStorage == Load(saved) /\ UNCHANGED disk

-----------------------------------------------------------------------------
(* File operations.                                                        *)

WriteFile(id, content) ==
  blocks' = [ b \in DOMAIN blocks \cup {id} |->
                IF b = id THEN content ELSE blocks[b] ]

RemoveFiles(ids) == blocks' = [ b \in DOMAIN blocks \ ids |-> blocks[b] ]

RemoveFile(id) == RemoveFiles({id})

(* Mutant: the allocator is saved as it was before the call.               *)
SaveStorageMetadataEarly == saved' = AllocatorMetadata

SaveStorageMetadata == saved' = AllocatorMetadata'

-----------------------------------------------------------------------------
(* The calls, run to their end.                                            *)

WriteBlock(id, content) ==
  /\ WriteFile(id, content)
  /\ UNCHANGED allocator
  /\ SaveStorageMetadata

AllocateBlock ==
  /\ TakeFreshBlock
  /\ WriteFile(FreshBlock, NewLeaf)
  /\ SaveStorageMetadata

DeallocateBlock(id) ==
  /\ id \in DOMAIN blocks
  /\ RemoveFile(id)
  /\ PushFree(id)
  /\ SaveStorageMetadata

(* All ids come on the free list, whether they had a file or not.          *)
DeallocateBlocks(ids) ==
  /\ RemoveFiles(ToSet(ids))
  /\ PushAll(ids)
  /\ SaveStorageMetadata

SyncStorage ==
  /\ UNCHANGED <<blocks, allocator>>
  /\ SaveStorageMetadata

Done(c) ==
  \/ c.do = "save" /\ WriteBlock(c.id, c.node)
  \/ c.do = "free" /\ DeallocateBlock(c.id)
  \/ c.do = "allocate" /\ AllocateBlock
  \/ c.do = "free_all" /\ DeallocateBlocks(c.ids)
  \/ c.do = "sync" /\ SyncStorage

-----------------------------------------------------------------------------
(* The calls, cut short: the block's file has changed, metadata.bin has    *)
(* not.  Every file is replaced by renaming a complete temporary file over *)
(* it, so a file has its old contents or its new ones.                     *)

WriteBlockHalf(id, content) == WriteFile(id, content) /\ UNCHANGED saved

AllocateBlockHalf == WriteFile(FreshBlock, NewLeaf) /\ UNCHANGED saved

DeallocateBlockHalf(id) ==
  /\ id \in DOMAIN blocks
  /\ RemoveFile(id)
  /\ UNCHANGED saved

DeallocateBlocksHalf(ids, n) ==
  /\ RemoveFiles(ToSet(Prefix(ids, n)))
  /\ UNCHANGED saved

HalfDone(c) ==
  \/ c.do = "save" /\ WriteBlockHalf(c.id, c.node)
  \/ c.do = "free" /\ DeallocateBlockHalf(c.id)
  \/ c.do = "allocate" /\ AllocateBlockHalf
  \/ c.do = "free_all" /\ \E n \in 1..Len(c.ids) : DeallocateBlocksHalf(c.ids, n)

(* The call returns an error, having changed nothing on disk, or only the  *)
(* blocks.  Of the id it took or pushed the allocator knows already.       *)
NotDone(c) ==
  /\ UNCHANGED disk
  /\ IF c.do = "allocate" THEN TakeFreshBlock ELSE UNCHANGED allocator

HalfBroken(c) ==
  /\ HalfDone(c)
  /\ \/ c.do = "save" /\ UNCHANGED allocator
     \/ c.do = "free" /\ PushFree(c.id)
     \/ c.do = "allocate" /\ TakeFreshBlock
     \/ c.do = "free_all" /\ UNCHANGED allocator
     \/ c.do = "free_all" /\ DOMAIN blocks' \cap ToSet(c.ids) = {} /\ PushAll(c.ids)

Broken(c) == NotDone(c) \/ HalfBroken(c)
=============================================================================
