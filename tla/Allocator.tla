------------------------------- MODULE Allocator -------------------------------
(***************************************************************************)
(* The part of FileBlockStorage (src/src/storage/file.rs) that is in       *)
(* memory: which block ids have been handed out, and which of them have    *)
(* come back.                                                              *)
(***************************************************************************)
EXTENDS UniversalNode

VARIABLES
  nextId,      \* next_block_id
  freeList     \* free_blocks, used as a stack

allocator == <<nextId, freeList>>

(* What metadata.bin keeps of it.                                          *)
FileMetadata == [ next_block_id : Allotted, free_blocks : Seq(Allotted) ]

NewMetadata == [ next_block_id |-> 2, free_blocks |-> <<>> ]

AllocatorMetadata == [ next_block_id |-> nextId, free_blocks |-> freeList ]

NewAllocator == nextId = 2 /\ freeList = <<>>

Load(metadata) ==
  /\ nextId' = metadata.next_block_id
  /\ freeList' = metadata.free_blocks

ForgetAllocator == nextId' = 2 /\ freeList' = <<>>

(* The id the next allocate_block returns: the last one freed, or a new one. *)
FreshBlock == IF freeList = <<>> THEN nextId ELSE Last(freeList)

(* Mutant: the id stays on the free list.                                  *)
TakeFreshBlockKeeping ==
  /\ nextId' = IF freeList = <<>> THEN nextId + 1 ELSE nextId
  /\ UNCHANGED freeList

TakeFreshBlock ==
  IF freeList = <<>> THEN nextId' = nextId + 1 /\ UNCHANGED freeList
                     ELSE freeList' = Front(freeList) /\ UNCHANGED nextId

(* Mutant: the id is pushed twice.                                         *)
PushFreeTwice(id) == freeList' = freeList \o <<id, id>> /\ UNCHANGED nextId

PushFree(id) == freeList' = Append(freeList, id) /\ UNCHANGED nextId

PushAll(ids) == freeList' = freeList \o ids /\ UNCHANGED nextId
=============================================================================
