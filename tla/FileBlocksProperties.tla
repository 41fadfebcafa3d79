------------------------- MODULE FileBlocksProperties -------------------------
(***************************************************************************)
(* What makes the storage of FileBlocks safe to build a tree on, and that  *)
(* its calls are the ones BPTree makes of it (BlockStorage).               *)
(***************************************************************************)
EXTENDS FileBlocks

Opened == call.pc # "closed" /\ call.c.do # "new"

(* Whatever fails, metadata.bin and every block's file are whole: a file   *)
(* is synced before it takes the place of another, so not even the death   *)
(* of the machine leaves half a file under a name that is read.            *)
WholeFiles ==
  \A f \in DOMAIN files :
    IF f = MetadataFile THEN files[f].data \in FileMetadata ELSE files[f].data \in Usable

(* allocate_block never returns a block that the client has: not after an  *)
(* error that left the free list in memory ahead of the one on disk, not   *)
(* when the process died between a block's file and metadata.bin, and not  *)
(* when the machine died and undid the last rename.                        *)
HandedOutOnce ==
  call.pc = "return" /\ call.c.do = "allocate" => call.c.id \notin DOMAIN holds

(* A block the client has is there, with what the last write_block that    *)
(* returned Ok wrote or with what one wrote that did not return.           *)
AcknowledgedKept ==
  \A b \in DOMAIN holds : b \in DOMAIN files /\ files[b].data \in holds[b]
=============================================================================
