------------------------- MODULE FileBlocksRefinement -------------------------
(***************************************************************************)
(* The file system steps of FileBlocks implement the calls that BPTree     *)
(* makes of its storage (StorageContract).  A call takes effect when       *)
(* metadata.bin is renamed; until then the storage is the one the call     *)
(* found, remembered in the history variable before.                       *)
(***************************************************************************)
EXTENDS FileBlocksProperties

VARIABLE before

Actual ==
  [ blocks   |-> [ b \in DOMAIN files \ {MetadataFile} |-> files[b].data ],
    saved    |-> MetadataIn(files),
    nextId   |-> nextId,
    freeList |-> freeList ]

Running == Opened /\ call.pc \in {"write", "sync", "rename", "remove"}

BeforeNext == before' = IF call.pc = "idle" THEN Actual ELSE before

refvars == <<vars, before>>

RefInit == Init /\ before = Actual

RefNext == Next /\ BeforeNext

RefSpec == RefInit /\ [][RefNext]_refvars

Seen == IF Running THEN before ELSE Actual

Contract ==
  INSTANCE StorageContract WITH
    blocks   <- Seen.blocks,
    saved    <- Seen.saved,
    nextId   <- Seen.nextId,
    freeList <- Seen.freeList,
    opened   <- Opened,
    failures <- errors

(* The step that the running call is, for its caller.                      *)
ContractStep ==
  \/ Contract!OpenContract \/ Contract!FailsToOpen \/ Contract!CloseContract
  \/ Contract!Call(call.c) \/ Contract!Dies(call.c)

(* Every call of the storage leaves exactly what BPTree assumes it to      *)
(* leave: all of its effect when it returns Ok, and when it returns an     *)
(* error or dies with its process nothing, or the block's file without the *)
(* metadata.  (The death of the machine, which may undo more, is not in    *)
(* that assumption.)                                                       *)
ImplementsContract ==
  Contract!ContractInit
    /\ [][outages' = outages => ContractStep]_<<Contract!contractvars>>
=============================================================================
