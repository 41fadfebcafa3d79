--------------------------- MODULE StorageContract ---------------------------
(***************************************************************************)
(* What BPTree takes for granted of the storage under it, as a             *)
(* specification: a call of BlockStorage is one step, in which it is done, *)
(* or returns an error, or dies with its process.  BPTree's StorageCall,   *)
(* StorageFails, Crash, Open and Close make these steps.                   *)
(***************************************************************************)
EXTENDS BlockStorage

VARIABLES
  opened,     \* is there a handle?
  failures    \* history: how many I/O errors were returned

contractvars == <<storage, opened, failures>>

ContractCalls ==
  [ do : {"save", "allocate", "free", "free_all", "sync"}, id : OptionBlockId,
    node : Usable, ids : Seq(Allotted) ]

ContractInit == StorageInit /\ ~opened /\ failures = 0

Succeeds == UNCHANGED failures
Fails    == failures' = failures + 1

OpenContract == ~opened /\ opened' /\ OpenStorage /\ Succeeds

FailsToOpen == ~opened /\ ~opened' /\ UNCHANGED disk /\ Fails

(* A call that has returned Ok is done.  (save_node writes and syncs: its  *)
(* error may come when the write is done.)                                 *)
Call(c) ==
  /\ opened /\ opened'
  /\ \/ Done(c) /\ Succeeds
     \/ Broken(c) /\ Fails
     \/ c.do = "save" /\ Done(c) /\ Fails

(* What a storage that is closed had in memory no longer matters.  One may *)
(* be closed because it failed.                                            *)
CloseContract == opened /\ ~opened' /\ UNCHANGED disk /\ (Succeeds \/ Fails)

Dies(c) == opened /\ ~opened' /\ (Done(c) \/ HalfDone(c)) /\ (Succeeds \/ Fails)

ContractNext ==
  \/ OpenContract \/ FailsToOpen \/ CloseContract
  \/ \E c \in ContractCalls : Call(c) \/ Dies(c)

ContractSpec == ContractInit /\ [][ContractNext]_contractvars
=============================================================================
