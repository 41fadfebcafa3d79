------------------------------ MODULE FileBlocks ------------------------------
(***************************************************************************)
(* FileBlockStorage (src/src/storage/file.rs) in the steps it takes on the *)
(* file system.  A call writes a block's file or removes some, then writes *)
(* metadata.bin; a file is written by creating a temporary file, filling   *)
(* it, syncing it and renaming it over the old one.  Any step may return   *)
(* an I/O error, the process may die between any two of them, and so may   *)
(* the machine.                                                            *)
(*                                                                         *)
(* The file system is one that commits its directory in the order in which *)
(* it is changed, and commits it with every sync_all: when the machine     *)
(* dies, renames and removals since the last sync_all may be undone, from  *)
(* the last one backwards, and a file that was not synced may have any     *)
(* contents.  The code never syncs the directory itself.                   *)
(***************************************************************************)
EXTENDS Allocator

CONSTANTS
  Contents,     \* what the client writes
  Oversized,    \* those of Contents that are longer than a block
  Torn,         \* what a file may contain that was not synced
  Retried,      \* the calls the client repeats when they have failed
  FreeLists,    \* the lists of blocks the client deallocates at once
  MaxId,        \* bound: the ids handed out
  MaxErrors,    \* bound: I/O errors
  MaxCrashes,   \* bound: deaths of the process within a call
  MaxOutages    \* bound: deaths of the machine

ASSUME ContentsAssumption == Contents \subseteq Usable /\ Oversized \subseteq Contents
ASSUME TornAssumption == Torn \notin Usable \cup FileMetadata
ASSUME BoundsAssumption == {MaxId, MaxErrors, MaxCrashes, MaxOutages} \subseteq Nat
ASSUME FreeListsAssumption ==
  FreeLists \subseteq { ids \in Seq(2..MaxId) : ids # <<>> /\ IsInjective(ids) }

VARIABLES
  files,      \* the directory: a function from the names in it to files
  committed,  \* the directories a dying machine may leave behind
  temp,       \* the temporary file being written
  call,       \* the call that is running
  holds,      \* history: the blocks the client has, and what each may contain
  remembers,  \* history: those of them the client may have a record of on disk
  failed,     \* history: the call that has just failed, if the client repeats it
  errors, crashes, outages    \* how many there were

vars == <<files, committed, temp, nextId, freeList, call, holds, remembers, failed,
          errors, crashes, outages>>

(* The names of the files block_<id> are their ids; block 0 is never used, *)
(* so that 0 is free to be the name of metadata.bin.                       *)
MetadataFile == 0
RootBlock    == 1

(* A leftover temporary file is truncated before it is used again and is   *)
(* never read, so only the one being written matters.                      *)
File   == [ data : Usable \cup FileMetadata \cup {Torn}, synced : BOOLEAN ]
NoTemp == [ data |-> Torn, synced |-> FALSE ]

NoCall == [ do |-> "none", id |-> NoBlock, node |-> NewLeaf, ids |-> <<>> ]
Write(id, node)    == [ NoCall EXCEPT !.do = "save", !.id = id, !.node = node ]
AllocateCall       == [ NoCall EXCEPT !.do = "allocate" ]
Deallocate(id)     == [ NoCall EXCEPT !.do = "free", !.id = id, !.ids = <<id>> ]
DeallocateAll(ids) == [ NoCall EXCEPT !.do = "free_all", !.ids = ids ]
Sync               == [ NoCall EXCEPT !.do = "sync" ]
New                == [ NoCall EXCEPT !.do = "new" ]

(* A running call: the step it takes next, the file it writes and the      *)
(* files it has yet to remove.                                             *)
At(c, pc, target, rest) == [ c |-> c, pc |-> pc, target |-> target, rest |-> rest ]
Closed == At(NoCall, "closed", MetadataFile, <<>>)
Idle   == At(NoCall, "idle", MetadataFile, <<>>)

Init ==
  /\ files = [ f \in {} |-> NoTemp ]
  /\ committed = {files}
  /\ temp = NoTemp
  /\ NewAllocator
  /\ call = Closed
  /\ holds = [ b \in {} |-> {} ]
  /\ remembers = {}
  /\ failed = NoCall
  /\ errors = 0 /\ crashes = 0 /\ outages = 0

faults  == <<errors, crashes, outages>>
history == <<holds, remembers, failed>>

-----------------------------------------------------------------------------
(* What metadata.bin says in a directory, or what one without it means.    *)
MetadataIn(dir) == IF MetadataFile \in DOMAIN dir THEN dir[MetadataFile].data ELSE NewMetadata

(* FileBlockStorage::new loads metadata.bin, or writes it.                 *)

Open ==
  /\ call.pc = "closed"
  /\ IF MetadataFile \in DOMAIN files
     THEN /\ Load(MetadataIn(files))
          /\ call' = Idle
     ELSE /\ ForgetAllocator
          /\ call' = At(New, "write", MetadataFile, <<>>)
  /\ UNCHANGED <<files, committed, temp, history, faults>>

Close ==
  /\ call.pc = "idle"
  /\ call' = Closed
  /\ failed' = NoCall
  /\ ForgetAllocator
  /\ UNCHANGED <<files, committed, temp, holds, remembers, faults>>

-----------------------------------------------------------------------------
(* A call begins.  The client writes to blocks it has and to the root's,   *)
(* deallocates blocks it has, and may repeat a call that has failed.       *)

Begin(c) ==
  /\ call.pc = "idle"
  /\ failed' = NoCall
  /\ UNCHANGED <<files, committed, temp, faults>>

(* The client, too, may have what it wrote or what it writes.              *)
BeginWrite(id, node) ==
  /\ Begin(Write(id, node))
  /\ id \in DOMAIN holds \cup {RootBlock}
  /\ call' = At(Write(id, node), "write", id, <<>>)
  /\ holds' = [ b \in DOMAIN holds |-> IF b = id THEN holds[b] \cup {node} ELSE holds[b] ]
  /\ UNCHANGED <<nextId, freeList, remembers>>

BeginAllocate ==
  /\ Begin(AllocateCall)
  /\ FreshBlock <= MaxId
  /\ TakeFreshBlock
  /\ call' = At([ AllocateCall EXCEPT !.id = FreshBlock ], "write", FreshBlock, <<>>)
  /\ UNCHANGED <<holds, remembers>>

MayFree(c) ==
  \/ ToSet(c.ids) \subseteq DOMAIN holds \ {RootBlock}
  \/ c = failed

GiveUp(ids) ==
  /\ holds' = [ b \in DOMAIN holds \ ids |-> holds[b] ]
  /\ remembers' = remembers \ ids

(* deallocate_block looks whether there is a file, and answers             *)
(* BlockNotFound when there is none.                                       *)
BeginDeallocate(id) ==
  /\ Begin(Deallocate(id))
  /\ MayFree(Deallocate(id))
  /\ GiveUp({id})
  /\ call' = IF id \in DOMAIN files THEN At(Deallocate(id), "remove", NoBlock, <<id>>) ELSE Idle
  /\ UNCHANGED allocator

BeginDeallocateAll(ids) ==
  /\ Begin(DeallocateAll(ids))
  /\ MayFree(DeallocateAll(ids))
  /\ GiveUp(ToSet(ids))
  /\ call' = At(DeallocateAll(ids), "remove", NoBlock, ids)
  /\ UNCHANGED allocator

BeginSync ==
  /\ Begin(Sync)
  /\ call' = At(Sync, "write", MetadataFile, <<>>)
  /\ UNCHANGED <<nextId, freeList, holds, remembers>>
-----------------------------------------------------------------------------
(* The steps of write_block_file and of save_metadata.                     *)

InvalidBlockSize ==
  /\ call.pc = "write" /\ call.c.do = "save" /\ call.target # MetadataFile
  /\ call.c.node \in Oversized
  /\ call' = Idle
  /\ UNCHANGED <<files, committed, temp, allocator, history, faults>>

WriteTemp ==
  /\ call.pc = "write"
  /\ call.target # MetadataFile => call.c.node \notin Oversized
  /\ temp' = [ data   |-> IF call.target = MetadataFile THEN AllocatorMetadata ELSE call.c.node,
               synced |-> FALSE ]
  /\ call' = [ call EXCEPT !.pc = "sync" ]
  /\ UNCHANGED <<files, committed, allocator, history, faults>>

(* Mutant: the temporary file is renamed without having been synced.       *)
SkipSync ==
  /\ call.pc = "sync"
  /\ call' = [ call EXCEPT !.pc = "rename" ]
  /\ UNCHANGED <<files, committed, temp, allocator, history, faults>>

(* With the file the directory is committed.  What a client writes into a  *)
(* block may be a record of all the blocks it has.                         *)
SyncTemp ==
  /\ call.pc = "sync"
  /\ temp' = [ temp EXCEPT !.synced = TRUE ]
  /\ committed' = {files}
  /\ call' = [ call EXCEPT !.pc = "rename" ]
  /\ remembers' = IF call.c.do = "save" THEN DOMAIN holds ELSE remembers
  /\ UNCHANGED <<files, allocator, holds, failed, faults>>

(* Mutant: write_block and allocate_block leave metadata.bin as it is.     *)
AfterRenameOfBlockOnly == [ call EXCEPT !.pc = "return" ]

(* After a block's file, metadata.bin.                                     *)
AfterRename ==
  IF call.target = MetadataFile THEN [ call EXCEPT !.pc = "return" ]
  ELSE [ call EXCEPT !.pc = "write", !.target = MetadataFile ]

RenameTemp ==
  /\ call.pc = "rename"
  /\ files' = [ f \in DOMAIN files \cup {call.target} |->
                 IF f = call.target THEN temp ELSE files[f] ]
  /\ committed' = committed \cup {files'}
  /\ temp' = NoTemp
  /\ call' = AfterRename
  /\ UNCHANGED <<allocator, history, faults>>

-----------------------------------------------------------------------------
(* The steps of deallocate_block and deallocate_blocks.                    *)

RemoveNext ==
  /\ call.pc = "remove" /\ call.rest # <<>>
  /\ files' = [ f \in DOMAIN files \ {Head(call.rest)} |-> files[f] ]
  /\ committed' = committed \cup {files'}
  /\ call' = [ call EXCEPT !.rest = Tail(@) ]
  /\ UNCHANGED <<temp, allocator, history, faults>>

(* Mutant: the blocks come on the free list, which is not saved.           *)
PushRemovedUnsaved ==
  /\ call.pc = "remove" /\ call.rest = <<>>
  /\ PushAll(call.c.ids)
  /\ call' = [ call EXCEPT !.pc = "return" ]
  /\ UNCHANGED <<files, committed, temp, history, faults>>

PushRemoved ==
  /\ call.pc = "remove" /\ call.rest = <<>>
  /\ PushAll(call.c.ids)
  /\ call' = At(call.c, "write", MetadataFile, <<>>)
  /\ UNCHANGED <<files, committed, temp, history, faults>>

-----------------------------------------------------------------------------
(* The call returns Ok, and the client knows what it has.                  *)

Obtain(id, node) ==
  holds' = [ b \in DOMAIN holds \cup {id} |-> IF b = id THEN {node} ELSE holds[b] ]

Return ==
  /\ call.pc = "return"
  /\ IF call.c.do \in {"save", "allocate"} THEN Obtain(call.c.id, call.c.node)
                                          ELSE UNCHANGED holds
  /\ call' = Idle
  /\ UNCHANGED <<files, committed, temp, allocator, remembers, failed, faults>>

-----------------------------------------------------------------------------
(* Failures.                                                               *)

(* A file operation returns an error, and so does the call.  Without a     *)
(* storage the client has none.  What the allocator was told, it keeps.    *)
IOError ==
  /\ errors < MaxErrors
  /\ call.pc \in {"write", "sync", "rename", "remove"}
  /\ call.pc = "remove" => call.rest # <<>>
  /\ errors' = errors + 1
  /\ call' = IF call.c.do = "new" THEN Closed ELSE Idle
  /\ failed' = IF call.c.do \in Retried THEN call.c ELSE NoCall
  /\ UNCHANGED <<files, committed, temp, allocator, holds, remembers, crashes, outages>>

Die ==
  /\ call' = Closed
  /\ temp' = NoTemp
  /\ failed' = NoCall
  /\ ForgetAllocator

(* The process dies within a call: the directory stays as it is.           *)
Crash ==
  /\ crashes < MaxCrashes
  /\ call.pc \notin {"closed", "idle"}
  /\ crashes' = crashes + 1
  /\ Die
  /\ UNCHANGED <<files, committed, holds, remembers, errors, outages>>

(* The machine dies, and with it what the client had no record of on disk. *)
Surviving(dir) ==
  [ f \in DOMAIN dir |-> [ data |-> IF dir[f].synced THEN dir[f].data ELSE Torn,
                           synced |-> TRUE ] ]

Outage ==
  /\ outages < MaxOutages
  /\ outages' = outages + 1
  /\ \E dir \in committed : /\ files' = Surviving(dir)
                            /\ committed' = {Surviving(dir)}
  /\ holds' = [ b \in DOMAIN holds \cap (remembers \cup {RootBlock}) |-> holds[b] ]
  /\ Die
  /\ UNCHANGED <<remembers, errors, crashes>>

-----------------------------------------------------------------------------
Ids == 2..MaxId

Client ==
  \/ \E id \in Ids \cup {RootBlock}, node \in Contents : BeginWrite(id, node)
  \/ BeginAllocate
  \/ \E id \in Ids : BeginDeallocate(id)
  \/ \E ids \in FreeLists : BeginDeallocateAll(ids)
  \/ BeginSync

Step ==
  \/ InvalidBlockSize \/ WriteTemp \/ SyncTemp \/ RenameTemp
  \/ RemoveNext \/ PushRemoved \/ Return

Next == Open \/ Close \/ Client \/ Step \/ IOError \/ Crash \/ Outage

Spec == Init /\ [][Next]_vars
=============================================================================
