---------------------------- MODULE FileBlocksProofs ----------------------------
(***************************************************************************)
(* Theorems about the storage of FileBlocks, for any number of blocks, I/O *)
(* errors, and deaths of the process and of the machine.  The last part    *)
(* shows that its steps implement StorageContract.                         *)
(***************************************************************************)
EXTENDS FileBlocksRefinement, UniversalNodeProofs

-----------------------------------------------------------------------------
(* The inductive invariant, in three layers.                               *)

FileCalls ==
  [ do   : {"none", "save", "allocate", "free", "free_all", "sync", "new"},
    id   : Nat,
    node : Usable,
    ids  : Seq(Allotted) ]

CallStates ==
  [ c      : FileCalls,
    pc     : {"closed", "idle", "write", "sync", "rename", "remove", "return"},
    target : Nat,
    rest   : Seq(Allotted) ]

Types ==
  /\ call \in CallStates
  /\ temp \in File
  /\ nextId \in Allotted /\ freeList \in Seq(Allotted)
  /\ failed \in FileCalls

(* What a call may be doing.                                               *)
Stages ==
  /\ call.pc \in {"closed", "idle"} <=> call.c.do = "none"
  /\ call.c.do \in {"save", "allocate"} =>
       call.pc # "remove" /\ call.target \in {MetadataFile, call.c.id} /\ call.c.id # MetadataFile
  /\ call.c.do \notin {"save", "allocate"} /\ call.pc # "remove" => call.target = MetadataFile
  /\ call.pc = "remove" => call.c.do \in {"free", "free_all"}
  /\ call.pc = "return" => call.target = MetadataFile

(* A file that is about to get a name is synced and what it should be.     *)
TempReady ==
  /\ call.pc \in {"sync", "rename"} =>
       temp.data = IF call.target = MetadataFile THEN AllocatorMetadata ELSE call.c.node
  /\ call.pc = "rename" => temp.synced

DataOf(f) == IF f = MetadataFile THEN FileMetadata ELSE Usable

WholeDir(dir) ==
  \A f \in DOMAIN dir : f \in Nat /\ dir[f].synced /\ dir[f].data \in DataOf(f)

WholeDirs == WholeDir(files) /\ \A dir \in committed : WholeDir(dir)

Whole == Types /\ Stages /\ TempReady /\ WholeDirs

(* The allocator m knows that the blocks ids are taken.                    *)
Taken(ids, m) ==
  /\ IsInjective(m.free_blocks)
  /\ \A b \in ids \cup ToSet(m.free_blocks) : b < m.next_block_id
  /\ ids \cap ToSet(m.free_blocks) = {}

(* The blocks of the client that will be its after an outage.              *)
Lasting == DOMAIN holds \cap (remembers \cup {RootBlock})

(* The client's blocks are taken in memory, on disk, and on any disk that  *)
(* an outage may leave as far as the client will still have them.          *)
ClientsTaken ==
  /\ DOMAIN holds \subseteq BlockId /\ remembers \subseteq DOMAIN holds
  /\ call.pc # "closed" /\ call.c.do # "new" => Taken(DOMAIN holds, AllocatorMetadata)
  /\ Taken(DOMAIN holds, MetadataIn(files))
  /\ \A dir \in committed : Taken(Lasting, MetadataIn(dir))
  /\ call.pc = "return" => MetadataIn(files) = AllocatorMetadata

(* Of a call that is running.                                              *)
CallsTaken ==
  /\ call.c.do = "save" => call.c.id \in DOMAIN holds \cup {RootBlock}
  /\ call.c.do = "allocate" =>
       call.c.id \notin DOMAIN holds /\ Taken({call.c.id}, AllocatorMetadata)
  /\ call.c.do = "new" => freeList = <<>> /\ DOMAIN holds \subseteq {RootBlock}

(* Blocks on their way back are neither the client's nor on the free list, *)
(* and are gone when they come on the list.  A call that has failed may be *)
(* made again.                                                             *)
MayPush(ids) ==
  /\ IsInjective(ids)
  /\ Taken(ToSet(ids), AllocatorMetadata)
  /\ ToSet(ids) \cap DOMAIN holds = {}

Freeing ==
  /\ call.pc = "remove" => MayPush(call.c.ids) /\ ToSet(call.rest) \subseteq ToSet(call.c.ids)
  /\ call.c.do = "free" =>
       /\ call.c = Deallocate(call.c.id)
       /\ call.rest = <<>> \/ call.pc # "remove" => call.c.id \notin DOMAIN files
  /\ failed.do # "free_all"
  /\ failed.do = "free" =>
       /\ call.pc = "idle" /\ failed = Deallocate(failed.id)
       /\ failed.id \in DOMAIN files => MayPush(failed.ids)

Unshared == ClientsTaken /\ CallsTaken /\ Freeing

(* What the client wrote is on disk, and will be after an outage.          *)
InFile(dir, b, contents) == b \in DOMAIN dir /\ dir[b].data \in contents

ClientsKept ==
  /\ AcknowledgedKept
  /\ \A dir \in committed : \A b \in Lasting : InFile(dir, b, holds[b])

CallsKept ==
  /\ call.c.do = "save" /\ call.c.id \in DOMAIN holds => call.c.node \in holds[call.c.id]
  /\ call.c.do \in {"save", "allocate"} /\ call.target = MetadataFile =>
       /\ InFile(files, call.c.id, {call.c.node})
       /\ call.pc \in {"rename", "return"} =>
            \A dir \in committed : InFile(dir, call.c.id, {call.c.node})

Kept == ClientsKept /\ CallsKept

-----------------------------------------------------------------------------
(* Types.                                                                  *)

(* The calls of the client are calls, and so is none.                      *)
LEMMA CallTypes ==
  /\ NoCall \in FileCalls /\ AllocateCall \in FileCalls
  /\ Sync \in FileCalls /\ New \in FileCalls
  /\ \A id \in Nat : [ AllocateCall EXCEPT !.id = id ] \in FileCalls
  /\ \A id \in Nat, n \in Usable : Write(id, n) \in FileCalls
  /\ \A id \in Allotted : Deallocate(id) \in FileCalls
  /\ \A ids \in Seq(Allotted) : DeallocateAll(ids) \in FileCalls
<1>1. <<>> \in Seq(Allotted) /\ NoBlock \in Nat BY DEF NoBlock
<1>2. NoCall \in FileCalls BY <1>1, NewLeafIn DEF Shapes, NoCall, FileCalls
<1>3. \A id \in Allotted : id \in Nat /\ <<id>> \in Seq(Allotted) BY DEF Allotted
<1>4. AllocateCall \in FileCalls BY <1>2 DEF FileCalls, AllocateCall
<1>5. Sync \in FileCalls BY <1>2 DEF FileCalls, Sync
<1>6. New \in FileCalls BY <1>2 DEF FileCalls, New
<1>7. \A id \in Nat : [ AllocateCall EXCEPT !.id = id ] \in FileCalls
  BY <1>4 DEF FileCalls
<1>8. \A id \in Nat, n \in Usable : Write(id, n) \in FileCalls
  BY <1>2 DEF FileCalls, Write
<1>9. \A id \in Allotted : Deallocate(id) \in FileCalls
  BY <1>2, <1>3 DEF FileCalls, Deallocate
<1>10. \A ids \in Seq(Allotted) : DeallocateAll(ids) \in FileCalls
  BY <1>2 DEF FileCalls, DeallocateAll
<1> QED BY <1>2, <1>4, <1>5, <1>6, <1>7, <1>8, <1>9, <1>10

(* What a call is, by its constructor.                                     *)
LEMMA CallParts ==
  /\ NoCall.do = "none" /\ Sync.do = "sync" /\ New.do = "new"
  /\ \A id : LET c == [ AllocateCall EXCEPT !.id = id ]
             IN c.do = "allocate" /\ c.id = id /\ c.node = NewLeaf
  /\ \A id, n : LET c == Write(id, n) IN c.do = "save" /\ c.id = id /\ c.node = n
  /\ \A id : LET c == Deallocate(id) IN c.do = "free" /\ c.id = id /\ c.ids = <<id>>
  /\ \A ids : LET c == DeallocateAll(ids) IN c.do = "free_all" /\ c.ids = ids
BY DEF NoCall, Sync, New, AllocateCall, Write, Deallocate, DeallocateAll

(* Where a call is, by its constructor.                                    *)
LEMMA AtParts ==
  /\ Idle.c = NoCall /\ Idle.pc = "idle" /\ Idle.target = MetadataFile /\ Idle.rest = <<>>
  /\ Closed.c = NoCall /\ Closed.pc = "closed" /\ Closed.target = MetadataFile
  /\ Closed.rest = <<>>
  /\ \A c, pc, target, rest :
       LET s == At(c, pc, target, rest)
       IN s.c = c /\ s.pc = pc /\ s.target = target /\ s.rest = rest
BY DEF Idle, Closed, At

(* A handle without a call, and one with a call that has just begun.       *)
LEMMA AtTypes ==
  /\ Idle \in CallStates /\ Closed \in CallStates
  /\ \A c \in FileCalls, t \in Nat, r \in Seq(Allotted) :
       At(c, "write", t, r) \in CallStates /\ At(c, "remove", t, r) \in CallStates
<1>1. <<>> \in Seq(Allotted) /\ MetadataFile \in Nat BY DEF MetadataFile
<1> QED BY <1>1, CallTypes DEF Idle, Closed, At, CallStates

(* The parts of a running call.                                            *)
LEMMA CallIn ==
  ASSUME Types
  PROVE  /\ call.c \in FileCalls /\ call.target \in Nat /\ call.rest \in Seq(Allotted)
         /\ call.c.id \in Nat /\ call.c.node \in Usable /\ call.c.ids \in Seq(Allotted)
BY DEF Types, CallStates, FileCalls

(* The blocks of the client's calls may be handed to a client.             *)
LEMMA IdsAllotted == \A id \in Ids : id \in Allotted /\ id \in Nat /\ id # MetadataFile
BY BoundsAssumption DEF Ids, Allotted, MetadataFile

(* So may all in a list of them.                                           *)
LEMMA ListsAllotted ==
  ASSUME NEW ids \in FreeLists
  PROVE  ids \in Seq(Allotted) /\ ids # <<>> /\ IsInjective(ids)
<1>1. ids \in Seq(2..MaxId) /\ ids # <<>> /\ IsInjective(ids) BY FreeListsAssumption
<1>2. ids \in [ 1..Len(ids) -> 2..MaxId ] /\ Len(ids) \in Nat BY <1>1, LenProperties
<1>3. \A i \in 1..Len(ids) : ids[i] \in Allotted BY <1>2, BoundsAssumption DEF Allotted
<1>4. ids \in Seq(Allotted)
  <2>1. ids \in [ 1..Len(ids) -> Allotted ] BY <1>2, <1>3
  <2> QED BY <1>2, <2>1
<1> QED BY <1>1, <1>4

(* No temporary file is a file of some sort.                               *)
LEMMA NoTempType == NoTemp \in File
BY DEF NoTemp, File

-----------------------------------------------------------------------------
(* The allocator's types.                                                  *)

(* The block that allocate_block hands out is one it may hand out, and the *)
(* allocator stays one.                                                    *)
LEMMA TakeFreshBlockTypes ==
  ASSUME nextId \in Allotted, freeList \in Seq(Allotted)
  PROVE  /\ FreshBlock \in Allotted
         /\ TakeFreshBlock => nextId' \in Allotted /\ freeList' \in Seq(Allotted)
<1>1. nextId + 1 \in Allotted BY DEF Allotted
<1> QED BY <1>1, FrontType DEF FreshBlock, TakeFreshBlock

(* So does a handle that is dropped.                                       *)
LEMMA ForgetTypes ==
  ASSUME ForgetAllocator
  PROVE  nextId' \in Allotted /\ freeList' \in Seq(Allotted)
BY EmptySeq DEF ForgetAllocator, Allotted

(* What is saved of it is metadata.                                        *)
LEMMA MetadataTypes ==
  ASSUME nextId \in Allotted, freeList \in Seq(Allotted)
  PROVE  AllocatorMetadata \in FileMetadata
BY DEF AllocatorMetadata, FileMetadata

(* What a directory says of it is metadata, too.                           *)
LEMMA MetadataInTypes ==
  ASSUME NEW dir, WholeDir(dir)
  PROVE  MetadataIn(dir) \in FileMetadata
<1>1. NewMetadata \in FileMetadata BY EmptySeq DEF NewMetadata, FileMetadata, Allotted
<1> QED BY <1>1 DEF MetadataIn, WholeDir, DataOf

-----------------------------------------------------------------------------
(* First layer: every file that has a name is whole.                       *)

(* An empty directory is whole.                                            *)
LEMMA InitWhole == Init => Whole
<1> SUFFICES ASSUME Init PROVE Whole OBVIOUS
<1>1. Types BY AtTypes, NoTempType, CallTypes, EmptySeq DEF Init, Types, NewAllocator, Allotted
<1>2. Stages /\ TempReady BY AtParts, CallParts DEF Init, Stages, TempReady
<1>3. WholeDirs BY DEF Init, WholeDirs, WholeDir
<1> QED BY <1>1, <1>2, <1>3 DEF Whole

(* A step that neither touches a file nor starts to rename one has to      *)
(* respect the types and the stages of a call.                             *)
LEMMA QuietWhole ==
  ASSUME Whole, UNCHANGED <<files, committed>>, Types', Stages',
         call'.pc \notin {"sync", "rename"}
  PROVE  Whole'
BY DEF Whole, WholeDirs, TempReady

(* Opening loads what a whole directory says, or begins with nothing.      *)
LEMMA OpenWhole == Whole /\ Open => Whole'
<1> SUFFICES ASSUME Whole, Open PROVE Whole' OBVIOUS
<1>1. nextId' \in Allotted /\ freeList' \in Seq(Allotted)
  <2>1. MetadataIn(files) \in FileMetadata BY MetadataInTypes DEF Whole, WholeDirs
  <2>2. CASE Load(MetadataIn(files)) BY <2>1, <2>2 DEF Load, FileMetadata
  <2>3. CASE ForgetAllocator BY <2>3, ForgetTypes
  <2> QED BY <2>2, <2>3 DEF Open
<1>2. call' = Idle \/ call' = At(New, "write", MetadataFile, <<>>) BY DEF Open
<1>3. call' \in CallStates
  BY <1>2, AtTypes, CallTypes, EmptySeq DEF MetadataFile
<1>4. Types' BY <1>1, <1>3 DEF Whole, Types, Open, history, faults
<1>5. Stages' /\ call'.pc \notin {"sync", "rename"}
  BY <1>2, AtParts, CallParts DEF Stages
<1> QED BY <1>4, <1>5, QuietWhole DEF Open

(* Whatever ends the call and keeps the allocator's type.                  *)
LEMMA EndWhole ==
  ASSUME Whole, UNCHANGED <<files, committed>>, call' \in {Idle, Closed},
         temp' \in File, nextId' \in Allotted, freeList' \in Seq(Allotted), failed' \in FileCalls
  PROVE  Whole'
<1>1. Types' BY AtTypes DEF Types
<1>2. Stages' /\ call'.pc \notin {"sync", "rename"} BY AtParts, CallParts DEF Stages
<1> QED BY <1>1, <1>2, QuietWhole

(* Closing forgets the allocator.                                          *)
LEMMA CloseWhole == Whole /\ Close => Whole'
BY EndWhole, ForgetTypes, CallTypes DEF Close, Whole, Types

(* A call that begins.                                                     *)
LEMMA BeginWhole ==
  ASSUME Whole, NEW c \in FileCalls, NEW pc \in {"write", "remove"}, NEW t \in Nat,
         NEW r \in Seq(Allotted), call' = At(c, pc, t, r), failed' = NoCall,
         UNCHANGED <<files, committed, temp>>, nextId' \in Allotted, freeList' \in Seq(Allotted),
         c.do # "none",
         c.do \in {"save", "allocate"} => pc # "remove" /\ t \in {MetadataFile, c.id}
                                          /\ c.id # MetadataFile,
         c.do \notin {"save", "allocate"} /\ pc # "remove" => t = MetadataFile,
         pc = "remove" => c.do \in {"free", "free_all"}
  PROVE  Whole'
<1>1. Types' BY AtTypes, CallTypes DEF Types, Whole
<1>2. Stages' /\ call'.pc \notin {"sync", "rename"} BY AtParts DEF Stages
<1> QED BY <1>1, <1>2, QuietWhole

(* Every call of the client begins in a stage of its own.                  *)
LEMMA BeginAnyWhole ==
  /\ Whole /\ (\E id \in Ids \cup {RootBlock}, node \in Contents : BeginWrite(id, node)) => Whole'
  /\ Whole /\ BeginAllocate => Whole'
  /\ Whole /\ (\E id \in Ids : BeginDeallocate(id)) => Whole'
  /\ Whole /\ (\E ids \in FreeLists : BeginDeallocateAll(ids)) => Whole'
  /\ Whole /\ BeginSync => Whole'
<1> SUFFICES ASSUME Whole
             PROVE  /\ (\E id \in Ids \cup {RootBlock}, node \in Contents : BeginWrite(id, node))
                         => Whole'
                    /\ BeginAllocate => Whole'
                    /\ (\E id \in Ids : BeginDeallocate(id)) => Whole'
                    /\ (\E ids \in FreeLists : BeginDeallocateAll(ids)) => Whole'
                    /\ BeginSync => Whole'
  OBVIOUS
<1>0. /\ nextId \in Allotted /\ freeList \in Seq(Allotted) /\ temp \in File
      /\ <<>> \in Seq(Allotted) /\ MetadataFile \in Nat
  BY EmptySeq DEF Whole, Types, MetadataFile
<1>1. ASSUME NEW id \in Ids \cup {RootBlock}, NEW node \in Contents, BeginWrite(id, node)
      PROVE  Whole'
  <2>1. id \in Nat /\ id # MetadataFile /\ node \in Usable
    BY IdsAllotted, ContentsAssumption DEF RootBlock, MetadataFile
  <2>2. /\ Write(id, node) \in FileCalls
        /\ Write(id, node).do = "save" /\ Write(id, node).id = id
    BY <2>1, CallTypes, CallParts
  <2> QED BY <1>0, <1>1, <2>1, <2>2, BeginWhole DEF BeginWrite, Begin
<1>2. ASSUME BeginAllocate PROVE Whole'
  <2> DEFINE c == [ AllocateCall EXCEPT !.id = FreshBlock ]
  <2>1. FreshBlock \in Allotted /\ nextId' \in Allotted /\ freeList' \in Seq(Allotted)
    BY <1>0, <1>2, TakeFreshBlockTypes DEF BeginAllocate
  <2>2. FreshBlock \in Nat /\ FreshBlock # MetadataFile BY <2>1 DEF Allotted, MetadataFile
  <2>3. c \in FileCalls /\ c.do = "allocate" /\ c.id = FreshBlock BY <2>2, CallTypes, CallParts
  <2>4. call' = At(c, "write", FreshBlock, <<>>) BY <1>2 DEF BeginAllocate
  <2> HIDE DEF c
  <2> QED BY <1>0, <1>2, <2>1, <2>2, <2>3, <2>4, BeginWhole DEF BeginAllocate, Begin
<1>3. ASSUME NEW id \in Ids, BeginDeallocate(id) PROVE Whole'
  <2>1. /\ id \in Allotted /\ <<id>> \in Seq(Allotted) /\ NoBlock \in Nat
    BY IdsAllotted DEF NoBlock
  <2>2. Deallocate(id) \in FileCalls /\ Deallocate(id).do = "free"
    BY <2>1, CallTypes, CallParts
  <2>3. CASE id \in DOMAIN files
    BY <1>0, <1>3, <2>1, <2>2, <2>3, BeginWhole DEF BeginDeallocate, Begin, allocator
  <2>4. CASE id \notin DOMAIN files
    BY <1>0, <1>3, <2>4, CallTypes, EndWhole DEF BeginDeallocate, Begin, allocator
  <2> QED BY <2>3, <2>4
<1>4. ASSUME NEW ids \in FreeLists, BeginDeallocateAll(ids) PROVE Whole'
  <2>1. ids \in Seq(Allotted) /\ NoBlock \in Nat BY ListsAllotted DEF NoBlock
  <2>2. DeallocateAll(ids) \in FileCalls /\ DeallocateAll(ids).do = "free_all"
    BY <2>1, CallTypes, CallParts
  <2> QED BY <1>0, <1>4, <2>1, <2>2, BeginWhole DEF BeginDeallocateAll, Begin, allocator
<1>5. ASSUME BeginSync PROVE Whole'
  BY <1>0, <1>5, CallTypes, CallParts, BeginWhole DEF BeginSync, Begin
<1> QED BY <1>1, <1>2, <1>3, <1>4, <1>5

(* A node that is too long is refused before a file is touched.            *)
LEMMA InvalidBlockSizeWhole == Whole /\ InvalidBlockSize => Whole'
BY EndWhole DEF InvalidBlockSize, Whole, Types, allocator, history

(* The temporary file is filled with what the target should be.            *)
LEMMA WriteTempWhole == Whole /\ WriteTemp => Whole'
<1> SUFFICES ASSUME Whole, WriteTemp PROVE Whole' OBVIOUS
<1> DEFINE data == IF call.target = MetadataFile THEN AllocatorMetadata ELSE call.c.node
<1>1. /\ UNCHANGED <<files, committed, nextId, freeList, failed>>
      /\ temp' = [ data |-> data, synced |-> FALSE ] /\ call' = [ call EXCEPT !.pc = "sync" ]
  BY DEF WriteTemp, allocator, history
<1>2. nextId \in Allotted /\ freeList \in Seq(Allotted) /\ call \in CallStates /\ Types
  BY DEF Whole, Types
<1>3. /\ call' \in CallStates /\ call'.pc = "sync"
      /\ call'.c = call.c /\ call'.target = call.target /\ call'.rest = call.rest
  BY <1>1, <1>2 DEF CallStates
<1>4. data \in Usable \cup FileMetadata BY <1>2, CallIn, MetadataTypes
<1>5. temp' \in File BY <1>1, <1>4 DEF File
<1>6. Types' BY <1>1, <1>2, <1>3, <1>5 DEF Types, Whole
<1>7. Stages' BY <1>3 DEF Whole, Stages, WriteTemp
<1>8. TempReady' BY <1>1, <1>3 DEF TempReady, AllocatorMetadata
<1> QED BY <1>1, <1>6, <1>7, <1>8 DEF Whole, WholeDirs

(* Once synced, it is ready to be renamed.                                 *)
LEMMA SyncTempWhole == Whole /\ SyncTemp => Whole'
<1> SUFFICES ASSUME Whole, SyncTemp PROVE Whole' OBVIOUS
<1>1. /\ files' = files /\ committed' = {files} /\ UNCHANGED <<nextId, freeList, failed>>
      /\ temp' = [ temp EXCEPT !.synced = TRUE ] /\ call' = [ call EXCEPT !.pc = "rename" ]
  BY DEF SyncTemp, allocator
<1>2. /\ call'.pc = "rename" /\ call' \in CallStates
      /\ call'.c = call.c /\ call'.target = call.target /\ call'.rest = call.rest
  BY <1>1 DEF Whole, Types, CallStates
<1>3. temp' \in File /\ temp'.synced /\ temp'.data = temp.data
  BY <1>1 DEF Whole, Types, File
<1>4. Types' BY <1>1, <1>2, <1>3 DEF Types, Whole
<1>5. Stages' BY <1>2 DEF Whole, Stages, SyncTemp
<1>6. TempReady' BY <1>1, <1>2, <1>3 DEF Whole, TempReady, SyncTemp, AllocatorMetadata
<1>7. WholeDirs' BY <1>1 DEF Whole, WholeDirs
<1> QED BY <1>4, <1>5, <1>6, <1>7 DEF Whole

(* The directory after a rename, and where the call goes from there.       *)
LEMMA RenameParts ==
  ASSUME Whole, RenameTemp
  PROVE  /\ DOMAIN files' = DOMAIN files \cup {call.target}
         /\ \A f \in DOMAIN files' : files'[f] = IF f = call.target THEN temp ELSE files[f]
         /\ committed' = committed \cup {files'}
         /\ UNCHANGED <<nextId, freeList, holds, remembers, failed>>
         /\ temp.synced
         /\ temp.data = IF call.target = MetadataFile THEN AllocatorMetadata ELSE call.c.node
         /\ call'.c = call.c /\ call'.rest = call.rest /\ call'.target = MetadataFile
         /\ call'.pc = IF call.target = MetadataFile THEN "return" ELSE "write"
         /\ call' \in CallStates
<1>1. call \in CallStates BY DEF Whole, Types
<1>2. call' = AfterRename BY DEF RenameTemp
<1>3. /\ call'.c = call.c /\ call'.rest = call.rest /\ call'.target = MetadataFile
      /\ call'.pc = IF call.target = MetadataFile THEN "return" ELSE "write"
      /\ call' \in CallStates
  BY <1>1, <1>2 DEF AfterRename, CallStates, MetadataFile
<1> QED BY <1>3 DEF RenameTemp, Whole, TempReady, allocator, history

(* The file that gets a name is whole, and the directory stays so.         *)
LEMMA RenameTempWhole == Whole /\ RenameTemp => Whole'
<1> SUFFICES ASSUME Whole, RenameTemp PROVE Whole' OBVIOUS
<1>1. call'.c = call.c /\ call'.target = MetadataFile /\ call'.pc \in {"write", "return"}
  BY RenameParts
<1>2. Types'
  BY RenameParts, NoTempType DEF Types, Whole, RenameTemp
<1>3. Stages' BY <1>1, RenameParts DEF Whole, Stages, RenameTemp
<1>4. TempReady' BY <1>1 DEF TempReady
<1>5. temp.data \in DataOf(call.target) /\ call.target \in Nat
  BY RenameParts, CallIn, MetadataTypes DEF DataOf, Whole, Types
<1>6. WholeDir(files')
  BY <1>5, RenameParts DEF WholeDir, Whole, WholeDirs
<1>7. WholeDirs' BY <1>6, RenameParts DEF WholeDirs, Whole
<1> QED BY <1>2, <1>3, <1>4, <1>7 DEF Whole

(* The directory after a removal.                                          *)
LEMMA RemoveParts ==
  ASSUME Whole, RemoveNext
  PROVE  /\ DOMAIN files' = DOMAIN files \ {Head(call.rest)}
         /\ \A f \in DOMAIN files' : files'[f] = files[f]
         /\ committed' = committed \cup {files'}
         /\ UNCHANGED <<temp, nextId, freeList, holds, remembers, failed>>
         /\ call' \in CallStates /\ call'.c = call.c /\ call'.pc = call.pc
         /\ call'.target = call.target /\ call'.rest = Tail(call.rest)
         /\ Head(call.rest) \in Allotted
<1>1. call.rest \in Seq(Allotted) /\ call.rest # <<>> BY CallIn DEF Whole, RemoveNext
<1>2. Head(call.rest) \in Allotted /\ Tail(call.rest) \in Seq(Allotted)
  BY <1>1, EndsType
<1>3. /\ call' \in CallStates /\ call'.c = call.c /\ call'.pc = call.pc
      /\ call'.target = call.target /\ call'.rest = Tail(call.rest)
  BY <1>2 DEF RemoveNext, Whole, Types, CallStates
<1> QED BY <1>2, <1>3 DEF RemoveNext, allocator, history

(* A directory without one of its files is whole.                          *)
LEMMA RemoveNextWhole == Whole /\ RemoveNext => Whole'
<1> SUFFICES ASSUME Whole, RemoveNext PROVE Whole' OBVIOUS
<1>1. call'.pc = "remove" /\ call'.c = call.c BY RemoveParts DEF RemoveNext
<1>2. Types' BY RemoveParts DEF Types, Whole
<1>3. Stages' BY <1>1, RemoveParts DEF Whole, Stages, RemoveNext
<1>4. TempReady' BY <1>1 DEF TempReady
<1>5. WholeDir(files') BY RemoveParts DEF Whole, WholeDirs, WholeDir
<1>6. WholeDirs' BY <1>5, RemoveParts DEF Whole, WholeDirs
<1> QED BY <1>2, <1>3, <1>4, <1>6 DEF Whole

(* The free list grows by blocks a client may have.                        *)
LEMMA PushRemovedWhole == Whole /\ PushRemoved => Whole'
<1> SUFFICES ASSUME Whole, PushRemoved PROVE Whole' OBVIOUS
<1>1. /\ UNCHANGED <<files, committed, temp, failed, nextId>> /\ freeList' = freeList \o call.c.ids
      /\ call' = At(call.c, "write", MetadataFile, <<>>)
  BY DEF PushRemoved, PushAll, history
<1>2. freeList' \in Seq(Allotted) /\ call.c \in FileCalls /\ <<>> \in Seq(Allotted)
  BY <1>1, CallIn, ConcatType, EmptySeq DEF Whole, Types
<1>3. call' \in CallStates BY <1>1, <1>2, AtTypes DEF MetadataFile
<1>4. Types' BY <1>1, <1>2, <1>3 DEF Whole, Types
<1>5. Stages' /\ call'.pc = "write"
  BY <1>1, AtParts DEF Whole, Stages, PushRemoved
<1> QED BY <1>1, <1>4, <1>5, QuietWhole

(* A call that returns leaves the files as they are.                       *)
LEMMA ReturnWhole == Whole /\ Return => Whole'
BY EndWhole DEF Return, Whole, Types, allocator

(* So does one that returns an error.                                      *)
LEMMA IOErrorWhole == Whole /\ IOError => Whole'
<1> SUFFICES ASSUME Whole, IOError PROVE Whole' OBVIOUS
<1>1. failed' \in FileCalls BY CallIn, CallTypes DEF IOError, Whole
<1> QED BY <1>1, EndWhole DEF IOError, Whole, Types, allocator

(* So does the death of the process.                                       *)
LEMMA CrashWhole == Whole /\ Crash => Whole'
BY EndWhole, ForgetTypes, NoTempType, CallTypes DEF Crash, Die

(* The death of the machine leaves one of the directories it may leave,    *)
(* with whole files.                                                       *)
LEMMA OutageParts ==
  ASSUME Whole, Outage
  PROVE  \E dir \in committed :
           /\ DOMAIN files' = DOMAIN dir /\ committed' = {files'}
           /\ WholeDir(dir) /\ WholeDir(files')
           /\ \A f \in DOMAIN dir : files'[f].data = dir[f].data
<1>1. PICK dir \in committed : files' = Surviving(dir) /\ committed' = {Surviving(dir)}
  BY DEF Outage
<1>2. WholeDir(dir) BY DEF Whole, WholeDirs
<1>3. /\ DOMAIN files' = DOMAIN dir
      /\ \A f \in DOMAIN dir : files'[f].synced /\ files'[f].data = dir[f].data
  BY <1>1, <1>2 DEF Surviving, WholeDir
<1> QED BY <1>1, <1>2, <1>3 DEF WholeDir

(* The machine comes back with a directory that was committed.             *)
LEMMA OutageWhole == Whole /\ Outage => Whole'
<1> SUFFICES ASSUME Whole, Outage PROVE Whole' OBVIOUS
<1>1. Types'
  BY AtTypes, ForgetTypes, NoTempType, CallTypes DEF Types, Outage, Die
<1>2. Stages' /\ TempReady' BY AtParts, CallParts DEF Stages, TempReady, Outage, Die
<1>3. WholeDirs' BY OutageParts DEF WholeDirs
<1> QED BY <1>1, <1>2, <1>3 DEF Whole

(* The first layer is inductive.                                           *)
LEMMA NextWhole == Whole /\ [Next]_vars => Whole'
<1> SUFFICES ASSUME Whole, [Next]_vars PROVE Whole' OBVIOUS
<1>1. CASE Open \/ Close BY <1>1, OpenWhole, CloseWhole
<1>2. CASE Client BY <1>2, BeginAnyWhole DEF Client
<1>3. CASE Step
  BY <1>3, InvalidBlockSizeWhole, WriteTempWhole, SyncTempWhole, RenameTempWhole,
     RemoveNextWhole, PushRemovedWhole, ReturnWhole DEF Step
<1>4. CASE IOError \/ Crash \/ Outage BY <1>4, IOErrorWhole, CrashWhole, OutageWhole
<1>5. CASE UNCHANGED vars
  BY <1>5 DEF vars, Whole, Types, Stages, TempReady, WholeDirs, AllocatorMetadata
<1> QED BY <1>1, <1>2, <1>3, <1>4, <1>5 DEF Next

(* However many errors and deaths of the process and of the machine there  *)
(* are, and wherever: metadata.bin and the blocks' files are whole.        *)
THEOREM FilesAlwaysWhole == Spec => []WholeFiles
<1>1. Init => Whole BY InitWhole
<1>2. Whole /\ [Next]_vars => Whole' BY NextWhole
<1>3. Whole => WholeFiles BY DEF Whole, WholeDirs, WholeDir, DataOf, WholeFiles
<1> QED BY <1>1, <1>2, <1>3, PTL DEF Spec

-----------------------------------------------------------------------------
(* Second layer: no block is handed out twice.                             *)

(* ToSet and IsInjective, element by element.                              *)
LEMMA Elements ==
  ASSUME NEW s \in Seq(Allotted)
  PROVE  /\ \A x : x \in ToSet(s) <=> \E i \in 1..Len(s) : s[i] = x
         /\ IsInjective(s) <=> \A i, j \in 1..Len(s) : s[i] = s[j] => i = j
BY LenProperties DEF ToSet, IsInjective

(* Of taken blocks, some are taken.                                        *)
LEMMA TakenOfLess ==
  ASSUME NEW m, NEW ids, NEW fewer \in SUBSET ids, Taken(ids, m)
  PROVE  Taken(fewer, m)
BY DEF Taken

(* Two sets of taken blocks are taken together.                            *)
LEMMA TakenTogether ==
  ASSUME NEW m, NEW x, NEW y, Taken(x, m), Taken(y, m)
  PROVE  Taken(x \cup y, m)
BY DEF Taken

(* The root's block is always taken.                                       *)
LEMMA RootTaken ==
  ASSUME NEW m \in FileMetadata, NEW ids, Taken(ids, m)
  PROVE  Taken(ids \cup {RootBlock}, m)
<1>1. m.free_blocks \in Seq(Allotted) /\ m.next_block_id \in Allotted BY DEF FileMetadata
<1>2. RootBlock \notin ToSet(m.free_blocks)
  BY <1>1, Elements, ElementOfSeq DEF Allotted, RootBlock
<1>3. RootBlock < m.next_block_id BY <1>1 DEF Allotted, RootBlock
<1> QED BY <1>2, <1>3 DEF Taken

(* With nothing handed out, only the root's block is taken.                *)
LEMMA NothingTaken ==
  ASSUME NEW ids \in SUBSET {RootBlock}
  PROVE  Taken(ids, NewMetadata)
<1>1. IsInjective(<<>>) /\ ToSet(<<>>) = {} BY DEF IsInjective, ToSet
<1> QED BY <1>1 DEF Taken, NewMetadata, RootBlock

(* allocate_block hands out a block that is not taken, and then it is.     *)
LEMMA TakeFreshBlockTakes ==
  ASSUME nextId \in Allotted, freeList \in Seq(Allotted), TakeFreshBlock,
         NEW ids \in SUBSET Nat, Taken(ids, AllocatorMetadata)
  PROVE  /\ FreshBlock \notin ids
         /\ Taken(ids, AllocatorMetadata') /\ Taken({FreshBlock}, AllocatorMetadata')
<1>1. /\ AllocatorMetadata.free_blocks = freeList /\ AllocatorMetadata.next_block_id = nextId
      /\ AllocatorMetadata'.free_blocks = freeList' /\ AllocatorMetadata'.next_block_id = nextId'
  BY DEF AllocatorMetadata
<1>2. nextId \in Nat /\ Allotted \subseteq Nat BY DEF Allotted
<1>3. CASE freeList = <<>>
  <2>1. FreshBlock = nextId /\ nextId' = nextId + 1 /\ freeList' = freeList
    BY <1>3 DEF FreshBlock, TakeFreshBlock
  <2>2. ToSet(freeList) = {} BY <1>3 DEF ToSet
  <2> QED BY <1>1, <1>2, <2>1, <2>2 DEF Taken
<1>4. CASE freeList # <<>>
  <2>1. FreshBlock = Last(freeList) /\ nextId' = nextId /\ freeList' = Front(freeList)
    BY <1>4 DEF FreshBlock, TakeFreshBlock
  <2> DEFINE n == Len(freeList)
  <2>2. n \in Nat /\ n > 0 BY <1>4, LenProperties, EmptySeq
  <2>3. Last(freeList) = freeList[n] BY DEF Last
  <2>4. /\ Front(freeList) \in Seq(Allotted) /\ Len(Front(freeList)) = n - 1
        /\ \A i \in 1..(n - 1) : Front(freeList)[i] = freeList[i]
    <3>1. Front(freeList) \in Seq(Allotted) /\ Len(Front(freeList)) = n - 1
      BY <1>4, FrontType
    <3>2. Front(freeList) = SubSeq(freeList, 1, n - 1) BY DEF Front
    <3>3. \A i \in 1..(n - 1) : SubSeq(freeList, 1, n - 1)[i] = freeList[i]
      BY <2>2, SubSeqProperties, ElementOfSeq
    <3> QED BY <3>1, <3>2, <3>3
  <2>5. /\ \A i, j \in 1..n : freeList[i] = freeList[j] => i = j
        /\ \A i \in 1..n : freeList[i] < nextId /\ freeList[i] \notin ids
    <3>1. \A i \in 1..n : freeList[i] \in ToSet(freeList) BY Elements
    <3>2. IsInjective(freeList) BY <1>1 DEF Taken
    <3>3. \A i, j \in 1..n : freeList[i] = freeList[j] => i = j BY <3>2, Elements
    <3> QED BY <1>1, <3>1, <3>3 DEF Taken
  <2>6. n \in 1..n /\ \A i \in 1..(n - 1) : i \in 1..n /\ i # n BY <2>2
  <2>7. /\ IsInjective(freeList')
        /\ \A x \in ToSet(freeList') : x < nextId /\ x \notin ids /\ x # freeList[n]
    <3>1. \A x : x \in ToSet(freeList') <=> \E i \in 1..(n - 1) : freeList[i] = x
      BY <2>1, <2>4, Elements
    <3>2. IsInjective(freeList') <=> \A i, j \in 1..(n - 1) : freeList[i] = freeList[j] => i = j
      BY <2>1, <2>4, Elements, SMTT(20)
    <3> HIDE DEF n
    <3> QED BY <2>5, <2>6, <3>1, <3>2
  <2>8. freeList[n] < nextId /\ freeList[n] \notin ids BY <2>5, <2>6
  <2>9. \A b \in ids : b < nextId BY <1>1 DEF Taken
  <2> HIDE DEF n
  <2> QED BY <1>1, <2>1, <2>3, <2>7, <2>8, <2>9 DEF Taken
<1> QED BY <1>3, <1>4

(* Blocks that may be pushed come on the free list once.                   *)
LEMMA PushAllTakes ==
  ASSUME nextId \in Allotted, freeList \in Seq(Allotted), NEW ids \in Seq(Allotted),
         PushAll(ids), Taken(DOMAIN holds, AllocatorMetadata), MayPush(ids)
  PROVE  Taken(DOMAIN holds, AllocatorMetadata')
<1>1. /\ AllocatorMetadata.free_blocks = freeList /\ AllocatorMetadata.next_block_id = nextId
      /\ AllocatorMetadata'.free_blocks = freeList' /\ AllocatorMetadata'.next_block_id = nextId
      /\ freeList' = freeList \o ids
  BY DEF AllocatorMetadata, PushAll
<1> DEFINE m == Len(freeList)
           n == Len(ids)
<1>2. m \in Nat /\ n \in Nat BY LenProperties
<1>3. /\ freeList \o ids \in Seq(Allotted) /\ Len(freeList \o ids) = m + n
      /\ \A i \in 1..(m + n) :
           (freeList \o ids)[i] = IF i <= m THEN freeList[i] ELSE ids[i - m]
  BY ConcatProperties
<1>4. /\ \A i, j \in 1..m : freeList[i] = freeList[j] => i = j
      /\ \A i, j \in 1..n : ids[i] = ids[j] => i = j
      /\ \A i \in 1..m : freeList[i] < nextId /\ freeList[i] \notin DOMAIN holds
      /\ \A i \in 1..n : ids[i] < nextId /\ ids[i] \notin DOMAIN holds
      /\ \A i \in 1..m, j \in 1..n : freeList[i] # ids[j]
  <2>1. \A i \in 1..m : freeList[i] \in ToSet(freeList) BY Elements
  <2>2. \A i \in 1..n : ids[i] \in ToSet(ids) BY Elements
  <2>3. IsInjective(freeList) /\ IsInjective(ids) BY <1>1 DEF Taken, MayPush
  <2>4. \A i, j \in 1..m : freeList[i] = freeList[j] => i = j BY <2>3, Elements
  <2>5. \A i, j \in 1..n : ids[i] = ids[j] => i = j BY <2>3, Elements
  <2> HIDE DEF m, n
  <2> QED BY <1>1, <2>1, <2>2, <2>4, <2>5 DEF Taken, MayPush
<1>5. \A x \in ToSet(freeList') : x < nextId /\ x \notin DOMAIN holds
  <2>1. \A i \in 1..(m + n) :
          (freeList \o ids)[i] < nextId /\ (freeList \o ids)[i] \notin DOMAIN holds
    <3> HIDE DEF m, n
    <3> QED BY <1>2, <1>3, <1>4
  <2> DEFINE list == freeList \o ids
  <2>2. list \in Seq(Allotted) /\ Len(list) = m + n BY <1>3
  <2> HIDE DEF list
  <2>3. \A x : x \in ToSet(list) <=> \E i \in 1..(m + n) : list[i] = x
    BY <2>2, Elements
  <2> QED BY <1>1, <2>1, <2>3 DEF list
<1>6. IsInjective(freeList')
  <2>1. ASSUME NEW i \in 1..(m + n), NEW j \in 1..(m + n),
               (freeList \o ids)[i] = (freeList \o ids)[j]
        PROVE  i = j
    <3> HIDE DEF m, n
    <3>1. CASE i <= m /\ j <= m BY <1>2, <1>3, <1>4, <2>1, <3>1
    <3>2. CASE i <= m /\ ~(j <= m) BY <1>2, <1>3, <1>4, <2>1, <3>2
    <3>3. CASE ~(i <= m) /\ j <= m BY <1>2, <1>3, <1>4, <2>1, <3>3
    <3>4. CASE ~(i <= m) /\ ~(j <= m)
      <4>1. i - m \in 1..n /\ j - m \in 1..n BY <1>2, <3>4
      <4>2. ids[i - m] = ids[j - m] BY <1>3, <2>1, <3>4
      <4> QED BY <1>2, <1>4, <4>1, <4>2
    <3> QED BY <3>1, <3>2, <3>3, <3>4
  <2> DEFINE list == freeList \o ids
  <2>2. list \in Seq(Allotted) /\ Len(list) = m + n BY <1>3
  <2> HIDE DEF list
  <2>3. IsInjective(list) <=> \A i, j \in 1..(m + n) : list[i] = list[j] => i = j
    BY <2>2, Elements
  <2> QED BY <1>1, <2>1, <2>3 DEF list
<1> QED BY <1>1, <1>5, <1>6 DEF Taken

(* At first nobody has a block.                                            *)
LEMMA InitUnshared == Init => Unshared
<1> SUFFICES ASSUME Init PROVE Unshared OBVIOUS
<1>1. /\ holds = [ b \in {} |-> {} ] /\ DOMAIN holds = {} /\ remembers = {} /\ freeList = <<>>
      /\ files = [ f \in {} |-> NoTemp ] /\ committed = {files} /\ call = Closed /\ failed = NoCall
  BY DEF Init, NewAllocator
<1>2. MetadataIn(files) = NewMetadata BY <1>1 DEF MetadataIn
<1>3. ClientsTaken BY <1>1, <1>2, NothingTaken, AtParts DEF ClientsTaken, Lasting
<1>4. CallsTaken /\ Freeing BY <1>1, AtParts, CallParts DEF CallsTaken, Freeing
<1> QED BY <1>3, <1>4 DEF Unshared

(* A step that leaves the handle closed, and what the client has.          *)
LEMMA ClosedUnshared ==
  ASSUME Unshared, call' = Closed, failed'.do \notin {"free", "free_all"},
         UNCHANGED <<files, committed, holds, remembers>>
  PROVE  Unshared'
<1>1. ClientsTaken' BY AtParts DEF Unshared, ClientsTaken, Lasting
<1>2. CallsTaken' /\ Freeing' BY AtParts, CallParts DEF CallsTaken, Freeing
<1> QED BY <1>1, <1>2 DEF Unshared

(* A step that ends a call that changed nothing more.                      *)
LEMMA IdleUnshared ==
  ASSUME Unshared, call.pc # "closed", call.c.do = "new" => call.pc = "return",
         call' = Idle, UNCHANGED <<files, committed, nextId, freeList, holds, remembers>>,
         failed'.do # "free_all",
         failed'.do = "free" =>
           /\ failed' = Deallocate(failed'.id)
           /\ failed'.id \in DOMAIN files => MayPush(failed'.ids)
  PROVE  Unshared'
<1>1. AllocatorMetadata' = AllocatorMetadata BY DEF AllocatorMetadata
<1>2. Taken(DOMAIN holds, AllocatorMetadata)
  BY DEF Unshared, ClientsTaken
<1>3. ClientsTaken' BY <1>1, <1>2, AtParts DEF Unshared, ClientsTaken, Lasting
<1>4. CallsTaken' /\ Freeing' BY <1>1, AtParts, CallParts DEF CallsTaken, Freeing, MayPush
<1> QED BY <1>3, <1>4 DEF Unshared

(* What is on disk says that the client's blocks are taken.                *)
LEMMA OpenUnshared == Whole /\ Unshared /\ Open => Unshared'
<1> SUFFICES ASSUME Whole, Unshared, Open PROVE Unshared' OBVIOUS
<1>1. UNCHANGED <<files, committed, holds, remembers, failed>> BY DEF Open, history
<1>2. failed.do \notin {"free", "free_all"} BY DEF Open, Unshared, Freeing
<1>3. CASE MetadataFile \in DOMAIN files
  <2>1. call' = Idle /\ Load(MetadataIn(files)) BY <1>3 DEF Open
  <2>2. MetadataIn(files) \in FileMetadata BY MetadataInTypes DEF Whole, WholeDirs
  <2>3. AllocatorMetadata' = MetadataIn(files)
    BY <2>1, <2>2 DEF Load, AllocatorMetadata, FileMetadata
  <2>4. ClientsTaken' BY <1>1, <2>1, <2>3, AtParts DEF Unshared, ClientsTaken, Lasting
  <2>5. CallsTaken' /\ Freeing'
    BY <1>1, <1>2, <2>1, AtParts, CallParts DEF CallsTaken, Freeing
  <2> QED BY <2>4, <2>5 DEF Unshared
<1>4. CASE MetadataFile \notin DOMAIN files
  <2>1. call' = At(New, "write", MetadataFile, <<>>) /\ freeList' = <<>>
    BY <1>4 DEF Open, ForgetAllocator
  <2>2. DOMAIN holds \subseteq {RootBlock}
    <3>1. MetadataIn(files) = NewMetadata BY <1>4 DEF MetadataIn
    <3>2. \A b \in DOMAIN holds : b < 2 /\ b \in BlockId
      BY <3>1 DEF Unshared, ClientsTaken, Taken, NewMetadata
    <3> QED BY <3>2 DEF BlockId, RootBlock
  <2>3. call'.c.do = "new" /\ call'.pc = "write" BY <2>1, AtParts, CallParts
  <2>4. ClientsTaken' BY <1>1, <2>3 DEF Unshared, ClientsTaken, Lasting
  <2>5. CallsTaken' BY <1>1, <2>1, <2>2, <2>3 DEF CallsTaken
  <2>6. Freeing' BY <1>1, <1>2, <2>3 DEF Freeing
  <2> QED BY <2>4, <2>5, <2>6 DEF Unshared
<1> QED BY <1>3, <1>4

(* Closing leaves the disk alone.                                          *)
LEMMA CloseUnshared == Unshared /\ Close => Unshared'
BY ClosedUnshared, CallParts DEF Close

(* A call of a client that is idle finds its blocks taken.                 *)
LEMMA IdleTaken ==
  ASSUME Whole, Unshared, call.pc = "idle"
  PROVE  Taken(DOMAIN holds, AllocatorMetadata)
BY DEF Whole, Stages, Unshared, ClientsTaken

(* A client writes to a block it has, or to the root's.                    *)
LEMMA BeginWriteUnshared ==
  ASSUME Whole, Unshared, NEW id \in Ids \cup {RootBlock}, NEW node \in Contents,
         BeginWrite(id, node)
  PROVE  Unshared'
<1>1. /\ UNCHANGED <<files, committed, nextId, freeList, remembers>>
      /\ DOMAIN holds' = DOMAIN holds /\ failed' = NoCall /\ call.pc = "idle"
      /\ call' = At(Write(id, node), "write", id, <<>>) /\ id \in DOMAIN holds \cup {RootBlock}
  BY DEF BeginWrite, Begin
<1>2. /\ call'.pc = "write" /\ call'.c.do = "save" /\ call'.c.id = id
  BY <1>1, AtParts, CallParts
<1>3. AllocatorMetadata' = AllocatorMetadata BY <1>1 DEF AllocatorMetadata
<1>4. ClientsTaken'
  BY <1>1, <1>2, <1>3, IdleTaken DEF Unshared, ClientsTaken, Lasting
<1>5. CallsTaken' /\ Freeing' BY <1>1, <1>2, CallParts DEF CallsTaken, Freeing
<1> QED BY <1>4, <1>5 DEF Unshared

(* A sync asks nothing of any block.                                       *)
LEMMA BeginSyncUnshared == Whole /\ Unshared /\ BeginSync => Unshared'
<1> SUFFICES ASSUME Whole, Unshared, BeginSync PROVE Unshared' OBVIOUS
<1>1. /\ UNCHANGED <<files, committed, nextId, freeList, holds, remembers>>
      /\ failed' = NoCall /\ call.pc = "idle" /\ call' = At(Sync, "write", MetadataFile, <<>>)
  BY DEF BeginSync, Begin
<1>2. call'.pc = "write" /\ call'.c.do = "sync" BY <1>1, AtParts, CallParts
<1>3. AllocatorMetadata' = AllocatorMetadata BY <1>1 DEF AllocatorMetadata
<1>4. ClientsTaken' BY <1>1, <1>2, <1>3, IdleTaken DEF Unshared, ClientsTaken, Lasting
<1>5. CallsTaken' /\ Freeing' BY <1>1, <1>2, CallParts DEF CallsTaken, Freeing
<1> QED BY <1>4, <1>5 DEF Unshared

(* An allocation takes a block that nobody has.                            *)
LEMMA BeginAllocateUnshared == Whole /\ Unshared /\ BeginAllocate => Unshared'
<1> SUFFICES ASSUME Whole, Unshared, BeginAllocate PROVE Unshared' OBVIOUS
<1> DEFINE c == [ AllocateCall EXCEPT !.id = FreshBlock ]
<1>1. /\ UNCHANGED <<files, committed, holds, remembers>> /\ TakeFreshBlock
      /\ failed' = NoCall /\ call.pc = "idle" /\ call' = At(c, "write", FreshBlock, <<>>)
  BY DEF BeginAllocate, Begin
<1>2. c.do = "allocate" /\ c.id = FreshBlock BY CallParts
<1>3. call'.pc = "write" /\ call'.c.do = "allocate" /\ call'.c.id = FreshBlock
  <2> HIDE DEF c
  <2> QED BY <1>1, <1>2, AtParts
<1>4. /\ FreshBlock \notin DOMAIN holds
      /\ Taken(DOMAIN holds, AllocatorMetadata') /\ Taken({FreshBlock}, AllocatorMetadata')
  <2>1. DOMAIN holds \subseteq Nat BY DEF Unshared, ClientsTaken, BlockId
  <2>2. nextId \in Allotted /\ freeList \in Seq(Allotted) BY DEF Whole, Types
  <2> QED BY <1>1, <2>1, <2>2, IdleTaken, TakeFreshBlockTakes
<1> HIDE DEF c
<1>5. ClientsTaken' BY <1>1, <1>3, <1>4 DEF Unshared, ClientsTaken, Lasting
<1>6. CallsTaken' BY <1>1, <1>3, <1>4 DEF CallsTaken
<1>7. Freeing' BY <1>1, <1>3, CallParts DEF Freeing
<1> QED BY <1>5, <1>6, <1>7 DEF Unshared

(* A client that gives up blocks leaves the rest taken.                    *)
LEMMA GiveUpTaken ==
  ASSUME Whole, Unshared, NEW ids, GiveUp(ids), call.pc = "idle",
         UNCHANGED <<files, committed, nextId, freeList>>, call'.pc # "return"
  PROVE  /\ ClientsTaken' /\ DOMAIN holds' = DOMAIN holds \ ids
         /\ AllocatorMetadata' = AllocatorMetadata
<1>1. DOMAIN holds' = DOMAIN holds \ ids /\ remembers' = remembers \ ids BY DEF GiveUp
<1>2. AllocatorMetadata' = AllocatorMetadata BY DEF AllocatorMetadata
<1>3. Lasting' \subseteq Lasting BY <1>1 DEF Lasting
<1>4. \A dir \in committed' : Taken(Lasting', MetadataIn(dir))
  BY <1>3, TakenOfLess DEF Unshared, ClientsTaken
<1>5. DOMAIN holds' \subseteq DOMAIN holds BY <1>1
<1>6. Taken(DOMAIN holds', AllocatorMetadata') /\ Taken(DOMAIN holds', MetadataIn(files'))
  BY <1>2, <1>5, IdleTaken, TakenOfLess DEF Unshared, ClientsTaken
<1>7. DOMAIN holds' \subseteq BlockId /\ remembers' \subseteq DOMAIN holds'
  BY <1>1 DEF Unshared, ClientsTaken
<1> QED BY <1>1, <1>2, <1>4, <1>6, <1>7 DEF ClientsTaken

(* Blocks of the client may be pushed, once it has given them up.          *)
LEMMA OwnMayPush ==
  ASSUME Whole, Unshared, call.pc = "idle", NEW ids \in Seq(Allotted), IsInjective(ids),
         ToSet(ids) \subseteq DOMAIN holds
  PROVE  IsInjective(ids) /\ Taken(ToSet(ids), AllocatorMetadata)
BY IdleTaken, TakenOfLess

(* A block given up, now or in a call that failed, may be pushed.          *)
LEMMA BeginDeallocateUnshared ==
  ASSUME Whole, Unshared, NEW id \in Ids, BeginDeallocate(id)
  PROVE  Unshared'
<1> DEFINE c == Deallocate(id)
<1>1. /\ UNCHANGED <<files, committed, nextId, freeList>> /\ GiveUp({id}) /\ MayFree(c)
      /\ failed' = NoCall /\ call.pc = "idle"
      /\ call' = IF id \in DOMAIN files THEN At(c, "remove", NoBlock, <<id>>) ELSE Idle
  BY DEF BeginDeallocate, Begin, allocator
<1>2. c.do = "free" /\ c.id = id /\ c.ids = <<id>> BY CallParts
<1>3. <<id>> \in Seq(Allotted) /\ ToSet(<<id>>) = {id} /\ IsInjective(<<id>>)
  BY IdsAllotted DEF ToSet, IsInjective
<1>4. call'.pc # "return" BY <1>1, AtParts
<1>5. /\ ClientsTaken' /\ DOMAIN holds' = DOMAIN holds \ {id}
      /\ AllocatorMetadata' = AllocatorMetadata
  BY <1>1, <1>4, GiveUpTaken
<1>6. CASE id \notin DOMAIN files
  BY <1>1, <1>5, <1>6, AtParts, CallParts DEF Unshared, CallsTaken, Freeing
<1>7. CASE id \in DOMAIN files
  <2>1. call'.c = c /\ call'.pc = "remove" /\ call'.rest = <<id>>
    BY <1>1, <1>7, AtParts
  <2>2. IsInjective(<<id>>) /\ Taken({id}, AllocatorMetadata)
    <3>1. CASE {id} \subseteq DOMAIN holds BY <1>1, <1>3, <3>1, OwnMayPush
    <3>2. CASE c = failed
      <4>1. MayPush(<<id>>) BY <1>2, <1>7, <3>2 DEF Unshared, Freeing
      <4> QED BY <1>3, <4>1 DEF MayPush
    <3> QED BY <1>1, <1>2, <1>3, <3>1, <3>2 DEF MayFree
  <2>3. MayPush(<<id>>)' BY <1>3, <1>5, <2>2 DEF MayPush
  <2> HIDE DEF c
  <2>4. CallsTaken' BY <1>2, <2>1 DEF CallsTaken
  <2>5. Freeing'
    <3>1. <<id>> # <<>> OBVIOUS
    <3>2. c = Deallocate(c.id) BY <1>2 DEF c
    <3>3. MayPush(call.c.ids)' BY <1>2, <2>1, <2>3 DEF MayPush
    <3>4. ToSet(call'.rest) \subseteq ToSet(call'.c.ids) BY <1>2, <2>1
    <3>5. failed'.do = "none" BY <1>1, CallParts
    <3>6. call'.c = Deallocate(call'.c.id) BY <2>1, <3>2
    <3> QED BY <2>1, <3>1, <3>3, <3>4, <3>5, <3>6 DEF Freeing
  <2> QED BY <1>5, <2>4, <2>5 DEF Unshared
<1> QED BY <1>6, <1>7

(* So may several that the client has.                                     *)
LEMMA BeginDeallocateAllUnshared ==
  ASSUME Whole, Unshared, NEW ids \in FreeLists, BeginDeallocateAll(ids)
  PROVE  Unshared'
<1> DEFINE c == DeallocateAll(ids)
<1>1. /\ UNCHANGED <<files, committed, nextId, freeList>> /\ GiveUp(ToSet(ids)) /\ MayFree(c)
      /\ failed' = NoCall /\ call.pc = "idle" /\ call' = At(c, "remove", NoBlock, ids)
  BY DEF BeginDeallocateAll, Begin, allocator
<1>2. c.do = "free_all" /\ c.ids = ids BY CallParts
<1>3. ids \in Seq(Allotted) /\ IsInjective(ids) BY ListsAllotted
<1>4. call'.c = c /\ call'.pc = "remove" /\ call'.rest = ids
  <2> HIDE DEF c
  <2> QED BY <1>1, AtParts
<1> HIDE DEF c
<1>5. /\ ClientsTaken' /\ DOMAIN holds' = DOMAIN holds \ ToSet(ids)
      /\ AllocatorMetadata' = AllocatorMetadata
  BY <1>1, <1>4, GiveUpTaken
<1>6. ToSet(ids) \subseteq DOMAIN holds
  BY <1>1, <1>2 DEF MayFree, Unshared, Freeing
<1>7. MayPush(ids)'
  BY <1>1, <1>3, <1>5, <1>6, OwnMayPush DEF MayPush
<1>8. CallsTaken' BY <1>2, <1>4 DEF CallsTaken
<1>9. Freeing' BY <1>1, <1>2, <1>4, <1>7, CallParts DEF Freeing
<1> QED BY <1>5, <1>8, <1>9 DEF Unshared

(* While a call runs, nothing is left of one that failed.                  *)
LEMMA RunningTaken ==
  ASSUME Unshared, call.pc # "idle"
  PROVE  failed.do \notin {"free", "free_all"}
BY DEF Unshared, Freeing

(* A refused write ends the call.                                          *)
LEMMA InvalidBlockSizeUnshared == Unshared /\ InvalidBlockSize => Unshared'
<1> SUFFICES ASSUME Unshared, InvalidBlockSize PROVE Unshared' OBVIOUS
<1>1. /\ call.pc = "write" /\ call.c.do = "save" /\ call' = Idle
      /\ UNCHANGED <<files, committed, nextId, freeList, holds, remembers, failed>>
  BY DEF InvalidBlockSize, allocator, history
<1> QED BY <1>1, RunningTaken, IdleUnshared

(* The temporary file is nobody's block.                                   *)
LEMMA WriteTempUnshared == Whole /\ Unshared /\ WriteTemp => Unshared'
<1> SUFFICES ASSUME Whole, Unshared, WriteTemp PROVE Unshared' OBVIOUS
<1>1. /\ call.pc = "write"
      /\ UNCHANGED <<files, committed, nextId, freeList, holds, remembers, failed>>
      /\ call' = [ call EXCEPT !.pc = "sync" ] /\ call \in CallStates
  BY DEF WriteTemp, allocator, history, Whole, Types
<1>2. call'.c = call.c /\ call'.pc = "sync" /\ call'.rest = call.rest
  BY <1>1 DEF CallStates
<1>3. AllocatorMetadata' = AllocatorMetadata BY <1>1 DEF AllocatorMetadata
<1>4. ClientsTaken' BY <1>1, <1>2, <1>3 DEF Unshared, ClientsTaken, Lasting
<1>5. CallsTaken' BY <1>1, <1>2, <1>3 DEF Unshared, CallsTaken
<1>6. Freeing' BY <1>1, <1>2, RunningTaken DEF Unshared, Freeing
<1> QED BY <1>4, <1>5, <1>6 DEF Unshared

(* A sync settles which directory an outage leaves.                        *)
LEMMA SyncTempUnshared == Whole /\ Unshared /\ SyncTemp => Unshared'
<1> SUFFICES ASSUME Whole, Unshared, SyncTemp PROVE Unshared' OBVIOUS
<1>1. /\ call.pc = "sync" /\ committed' = {files}
      /\ UNCHANGED <<files, nextId, freeList, holds, failed>>
      /\ remembers' \in {remembers, DOMAIN holds}
      /\ call' = [ call EXCEPT !.pc = "rename" ] /\ call \in CallStates
  BY DEF SyncTemp, allocator, Whole, Types
<1>2. call'.c = call.c /\ call'.pc = "rename" /\ call'.rest = call.rest
  BY <1>1 DEF CallStates
<1>3. AllocatorMetadata' = AllocatorMetadata BY <1>1 DEF AllocatorMetadata
<1>4. Lasting' \subseteq DOMAIN holds BY <1>1 DEF Lasting
<1>5. \A dir \in committed' : Taken(Lasting', MetadataIn(dir))
  BY <1>1, <1>4, TakenOfLess DEF Unshared, ClientsTaken
<1>6. ClientsTaken' BY <1>1, <1>2, <1>3, <1>5 DEF Unshared, ClientsTaken
<1>7. CallsTaken' BY <1>1, <1>2, <1>3 DEF Unshared, CallsTaken
<1>8. Freeing' BY <1>1, <1>2, RunningTaken DEF Unshared, Freeing
<1> QED BY <1>6, <1>7, <1>8 DEF Unshared

(* A new metadata.bin says what the allocator in memory knows; a           *)
(* block's new file says nothing of the allocator.                         *)
LEMMA RenameTempUnshared == Whole /\ Unshared /\ RenameTemp => Unshared'
<1> SUFFICES ASSUME Whole, Unshared, RenameTemp PROVE Unshared' OBVIOUS
<1>1. call.pc = "rename" BY DEF RenameTemp
<1>2. AllocatorMetadata' = AllocatorMetadata BY RenameParts DEF AllocatorMetadata
<1>3. Lasting' = Lasting /\ Lasting \subseteq DOMAIN holds BY RenameParts DEF Lasting
<1>4. Taken(DOMAIN holds, MetadataIn(files'))
  <2>1. CASE call.target = MetadataFile
    <3>1. MetadataIn(files') = AllocatorMetadata BY <2>1, RenameParts DEF MetadataIn
    <3>2. CASE call.c.do # "new"
      BY <1>1, <3>1, <3>2 DEF Unshared, ClientsTaken
    <3>3. CASE call.c.do = "new"
      <4>1. freeList = <<>> /\ DOMAIN holds \subseteq {RootBlock} /\ nextId \in Allotted
        BY <3>3 DEF Unshared, CallsTaken, Whole, Types
      <4>2. IsInjective(<<>>) /\ ToSet(<<>>) = {} BY DEF IsInjective, ToSet
      <4> QED BY <3>1, <4>1, <4>2 DEF Taken, AllocatorMetadata, Allotted, RootBlock
    <3> QED BY <3>2, <3>3
  <2>2. CASE call.target # MetadataFile
    <3>1. MetadataIn(files') = MetadataIn(files) BY <2>2, RenameParts DEF MetadataIn
    <3> QED BY <3>1 DEF Unshared, ClientsTaken
  <2> QED BY <2>1, <2>2
<1>5. Taken(Lasting, MetadataIn(files')) BY <1>3, <1>4, TakenOfLess
<1>6. \A dir \in committed' : Taken(Lasting', MetadataIn(dir))
  BY <1>3, <1>5, RenameParts DEF Unshared, ClientsTaken
<1>7. call'.pc = "return" => MetadataIn(files') = AllocatorMetadata
  BY RenameParts DEF MetadataIn
<1>8. ClientsTaken'
  BY <1>1, <1>2, <1>4, <1>6, <1>7, RenameParts DEF Unshared, ClientsTaken
<1>9. CallsTaken' BY <1>2, RenameParts DEF Unshared, CallsTaken
<1>10. call'.pc \in {"write", "return"} BY RenameParts
<1>11. call.c.do = "free" => call.c.id \notin DOMAIN files'
  <2> SUFFICES ASSUME call.c.do = "free" PROVE call.c.id \notin DOMAIN files' OBVIOUS
  <2>1. call.target = MetadataFile BY <1>1 DEF Whole, Stages
  <2>2. call.c.id \notin DOMAIN files /\ call.c = Deallocate(call.c.id)
    BY <1>1 DEF Unshared, Freeing
  <2>3. call.c.ids = <<call.c.id>> BY <2>2, CallParts
  <2>4. call.c.ids \in Seq(Allotted) BY CallIn DEF Whole
  <2>5. call.c.id \in Allotted BY <2>3, <2>4, ElementOfSeq
  <2> QED BY <2>1, <2>2, <2>5, RenameParts DEF Allotted, MetadataFile
<1>12. failed'.do \notin {"free", "free_all"} BY <1>1, RunningTaken, RenameParts
<1>13. Freeing'
  BY <1>10, <1>11, <1>12, RenameParts DEF Unshared, Freeing
<1> QED BY <1>8, <1>9, <1>13 DEF Unshared

(* The file that goes is one the client has given up.                      *)
LEMMA RemoveNextUnshared == Whole /\ Unshared /\ RemoveNext => Unshared'
<1> SUFFICES ASSUME Whole, Unshared, RemoveNext PROVE Unshared' OBVIOUS
<1>1. call.pc = "remove" /\ call.rest # <<>> BY DEF RemoveNext
<1>2. AllocatorMetadata' = AllocatorMetadata BY RemoveParts DEF AllocatorMetadata
<1>3. Lasting' = Lasting /\ Lasting \subseteq DOMAIN holds BY RemoveParts DEF Lasting
<1>4. MetadataIn(files') = MetadataIn(files)
  <2>1. Head(call.rest) # MetadataFile BY RemoveParts DEF Allotted, MetadataFile
  <2> QED BY <2>1, RemoveParts DEF MetadataIn
<1>5. Taken(Lasting, MetadataIn(files'))
  BY <1>3, <1>4, TakenOfLess DEF Unshared, ClientsTaken
<1>6. \A dir \in committed' : Taken(Lasting', MetadataIn(dir))
  BY <1>3, <1>5, RemoveParts DEF Unshared, ClientsTaken
<1>7. ClientsTaken'
  BY <1>1, <1>2, <1>4, <1>6, RemoveParts DEF Unshared, ClientsTaken
<1>8. CallsTaken'
  BY <1>2, RemoveParts DEF Unshared, CallsTaken
<1>9. call.rest \in Seq(Allotted) BY CallIn DEF Whole
<1>10. Head(call.rest) \in ToSet(call.rest) /\ ToSet(call'.rest) \subseteq ToSet(call.rest)
  <2>1. /\ Head(call.rest) = call.rest[1] /\ Len(call.rest) \in Nat /\ Len(call.rest) > 0
        /\ Tail(call.rest) \in Seq(Allotted) /\ Len(Tail(call.rest)) = Len(call.rest) - 1
        /\ \A i \in 1..(Len(call.rest) - 1) : Tail(call.rest)[i] = call.rest[i + 1]
    BY <1>1, <1>9, HeadTailProperties, LenProperties, EmptySeq
  <2>2. Head(call.rest) \in ToSet(call.rest) BY <1>9, <2>1, Elements
  <2>3. \A i \in 1..Len(Tail(call.rest)) : Tail(call.rest)[i] \in ToSet(call.rest)
    BY <1>9, <2>1, Elements
  <2>4. \A x \in ToSet(Tail(call.rest)) :
          \E i \in 1..Len(Tail(call.rest)) : Tail(call.rest)[i] = x
    BY <2>1, Elements
  <2> QED BY <2>2, <2>3, <2>4, RemoveParts
<1>11. MayPush(call.c.ids)'
  BY <1>1, <1>2, RemoveParts DEF Unshared, Freeing, MayPush
<1>12. call.c.do = "free" => call.c.id \notin DOMAIN files'
  <2> SUFFICES ASSUME call.c.do = "free" PROVE call.c.id \notin DOMAIN files' OBVIOUS
  <2>1. call.c = Deallocate(call.c.id) /\ ToSet(call.rest) \subseteq ToSet(call.c.ids)
    BY <1>1 DEF Unshared, Freeing
  <2>2. call.c.ids = <<call.c.id>> BY <2>1, CallParts
  <2>3. ToSet(call.c.ids) = {call.c.id} BY <2>2 DEF ToSet
  <2> QED BY <1>10, <2>1, <2>3, RemoveParts
<1>13. failed'.do \notin {"free", "free_all"} BY <1>1, RunningTaken, RemoveParts
<1>14. Freeing'
  BY <1>1, <1>10, <1>11, <1>12, <1>13, RemoveParts DEF Unshared, Freeing
<1> QED BY <1>7, <1>8, <1>14 DEF Unshared

(* The blocks pushed are taken and nobody's, and their files are gone.     *)
LEMMA PushRemovedUnshared == Whole /\ Unshared /\ PushRemoved => Unshared'
<1> SUFFICES ASSUME Whole, Unshared, PushRemoved PROVE Unshared' OBVIOUS
<1>1. /\ call.pc = "remove" /\ call.rest = <<>> /\ PushAll(call.c.ids)
      /\ UNCHANGED <<files, committed, holds, remembers, failed>>
      /\ call' = At(call.c, "write", MetadataFile, <<>>)
  BY DEF PushRemoved, history
<1>2. call'.c = call.c /\ call'.pc = "write" BY <1>1, AtParts
<1>3. call.c.do \in {"free", "free_all"} BY <1>1 DEF Whole, Stages
<1>4. Taken(DOMAIN holds, AllocatorMetadata) /\ MayPush(call.c.ids)
  BY <1>1, <1>3 DEF Unshared, ClientsTaken, Freeing
<1>5. Taken(DOMAIN holds, AllocatorMetadata')
  BY <1>1, <1>4, CallIn, PushAllTakes DEF Whole, Types
<1>6. ClientsTaken' BY <1>1, <1>2, <1>5 DEF Unshared, ClientsTaken, Lasting
<1>7. CallsTaken' BY <1>2, <1>3 DEF CallsTaken
<1>8. Freeing' BY <1>1, <1>2, RunningTaken DEF Unshared, Freeing
<1> QED BY <1>6, <1>7, <1>8 DEF Unshared

(* A client that obtains a block obtains one that is taken on disk.        *)
LEMMA ReturnUnshared == Whole /\ Unshared /\ Return => Unshared'
<1> SUFFICES ASSUME Whole, Unshared, Return PROVE Unshared' OBVIOUS
<1>1. /\ call.pc = "return" /\ call' = Idle
      /\ UNCHANGED <<files, committed, nextId, freeList, remembers, failed>>
  BY DEF Return, allocator
<1>2. failed.do \notin {"free", "free_all"} BY <1>1, RunningTaken
<1>3. CASE UNCHANGED holds BY <1>1, <1>2, <1>3, IdleUnshared
<1>4. CASE call.c.do \in {"save", "allocate"} /\ Obtain(call.c.id, call.c.node)
  <2> DEFINE id == call.c.id
  <2>1. DOMAIN holds' = DOMAIN holds \cup {id} BY <1>4 DEF Obtain
  <2>2. AllocatorMetadata' = AllocatorMetadata /\ MetadataIn(files) = AllocatorMetadata
    BY <1>1 DEF AllocatorMetadata, Unshared, ClientsTaken
  <2>3. AllocatorMetadata \in FileMetadata /\ id \in Nat
    BY MetadataTypes, CallIn DEF Whole, Types
  <2>4. Taken(DOMAIN holds, AllocatorMetadata) BY <1>1, <1>4 DEF Unshared, ClientsTaken
  <2>5. Taken(DOMAIN holds', AllocatorMetadata)
    <3>1. CASE call.c.do = "save"
      <4>1. Taken(DOMAIN holds \cup {RootBlock}, AllocatorMetadata)
        BY <2>3, <2>4, RootTaken
      <4>2. DOMAIN holds' \subseteq DOMAIN holds \cup {RootBlock}
        BY <2>1, <3>1 DEF Unshared, CallsTaken
      <4> QED BY <4>1, <4>2, TakenOfLess
    <3>2. CASE call.c.do = "allocate"
      BY <2>1, <2>4, <3>2, TakenTogether DEF Unshared, CallsTaken
    <3> QED BY <1>4, <3>1, <3>2
  <2>6. DOMAIN holds' \subseteq BlockId
    BY <1>4, <2>1, <2>3 DEF Unshared, ClientsTaken, Whole, Stages, BlockId, MetadataFile
  <2>7. remembers' \subseteq DOMAIN holds' BY <1>1, <2>1 DEF Unshared, ClientsTaken
  <2>8. \A dir \in committed' : Taken(Lasting', MetadataIn(dir))
    <3> SUFFICES ASSUME NEW dir \in committed PROVE Taken(Lasting', MetadataIn(dir))
      BY <1>1
    <3>1. Taken(Lasting, MetadataIn(dir)) BY DEF Unshared, ClientsTaken
    <3>2. MetadataIn(dir) \in FileMetadata BY MetadataInTypes DEF Whole, WholeDirs
    <3>3. Taken(Lasting \cup {RootBlock}, MetadataIn(dir)) BY <3>1, <3>2, RootTaken
    <3>4. id \notin DOMAIN holds => id \notin remembers BY DEF Unshared, ClientsTaken
    <3>5. Lasting' \subseteq Lasting \cup {RootBlock} BY <1>1, <2>1, <3>4 DEF Lasting
    <3> QED BY <3>3, <3>5, TakenOfLess
  <2>9. ClientsTaken'
    BY <1>1, <2>2, <2>5, <2>6, <2>7, <2>8, AtParts DEF ClientsTaken
  <2>10. CallsTaken' /\ Freeing' BY <1>1, <1>2, AtParts, CallParts DEF CallsTaken, Freeing
  <2> QED BY <2>9, <2>10 DEF Unshared
<1> QED BY <1>3, <1>4 DEF Return

(* After an error the blocks of the call stay taken in memory.             *)
LEMMA IOErrorUnshared ==
  ASSUME "free_all" \notin Retried, Whole, Unshared, IOError
  PROVE  Unshared'
<1>1. /\ UNCHANGED <<files, committed, nextId, freeList, holds, remembers>>
      /\ failed' = IF call.c.do \in Retried THEN call.c ELSE NoCall
      /\ call' = IF call.c.do = "new" THEN Closed ELSE Idle
      /\ call.pc \in {"write", "sync", "rename", "remove"}
      /\ call.pc = "remove" => call.rest # <<>>
  BY DEF IOError, allocator
<1>2. failed'.do # "free_all" BY <1>1, CallParts
<1>3. CASE call.c.do = "new" BY <1>1, <1>2, <1>3, CallParts, ClosedUnshared
<1>4. CASE call.c.do # "new"
  <2>1. ASSUME failed'.do = "free"
        PROVE  /\ failed' = Deallocate(failed'.id)
               /\ failed'.id \in DOMAIN files => MayPush(failed'.ids)
    <3>1. failed' = call.c BY <1>1, <2>1, CallParts
    <3> QED BY <1>1, <2>1, <3>1 DEF Unshared, Freeing
  <2> QED BY <1>1, <1>2, <1>4, <2>1, IdleUnshared
<1> QED BY <1>3, <1>4

(* The death of the process leaves what is on disk.                        *)
LEMMA CrashUnshared == Unshared /\ Crash => Unshared'
BY ClosedUnshared, CallParts DEF Crash, Die

(* After an outage the client has the blocks that it had a record of.      *)
LEMMA OutageUnshared == Whole /\ Unshared /\ Outage => Unshared'
<1> SUFFICES ASSUME Whole, Unshared, Outage PROVE Unshared' OBVIOUS
<1>1. PICK dir \in committed :
        /\ DOMAIN files' = DOMAIN dir /\ committed' = {files'}
        /\ \A f \in DOMAIN dir : files'[f].data = dir[f].data
  BY OutageParts
<1>2. DOMAIN holds' = Lasting /\ remembers' = remembers /\ call' = Closed /\ failed' = NoCall
  BY DEF Outage, Lasting, Die
<1>3. Lasting' = Lasting BY <1>2 DEF Lasting
<1>4. MetadataIn(files') = MetadataIn(dir) BY <1>1 DEF MetadataIn
<1>5. Taken(Lasting, MetadataIn(files')) BY <1>4 DEF Unshared, ClientsTaken
<1>6. Lasting \subseteq BlockId /\ remembers \subseteq Lasting
  BY DEF Unshared, ClientsTaken, Lasting
<1>7. ClientsTaken' BY <1>1, <1>2, <1>3, <1>5, <1>6, AtParts DEF ClientsTaken
<1>8. CallsTaken' /\ Freeing' BY <1>2, AtParts, CallParts DEF CallsTaken, Freeing
<1> QED BY <1>7, <1>8 DEF Unshared

(* The second layer is inductive on the first.                             *)
LEMMA NextUnshared ==
  ASSUME "free_all" \notin Retried
  PROVE  Whole /\ Unshared /\ [Next]_vars => Unshared'
<1> SUFFICES ASSUME Whole, Unshared, [Next]_vars PROVE Unshared' OBVIOUS
<1>1. CASE Open \/ Close BY <1>1, OpenUnshared, CloseUnshared
<1>2. CASE Client
  BY <1>2, BeginWriteUnshared, BeginAllocateUnshared, BeginDeallocateUnshared,
     BeginDeallocateAllUnshared, BeginSyncUnshared DEF Client
<1>3. CASE Step
  BY <1>3, InvalidBlockSizeUnshared, WriteTempUnshared, SyncTempUnshared, RenameTempUnshared,
     RemoveNextUnshared, PushRemovedUnshared, ReturnUnshared DEF Step
<1>4. CASE IOError \/ Crash \/ Outage
  BY <1>4, IOErrorUnshared, CrashUnshared, OutageUnshared
<1>5. CASE UNCHANGED vars
  BY <1>5 DEF vars, Unshared, ClientsTaken, CallsTaken, Freeing, MayPush, Lasting,
              AllocatorMetadata
<1> QED BY <1>1, <1>2, <1>3, <1>4, <1>5 DEF Next

(* A client that does not repeat a deallocate_blocks that failed is never  *)
(* handed a block that it has, however many errors and deaths there are.   *)
(* (The run retried_free shows what comes of repeating one.)               *)
THEOREM BlocksHandedOutOnce ==
  ASSUME "free_all" \notin Retried
  PROVE  Spec => []HandedOutOnce
<1>1. Init => Whole /\ Unshared BY InitWhole, InitUnshared
<1>2. Whole /\ Unshared /\ [Next]_vars => Whole' /\ Unshared' BY NextWhole, NextUnshared
<1>3. Unshared => HandedOutOnce BY DEF Unshared, CallsTaken, HandedOutOnce
<1> QED BY <1>1, <1>2, <1>3, PTL DEF Spec

-----------------------------------------------------------------------------
(* Third layer: what was acknowledged is kept.                             *)

(* At first nothing has been acknowledged.                                 *)
LEMMA InitKept == Init => Kept
<1> SUFFICES ASSUME Init PROVE Kept OBVIOUS
<1>1. DOMAIN holds = {} /\ call.c.do = "none" BY AtParts, CallParts DEF Init
<1> QED BY <1>1 DEF Kept, ClientsKept, AcknowledgedKept, CallsKept, Lasting

(* What the client keeps depends on the files and on what the client has.  *)
LEMMA SameKept ==
  ASSUME Kept, UNCHANGED <<files, committed>>, DOMAIN holds' \subseteq DOMAIN holds,
         remembers' \subseteq remembers,
         \A b \in DOMAIN holds' : holds[b] \subseteq holds'[b]
  PROVE  ClientsKept'
<1>1. Lasting' \subseteq Lasting BY DEF Lasting
<1>2. Lasting' \subseteq DOMAIN holds' BY DEF Lasting
<1> QED BY <1>1, <1>2 DEF Kept, ClientsKept, AcknowledgedKept, InFile

(* A call that is neither a write_block nor an allocate_block puts nothing *)
(* in a block.                                                             *)
LEMMA OtherKept == ASSUME call'.c.do \notin {"save", "allocate"} PROVE CallsKept'
BY DEF CallsKept

(* A block that is being written may have either content.                  *)
LEMMA BeginWriteKept ==
  ASSUME Whole, Unshared, Kept, NEW id \in Ids \cup {RootBlock}, NEW node \in Contents,
         BeginWrite(id, node)
  PROVE  Kept'
<1>1. /\ UNCHANGED <<files, committed, remembers>> /\ DOMAIN holds' = DOMAIN holds
      /\ \A b \in DOMAIN holds' :
           holds'[b] = IF b = id THEN holds[b] \cup {node} ELSE holds[b]
      /\ call' = At(Write(id, node), "write", id, <<>>)
  BY DEF BeginWrite, Begin
<1>2. /\ call'.pc = "write" /\ call'.target = id
      /\ call'.c.do = "save" /\ call'.c.id = id /\ call'.c.node = node
  BY <1>1, AtParts, CallParts
<1>3. id # MetadataFile BY IdsAllotted DEF RootBlock, MetadataFile
<1>4. ClientsKept' BY <1>1, SameKept
<1>5. CallsKept' BY <1>1, <1>2, <1>3 DEF CallsKept
<1> QED BY <1>4, <1>5 DEF Kept

(* Calls that begin otherwise leave every file as it is.                   *)
LEMMA BeginOtherKept ==
  ASSUME Whole, Unshared, Kept
  PROVE  /\ BeginAllocate => Kept'
         /\ (\E id \in Ids : BeginDeallocate(id)) => Kept'
         /\ (\E ids \in FreeLists : BeginDeallocateAll(ids)) => Kept'
         /\ BeginSync => Kept'
<1>1. ASSUME BeginAllocate PROVE Kept'
  <2> DEFINE c == [ AllocateCall EXCEPT !.id = FreshBlock ]
  <2>1. /\ UNCHANGED <<files, committed, holds, remembers>>
        /\ call' = At(c, "write", FreshBlock, <<>>)
    BY <1>1 DEF BeginAllocate, Begin
  <2>2. c.do = "allocate" BY CallParts
  <2>3. FreshBlock # MetadataFile
    BY TakeFreshBlockTypes DEF Whole, Types, Allotted, MetadataFile
  <2> HIDE DEF c
  <2>4. call'.c.do = "allocate" /\ call'.target # MetadataFile BY <2>1, <2>2, <2>3, AtParts
  <2>5. ClientsKept' BY <2>1, SameKept
  <2> QED BY <2>4, <2>5 DEF Kept, CallsKept
<1>2. ASSUME NEW id \in Ids, BeginDeallocate(id) PROVE Kept'
  <2>1. /\ UNCHANGED <<files, committed>> /\ GiveUp({id})
        /\ call' = Idle \/ call' = At(Deallocate(id), "remove", NoBlock, <<id>>)
    BY <1>2 DEF BeginDeallocate, Begin
  <2>2. ClientsKept' BY <2>1, SameKept DEF GiveUp
  <2>3. call'.c.do \in {"none", "free"} BY <2>1, AtParts, CallParts
  <2> QED BY <2>2, <2>3, OtherKept DEF Kept
<1>3. ASSUME NEW ids \in FreeLists, BeginDeallocateAll(ids) PROVE Kept'
  <2>1. /\ UNCHANGED <<files, committed>> /\ GiveUp(ToSet(ids))
        /\ call' = At(DeallocateAll(ids), "remove", NoBlock, ids)
    BY <1>3 DEF BeginDeallocateAll, Begin
  <2>2. ClientsKept' BY <2>1, SameKept DEF GiveUp
  <2>3. call'.c.do = "free_all" BY <2>1, AtParts, CallParts
  <2> QED BY <2>2, <2>3, OtherKept DEF Kept
<1>4. ASSUME BeginSync PROVE Kept'
  <2>1. /\ UNCHANGED <<files, committed, holds, remembers>>
        /\ call' = At(Sync, "write", MetadataFile, <<>>)
    BY <1>4 DEF BeginSync, Begin
  <2>2. ClientsKept' BY <2>1, SameKept
  <2>3. call'.c.do = "sync" BY <2>1, AtParts, CallParts
  <2> QED BY <2>2, <2>3, OtherKept DEF Kept
<1> QED BY <1>1, <1>2, <1>3, <1>4

(* Steps that leave the files and the client's blocks alone.               *)
LEMMA QuietKept ==
  ASSUME Kept, UNCHANGED <<files, committed, holds, remembers>>,
         call'.c.do \in {"save", "allocate"} =>
           /\ call'.c = call.c /\ call'.target = call.target
           /\ call'.pc \notin {"rename", "return"}
  PROVE  Kept'
<1>1. ClientsKept' BY SameKept
<1>2. CallsKept' BY DEF Kept, CallsKept
<1> QED BY <1>1, <1>2 DEF Kept

(* With a sync all that was renamed before is committed.                   *)
LEMMA SyncTempKept == Whole /\ Unshared /\ Kept /\ SyncTemp => Kept'
<1> SUFFICES ASSUME Whole, Unshared, Kept, SyncTemp PROVE Kept' OBVIOUS
<1>1. /\ files' = files /\ committed' = {files} /\ holds' = holds
      /\ call' = [ call EXCEPT !.pc = "rename" ] /\ call \in CallStates
  BY DEF SyncTemp, Whole, Types
<1>2. call'.c = call.c /\ call'.target = call.target BY <1>1 DEF CallStates
<1>3. AcknowledgedKept' BY <1>1 DEF Kept, ClientsKept, AcknowledgedKept
<1>4. \A b \in Lasting' : InFile(files, b, holds[b])
  BY <1>1 DEF Kept, ClientsKept, AcknowledgedKept, Lasting, InFile
<1>5. ClientsKept' BY <1>1, <1>3, <1>4 DEF ClientsKept
<1>6. CallsKept' BY <1>1, <1>2 DEF Kept, CallsKept
<1> QED BY <1>5, <1>6 DEF Kept

(* A rename changes the block of its call and no other.                    *)
LEMMA RenameTempKept == Whole /\ Unshared /\ Kept /\ RenameTemp => Kept'
<1> SUFFICES ASSUME Whole, Unshared, Kept, RenameTemp PROVE Kept' OBVIOUS
<1>1. call.pc = "rename" BY DEF RenameTemp
<1>2. DOMAIN holds \subseteq BlockId BY DEF Unshared, ClientsTaken
<1>3. ASSUME NEW b \in DOMAIN holds PROVE InFile(files', b, holds[b])
  <2>1. InFile(files, b, holds[b]) BY DEF Kept, ClientsKept, AcknowledgedKept, InFile
  <2>2. CASE b # call.target BY <2>1, <2>2, RenameParts DEF InFile
  <2>3. CASE b = call.target
    <3>1. call.target # MetadataFile BY <1>2, <2>3 DEF BlockId, MetadataFile
    <3>2. call.c.do \in {"save", "allocate"} /\ call.c.id = b
      BY <1>1, <2>3, <3>1 DEF Whole, Stages
    <3>3. call.c.do = "save" BY <3>2 DEF Unshared, CallsTaken
    <3>4. call.c.node \in holds[b] BY <3>2, <3>3 DEF Kept, CallsKept
    <3> QED BY <2>3, <3>1, <3>4, RenameParts DEF InFile
  <2> QED BY <2>2, <2>3
<1>4. ClientsKept'
  <2>1. Lasting' = Lasting /\ Lasting \subseteq DOMAIN holds BY RenameParts DEF Lasting
  <2> QED BY <1>3, <2>1, RenameParts DEF Kept, ClientsKept, AcknowledgedKept, InFile
<1>5. CallsKept'
  <2>1. /\ call'.c = call.c /\ call'.target = MetadataFile /\ holds' = holds
        /\ committed' = committed \cup {files'}
        /\ call'.pc = IF call.target = MetadataFile THEN "return" ELSE "write"
    BY RenameParts
  <2>2. call.c.do = "save" /\ call.c.id \in DOMAIN holds => call.c.node \in holds[call.c.id]
    BY DEF Kept, CallsKept
  <2>3. ASSUME call.c.do \in {"save", "allocate"}
        PROVE  InFile(files', call.c.id, {call.c.node})
    <3>1. call.target \in {MetadataFile, call.c.id} /\ call.c.id # MetadataFile
      BY <2>3 DEF Whole, Stages
    <3>2. CASE call.target = MetadataFile
      <4>1. InFile(files, call.c.id, {call.c.node}) BY <2>3, <3>2 DEF Kept, CallsKept
      <4> QED BY <3>1, <3>2, <4>1, RenameParts DEF InFile
    <3>3. CASE call.target = call.c.id
      BY <3>1, <3>3, RenameParts DEF InFile
    <3> QED BY <3>1, <3>2, <3>3
  <2>4. ASSUME call.c.do \in {"save", "allocate"}, call.target = MetadataFile
        PROVE  \A dir \in committed : InFile(dir, call.c.id, {call.c.node})
    BY <1>1, <2>4 DEF Kept, CallsKept
  <2> QED BY <2>1, <2>2, <2>3, <2>4 DEF CallsKept
<1> QED BY <1>4, <1>5 DEF Kept

(* A removal takes no block that the client has.                           *)
LEMMA RemoveNextKept == Whole /\ Unshared /\ Kept /\ RemoveNext => Kept'
<1> SUFFICES ASSUME Whole, Unshared, Kept, RemoveNext PROVE Kept' OBVIOUS
<1>1. call.pc = "remove" /\ call.rest # <<>> /\ call.rest \in Seq(Allotted)
  BY CallIn DEF RemoveNext, Whole
<1>2. Head(call.rest) \in ToSet(call.rest)
  <2>1. Head(call.rest) = call.rest[1] /\ Len(call.rest) \in Nat /\ Len(call.rest) > 0
    BY <1>1, HeadTailProperties, LenProperties, EmptySeq
  <2> QED BY <1>1, <2>1, Elements
<1>3. Head(call.rest) \notin DOMAIN holds BY <1>1, <1>2 DEF Unshared, Freeing, MayPush
<1>4. ASSUME NEW b \in DOMAIN holds PROVE InFile(files', b, holds[b])
  <2>1. InFile(files, b, holds[b]) BY DEF Kept, ClientsKept, AcknowledgedKept, InFile
  <2> QED BY <1>3, <2>1, RemoveParts DEF InFile
<1>5. ClientsKept'
  <2>1. Lasting' = Lasting /\ Lasting \subseteq DOMAIN holds BY RemoveParts DEF Lasting
  <2> QED BY <1>4, <2>1, RemoveParts DEF Kept, ClientsKept, AcknowledgedKept, InFile
<1>6. call'.c.do \notin {"save", "allocate"} BY <1>1, RemoveParts DEF Whole, Stages
<1> QED BY <1>5, <1>6, OtherKept DEF Kept

(* What a call acknowledges is in its file, in every directory.            *)
LEMMA ReturnKept == Whole /\ Unshared /\ Kept /\ Return => Kept'
<1> SUFFICES ASSUME Whole, Unshared, Kept, Return PROVE Kept' OBVIOUS
<1>1. /\ call.pc = "return" /\ call' = Idle
      /\ UNCHANGED <<files, committed, remembers>>
  BY DEF Return
<1>2. CallsKept' BY <1>1, AtParts, CallParts, OtherKept
<1>3. CASE UNCHANGED holds BY <1>1, <1>2, <1>3, SameKept DEF Kept
<1>4. CASE call.c.do \in {"save", "allocate"} /\ Obtain(call.c.id, call.c.node)
  <2> DEFINE id == call.c.id
  <2>1. /\ DOMAIN holds' = DOMAIN holds \cup {id} /\ holds'[id] = {call.c.node}
        /\ \A b \in DOMAIN holds \ {id} : holds'[b] = holds[b]
    BY <1>4 DEF Obtain
  <2>2. /\ InFile(files, id, {call.c.node})
        /\ \A dir \in committed : InFile(dir, id, {call.c.node})
    BY <1>1, <1>4 DEF Kept, CallsKept, Whole, Stages
  <2> HIDE DEF id
  <2>3. AcknowledgedKept'
    BY <1>1, <2>1, <2>2 DEF Kept, ClientsKept, AcknowledgedKept, InFile
  <2>4. Lasting' \subseteq Lasting \cup {id} BY <1>1, <2>1 DEF Lasting
  <2>5. \A dir \in committed : \A b \in Lasting' : InFile(dir, b, holds'[b])
    <3> SUFFICES ASSUME NEW dir \in committed, NEW b \in Lasting'
                 PROVE  InFile(dir, b, holds'[b])
      OBVIOUS
    <3>1. CASE b = id BY <2>1, <2>2, <3>1
    <3>2. CASE b # id
      <4>1. b \in Lasting /\ b \in DOMAIN holds \ {id} BY <2>4, <3>2 DEF Lasting
      <4>2. InFile(dir, b, holds[b]) BY <4>1 DEF Kept, ClientsKept
      <4> QED BY <2>1, <4>1, <4>2
    <3> QED BY <3>1, <3>2
  <2>6. ClientsKept' BY <1>1, <2>3, <2>5 DEF ClientsKept
  <2> QED BY <1>2, <2>6 DEF Kept
<1> QED BY <1>3, <1>4 DEF Return

(* An outage leaves what the client will have.                             *)
LEMMA OutageKept == Whole /\ Unshared /\ Kept /\ Outage => Kept'
<1> SUFFICES ASSUME Whole, Unshared, Kept, Outage PROVE Kept' OBVIOUS
<1>1. PICK dir \in committed :
        /\ DOMAIN files' = DOMAIN dir /\ committed' = {files'}
        /\ \A f \in DOMAIN dir : files'[f].data = dir[f].data
  BY OutageParts
<1>2. /\ DOMAIN holds' = Lasting /\ \A b \in Lasting : holds'[b] = holds[b]
      /\ remembers' = remembers /\ call' = Closed
  BY DEF Outage, Lasting, Die
<1>3. \A b \in Lasting : InFile(dir, b, holds[b]) BY DEF Kept, ClientsKept
<1>4. \A b \in DOMAIN holds' : InFile(files', b, holds'[b]) BY <1>1, <1>2, <1>3 DEF InFile
<1>5. Lasting' = Lasting BY <1>2 DEF Lasting
<1>6. ClientsKept' BY <1>1, <1>2, <1>4, <1>5 DEF ClientsKept, AcknowledgedKept, InFile
<1> QED BY <1>2, <1>6, AtParts, CallParts, OtherKept DEF Kept

(* The third layer is inductive on the first two.                          *)
LEMMA NextKept == Whole /\ Unshared /\ Kept /\ [Next]_vars => Kept'
<1> SUFFICES ASSUME Whole, Unshared, Kept, [Next]_vars PROVE Kept' OBVIOUS
<1>1. CASE Open \/ Close \/ Crash
  <2>1. UNCHANGED <<files, committed, holds, remembers>>
    BY <1>1 DEF Open, Close, Crash, history
  <2>2. call' \in {Idle, Closed, At(New, "write", MetadataFile, <<>>)}
    BY <1>1 DEF Open, Close, Crash, Die
  <2>3. call'.c.do \in {"none", "new"} BY <2>2, AtParts, CallParts
  <2> QED BY <2>1, <2>3, QuietKept
<1>2. CASE Client BY <1>2, BeginWriteKept, BeginOtherKept DEF Client
<1>3. CASE InvalidBlockSize \/ IOError
  <2>1. UNCHANGED <<files, committed, holds, remembers>> /\ call' \in {Idle, Closed}
    BY <1>3 DEF InvalidBlockSize, IOError, history
  <2>2. call'.c.do = "none" BY <2>1, AtParts, CallParts
  <2> QED BY <2>1, <2>2, QuietKept
<1>4. CASE WriteTemp
  <2>1. /\ UNCHANGED <<files, committed, holds, remembers>>
        /\ call' = [ call EXCEPT !.pc = "sync" ] /\ call \in CallStates
    BY <1>4 DEF WriteTemp, history, Whole, Types
  <2>2. call'.c = call.c /\ call'.target = call.target /\ call'.pc = "sync"
    BY <2>1 DEF CallStates
  <2> QED BY <2>1, <2>2, QuietKept
<1>5. CASE PushRemoved
  <2>1. /\ UNCHANGED <<files, committed, holds, remembers>> /\ call.pc = "remove"
        /\ call' = At(call.c, "write", MetadataFile, <<>>)
    BY <1>5 DEF PushRemoved, history
  <2>2. call'.c.do \notin {"save", "allocate"} BY <2>1, AtParts DEF Whole, Stages
  <2> QED BY <2>1, <2>2, QuietKept
<1>6. CASE SyncTemp \/ RenameTemp \/ RemoveNext \/ Return \/ Outage
  BY <1>6, SyncTempKept, RenameTempKept, RemoveNextKept, ReturnKept, OutageKept
<1>7. CASE UNCHANGED vars
  BY <1>7 DEF vars, Kept, ClientsKept, AcknowledgedKept, CallsKept, Lasting
<1> QED BY <1>1, <1>2, <1>3, <1>4, <1>5, <1>6, <1>7 DEF Next, Step

(* A block the client has is there, with what was acknowledged or with     *)
(* what a call that did not return wrote, however many errors and deaths   *)
(* of the process and of the machine there are.                            *)
THEOREM AcknowledgedAlwaysKept ==
  ASSUME "free_all" \notin Retried
  PROVE  Spec => []AcknowledgedKept
<1>1. Init => Whole /\ Unshared /\ Kept BY InitWhole, InitUnshared, InitKept
<1>2. Whole /\ Unshared /\ Kept /\ [Next]_vars => Whole' /\ Unshared' /\ Kept'
  BY NextWhole, NextUnshared, NextKept
<1>3. Kept => AcknowledgedKept BY DEF Kept, ClientsKept
<1> QED BY <1>1, <1>2, <1>3, PTL DEF Spec

-----------------------------------------------------------------------------
(* The invariant: how far a running call has come from the storage that it *)
(* found.                                                                  *)

BlocksOf(dir) == [ b \in DOMAIN dir \ {MetadataFile} |-> dir[b].data ]

Written(bs, id, node) == [ b \in DOMAIN bs \cup {id} |-> IF b = id THEN node ELSE bs[b] ]
Without(bs, ids)      == [ b \in DOMAIN bs \ ids |-> bs[b] ]

SameAllocator == nextId = before.nextId /\ freeList = before.freeList

FoundId == IF before.freeList = <<>> THEN before.nextId ELSE Last(before.freeList)

TookFound ==
  IF before.freeList = <<>>
  THEN nextId = before.nextId + 1 /\ freeList = before.freeList
  ELSE nextId = before.nextId /\ freeList = Front(before.freeList)

WritesProgress ==
  BlocksOf(files) = IF call.target = MetadataFile
                    THEN Written(before.blocks, call.c.id, call.c.node) ELSE before.blocks

(* Of the blocks to be freed, the first n have been.                       *)
FreedSoFar(n) ==
  /\ BlocksOf(files) = Without(before.blocks, ToSet(Prefix(call.c.ids, n)))
  /\ IF call.pc = "remove"
     THEN call.rest = Suffix(call.c.ids, n) /\ SameAllocator
     ELSE /\ n = Len(call.c.ids)
          /\ nextId = before.nextId /\ freeList = before.freeList \o call.c.ids

Progress ==
  /\ before.saved = MetadataIn(files)
  /\ before.freeList \in Seq(Allotted) /\ Without(before.blocks, {}) = before.blocks
  /\ call.c.do \in {"save", "allocate"} => WritesProgress
  /\ call.c.do \in {"save", "sync"} => SameAllocator
  /\ call.c.do = "sync" => BlocksOf(files) = before.blocks
  /\ call.c.do = "allocate" =>
       TookFound /\ call.c.id = FoundId /\ call.c.node = NewLeaf
  /\ call.c.do \in {"free", "free_all"} =>
       /\ call.c.ids # <<>>
       /\ \E n \in 0..Len(call.c.ids) : FreedSoFar(n)
  /\ call.c.do = "free" => call.c.ids = <<call.c.id>> /\ call.c.id \in DOMAIN before.blocks

(* Without a handle nothing is known; a new storage has nothing.           *)
Blankness ==
  /\ call.pc = "closed" \/ call.c.do = "new" => NewAllocator
  /\ call.c.do = "new" /\ call.pc # "return" => MetadataFile \notin DOMAIN files

Returned == call.pc = "return" => MetadataIn(files) = AllocatorMetadata

InStep == Blankness /\ Returned /\ (Running => Progress)

-----------------------------------------------------------------------------
(* What the contract sees.                                                 *)

(* Between calls it sees what is there.                                    *)
LEMMA SeenIdle ==
  /\ ~Running =>
       /\ Seen.blocks = BlocksOf(files) /\ Seen.saved = MetadataIn(files)
       /\ Seen.nextId = nextId /\ Seen.freeList = freeList
  /\ Running =>
       /\ Seen.blocks = before.blocks /\ Seen.saved = before.saved
       /\ Seen.nextId = before.nextId /\ Seen.freeList = before.freeList
BY DEF Seen, Actual, BlocksOf

(* And so it does after a step.                                            *)
LEMMA SeenIdleNext ==
  /\ (~Running)' =>
       /\ (Seen.blocks)' = BlocksOf(files') /\ (Seen.saved)' = MetadataIn(files')
       /\ (Seen.nextId)' = nextId' /\ (Seen.freeList)' = freeList'
  /\ Running' =>
       /\ (Seen.blocks)' = before'.blocks /\ (Seen.saved)' = before'.saved
       /\ (Seen.nextId)' = before'.nextId /\ (Seen.freeList)' = before'.freeList
BY DEF Seen, Actual, BlocksOf, MetadataIn

SameSeen ==
  /\ (Seen.blocks)' = Seen.blocks /\ (Seen.saved)' = Seen.saved
  /\ (Seen.nextId)' = Seen.nextId /\ (Seen.freeList)' = Seen.freeList

(* A step of the file system that is one step of the contract, or none.    *)
StepOrStutter == [ContractStep]_(Contract!contractvars)

(* A step between two calls, or within one, that does not show.            *)
LEMMA Hidden ==
  ASSUME SameSeen, Opened' = Opened, errors' = errors
  PROVE  StepOrStutter
BY DEF SameSeen, StepOrStutter, Contract!contractvars, Contract!storage

(* Within a call nothing shows.                                            *)
LEMMA Within ==
  ASSUME Running, Running', before' = before, errors' = errors
  PROVE  StepOrStutter
<1>1. SameSeen BY SeenIdle, SeenIdleNext DEF SameSeen
<1> QED BY <1>1, Hidden DEF Running

-----------------------------------------------------------------------------
(* What a call leaves, in the words of the contract.                       *)

(* The operations of the contract on what it sees.                         *)
LEMMA ContractOps ==
  /\ \A id, n : Contract!WriteFile(id, n) <=> (Seen.blocks)' = Written(Seen.blocks, id, n)
  /\ \A ids : Contract!RemoveFiles(ids) <=> (Seen.blocks)' = Without(Seen.blocks, ids)
  /\ Contract!SaveStorageMetadata <=>
       (Seen.saved)' = [ next_block_id |-> (Seen.nextId)', free_blocks |-> (Seen.freeList)' ]
  /\ \A ids : Contract!PushAll(ids) <=>
       (Seen.freeList)' = Seen.freeList \o ids /\ (Seen.nextId)' = Seen.nextId
  /\ \A id : Contract!PushFree(id) <=>
       (Seen.freeList)' = Append(Seen.freeList, id) /\ (Seen.nextId)' = Seen.nextId
  /\ Contract!NewLeaf = NewLeaf
BY DEF Contract!WriteFile, Written, Contract!RemoveFiles, Without, Contract!SaveStorageMetadata,
       Contract!AllocatorMetadata, Contract!PushAll, Contract!PushFree, Contract!NewLeaf, NewLeaf,
       NoBlock, Contract!NoBlock

(* A call that ends or is cut short shows what it has done.                *)
Shows ==
  /\ (Seen.blocks)' = BlocksOf(files)
  /\ (Seen.nextId)' = nextId /\ (Seen.freeList)' = freeList

(* A block taken, as the contract takes it.                                *)
LEMMA TakesFound ==
  ASSUME Running, Shows, TookFound
  PROVE  Contract!TakeFreshBlock /\ Contract!FreshBlock = FoundId
<1>1. /\ Seen.nextId = before.nextId /\ Seen.freeList = before.freeList
  BY SeenIdle
<1>2. Contract!FreshBlock = FoundId
  BY <1>1 DEF Contract!FreshBlock, FoundId, Last, Contract!Last
<1>3. Contract!TakeFreshBlock
  BY <1>1 DEF Contract!TakeFreshBlock, TookFound, Shows, Front, Contract!Front
<1> QED BY <1>2, <1>3

(* The elements of a call's list, however the operator is reached.         *)
LEMMA SameSequenceOps ==
  /\ \A s : Contract!ToSet(s) = ToSet(s)
  /\ \A s, n : Contract!Prefix(s, n) = Prefix(s, n)
BY DEF ToSet, Contract!ToSet, Prefix, Contract!Prefix

(* A call that has saved the allocator's metadata is done.                 *)
LEMMA SavedDone ==
  ASSUME Types, Stages, Progress, Running, Shows, call.target = MetadataFile, call.pc # "remove",
         (Seen.saved)' = AllocatorMetadata
  PROVE  Contract!Done(call.c)
<1> DEFINE c == call.c
<1>1. /\ Seen.blocks = before.blocks /\ Seen.saved = before.saved
      /\ Seen.nextId = before.nextId /\ Seen.freeList = before.freeList
  BY SeenIdle
<1>2. Contract!SaveStorageMetadata
  BY ContractOps DEF Shows, AllocatorMetadata
<1>3. CASE c.do = "save"
  <2>1. Contract!WriteFile(c.id, c.node)
    BY <1>1, <1>3, ContractOps DEF Shows, Progress, WritesProgress
  <2>2. UNCHANGED Contract!allocator
    BY <1>1, <1>3 DEF Contract!allocator, Shows, Progress, SameAllocator
  <2> QED BY <1>2, <1>3, <2>1, <2>2 DEF Contract!Done, Contract!WriteBlock
<1>4. CASE c.do = "allocate"
  <2>1. Contract!TakeFreshBlock /\ Contract!FreshBlock = c.id
    BY <1>4, TakesFound DEF Progress
  <2>2. Contract!WriteFile(c.id, NewLeaf)
    BY <1>1, <1>4, ContractOps DEF Shows, Progress, WritesProgress
  <2> QED BY <1>2, <1>4, <2>1, <2>2, ContractOps DEF Contract!Done, Contract!AllocateBlock
<1>5. CASE c.do \in {"free", "free_all"}
  <2>1. /\ BlocksOf(files) = Without(before.blocks, ToSet(Prefix(c.ids, Len(c.ids))))
        /\ nextId = before.nextId /\ freeList = before.freeList \o c.ids
    BY <1>5 DEF Progress, FreedSoFar
  <2>2. Prefix(c.ids, Len(c.ids)) = c.ids
    BY CallIn DEF Prefix
  <2>3. CASE c.do = "free_all"
    <3>1. Contract!RemoveFiles(Contract!ToSet(c.ids))
      BY <1>1, <2>1, <2>2, ContractOps, SameSequenceOps DEF Shows
    <3>2. Contract!PushAll(c.ids) BY <1>1, <2>1, ContractOps DEF Shows
    <3> QED BY <1>2, <2>3, <3>1, <3>2 DEF Contract!Done, Contract!DeallocateBlocks
  <2>4. CASE c.do = "free"
    <3>1. c.ids = <<c.id>> /\ c.id \in DOMAIN before.blocks
      BY <2>4 DEF Progress
    <3>2. ToSet(c.ids) = {c.id} BY <3>1 DEF ToSet
    <3>3. Contract!RemoveFile(c.id)
      BY <1>1, <2>1, <2>2, <3>2, ContractOps DEF Shows, Contract!RemoveFile
    <3>4. before.freeList \o <<c.id>> = Append(before.freeList, c.id)
      BY CallIn DEF Progress
    <3>5. Contract!PushFree(c.id)
      BY <1>1, <2>1, <3>1, <3>4, ContractOps DEF Shows
    <3> QED BY <1>1, <1>2, <2>4, <3>1, <3>3, <3>5 DEF Contract!Done, Contract!DeallocateBlock
  <2> QED BY <1>5, <2>3, <2>4
<1>6. CASE c.do = "sync"
  <2>1. UNCHANGED <<Seen.blocks, Contract!allocator>>
    BY <1>1, <1>6 DEF Contract!allocator, Shows, Progress, SameAllocator
  <2> QED BY <1>2, <1>6, <2>1 DEF Contract!Done, Contract!SyncStorage
<1>7. c.do \in {"save", "allocate", "free", "free_all", "sync"}
  BY CallIn DEF FileCalls, Stages, Running, Opened
<1> QED BY <1>3, <1>4, <1>5, <1>6, <1>7

(* One that has freed n blocks and is cut short has removed the first n.   *)
LEMMA FreedHalf ==
  ASSUME Types, Progress, Running, (Seen.blocks)' = BlocksOf(files), (Seen.saved)' = Seen.saved,
         call.c.do \in {"free", "free_all"}, NEW n \in 1..Len(call.c.ids), FreedSoFar(n)
  PROVE  Contract!HalfDone(call.c)
<1> DEFINE c == call.c
<1>1. Seen.blocks = before.blocks BY SeenIdle
<1>2. Contract!RemoveFiles(ToSet(Prefix(c.ids, n)))
  BY <1>1, ContractOps DEF Shows, FreedSoFar
<1>3. CASE c.do = "free_all"
  <2>1. Contract!RemoveFiles(Contract!ToSet(Contract!Prefix(c.ids, n)))
    BY <1>2, SameSequenceOps
  <2> QED BY <1>3, <2>1 DEF Contract!HalfDone, Contract!DeallocateBlocksHalf
<1>4. CASE c.do = "free"
  <2>1. c.ids = <<c.id>> /\ c.id \in DOMAIN before.blocks BY <1>4 DEF Progress
  <2>2. n = Len(c.ids) BY <2>1
  <2>3. Prefix(c.ids, n) = c.ids BY <2>2, CallIn DEF Prefix
  <2>4. ToSet(c.ids) = {c.id} BY <2>1 DEF ToSet
  <2>5. Contract!RemoveFile(c.id) BY <1>2, <2>3, <2>4 DEF Contract!RemoveFile
  <2> QED BY <1>1, <1>4, <2>1, <2>5 DEF Contract!HalfDone, Contract!DeallocateBlockHalf
<1> QED BY <1>3, <1>4

(* One that has freed none has done nothing.                               *)
LEMMA FreedNone ==
  ASSUME Types, Progress, Running, (Seen.blocks)' = BlocksOf(files), FreedSoFar(0)
  PROVE  (Seen.blocks)' = Seen.blocks
<1>1. Seen.blocks = before.blocks BY SeenIdle
<1>2. ToSet(Prefix(call.c.ids, 0)) = {} BY CallIn DEF Prefix, ToSet
<1> QED BY <1>1, <1>2 DEF FreedSoFar, Progress, Shows

(* A block that has been written, when the call is cut short.              *)
LEMMA WrittenHalf ==
  ASSUME Progress, Running, (Seen.blocks)' = BlocksOf(files), (Seen.saved)' = Seen.saved,
         call.c.do \in {"save", "allocate"}, call.target = MetadataFile
  PROVE  Contract!HalfDone(call.c)
<1> DEFINE c == call.c
<1>1. /\ Seen.blocks = before.blocks /\ Seen.freeList = before.freeList
      /\ Seen.nextId = before.nextId
  BY SeenIdle
<1>2. Contract!WriteFile(c.id, c.node)
  BY <1>1, ContractOps DEF Progress, WritesProgress
<1>3. CASE c.do = "save"
  BY <1>2, <1>3 DEF Contract!HalfDone, Contract!WriteBlockHalf
<1>4. CASE c.do = "allocate"
  <2>1. Contract!FreshBlock = c.id /\ c.node = NewLeaf
    BY <1>1, <1>4 DEF Contract!FreshBlock, FoundId, Progress, Last, Contract!Last
  <2> QED BY <1>2, <1>4, <2>1, ContractOps DEF Contract!HalfDone, Contract!AllocateBlockHalf
<1> QED BY <1>3, <1>4

(* A call that returns an error before it has saved the metadata.          *)
LEMMA ErrorBroken ==
  ASSUME Types, Stages, Progress, Running, Shows, (Seen.saved)' = Seen.saved,
         call.pc = "remove" => call.rest # <<>>
  PROVE  Contract!Broken(call.c)
<1> DEFINE c == call.c
<1>1. /\ Seen.blocks = before.blocks /\ Seen.saved = before.saved
      /\ Seen.nextId = before.nextId /\ Seen.freeList = before.freeList
  BY SeenIdle
<1>2. CASE c.do \in {"save", "sync"}
  <2>1. UNCHANGED Contract!allocator
    BY <1>1, <1>2 DEF Contract!allocator, Shows, Progress, SameAllocator
  <2>2. CASE BlocksOf(files) = before.blocks
    BY <1>1, <1>2, <2>1, <2>2
       DEF Contract!Broken, Contract!NotDone, Contract!disk, Shows
  <2>3. CASE c.do = "save" /\ call.target = MetadataFile
    BY <2>1, <2>3, WrittenHalf DEF Contract!Broken, Contract!HalfBroken, Shows
  <2> QED BY <1>2, <2>2, <2>3 DEF Progress, WritesProgress
<1>3. CASE c.do = "allocate"
  <2>1. Contract!TakeFreshBlock BY <1>3, TakesFound DEF Progress
  <2>2. CASE call.target = MetadataFile
    BY <1>3, <2>1, <2>2, WrittenHalf DEF Contract!Broken, Contract!HalfBroken, Shows
  <2>3. CASE call.target # MetadataFile
    BY <1>1, <1>3, <2>1, <2>3
       DEF Contract!Broken, Contract!NotDone, Contract!disk, Shows, Progress, WritesProgress
  <2> QED BY <2>2, <2>3
<1>4. CASE c.do \in {"free", "free_all"}
  <2>1. PICK n \in 0..Len(c.ids) : FreedSoFar(n) BY <1>4 DEF Progress
  <2>2. c.ids \in Seq(Allotted) /\ c.ids # <<>> BY <1>4, CallIn DEF Progress
  <2>3. CASE call.pc = "remove" /\ n = 0
    <3>1. UNCHANGED Contract!allocator
      BY <1>1, <2>1, <2>3 DEF Contract!allocator, Shows, FreedSoFar, SameAllocator
    <3>2. (Seen.blocks)' = Seen.blocks BY <2>1, <2>3, FreedNone DEF Shows
    <3> QED BY <1>4, <3>1, <3>2 DEF Contract!Broken, Contract!NotDone, Contract!disk
  <2>4. CASE call.pc = "remove" /\ n # 0
    <3>1. Contract!HalfDone(c) BY <1>4, <2>1, <2>4, FreedHalf DEF Shows
    <3>2. UNCHANGED Contract!allocator
      BY <1>1, <2>1, <2>4 DEF Contract!allocator, Shows, FreedSoFar, SameAllocator
    <3>3. c.do = "free_all"
      <4>1. SUFFICES ASSUME c.do = "free" PROVE FALSE BY <1>4
      <4>2. c.ids = <<c.id>> BY <4>1 DEF Progress
      <4>3. n = Len(c.ids) BY <2>4, <4>2
      <4>4. Len(Suffix(c.ids, n)) = 0
        <5>1. Len(c.ids) \in Nat BY <2>2, LenProperties
        <5>2. Len(Suffix(c.ids, n)) = Len(c.ids) - n BY <2>2, SuffixType
        <5> QED BY <4>3, <5>1, <5>2
      <4> QED BY <2>1, <2>4, <4>4 DEF FreedSoFar
    <3> QED BY <3>1, <3>2, <3>3 DEF Contract!Broken, Contract!HalfBroken
  <2>5. CASE call.pc # "remove"
    <3>1. n = Len(c.ids) /\ nextId = before.nextId /\ freeList = before.freeList \o c.ids
      BY <2>1, <2>5 DEF FreedSoFar
    <3>2. n \in 1..Len(c.ids) BY <2>2, <3>1
    <3>3. Contract!HalfDone(c) BY <1>4, <2>1, <3>2, FreedHalf DEF Shows
    <3>4. CASE c.do = "free_all"
      <4>1. Contract!PushAll(c.ids) BY <1>1, <3>1, ContractOps DEF Shows
      <4>2. Prefix(c.ids, n) = c.ids BY <2>2, <3>1 DEF Prefix
      <4>3. (Seen.blocks)' = Without(before.blocks, ToSet(c.ids))
        BY <2>1, <4>2 DEF FreedSoFar, Shows
      <4>4. DOMAIN (Seen.blocks)' \cap Contract!ToSet(c.ids) = {}
        BY <4>3, SameSequenceOps DEF Without
      <4> QED BY <3>3, <3>4, <4>1, <4>4 DEF Contract!Broken, Contract!HalfBroken
    <3>5. CASE c.do = "free"
      <4>1. c.ids = <<c.id>> BY <3>5 DEF Progress
      <4>2. before.freeList \o <<c.id>> = Append(before.freeList, c.id)
        BY CallIn DEF Progress
      <4>3. Contract!PushFree(c.id) BY <1>1, <3>1, <4>1, <4>2, ContractOps DEF Shows
      <4> QED BY <3>3, <3>5, <4>3 DEF Contract!Broken, Contract!HalfBroken
    <3> QED BY <1>4, <3>4, <3>5
  <2> QED BY <2>3, <2>4, <2>5
<1>5. c.do \in {"save", "allocate", "free", "free_all", "sync"}
  BY CallIn DEF FileCalls, Stages, Running, Opened
<1> QED BY <1>2, <1>3, <1>4, <1>5

(* The disk after a process that died in a call.                           *)
LEMMA DeathHalfDone ==
  ASSUME Types, Stages, Progress, Running, (Seen.blocks)' = BlocksOf(files),
         (Seen.saved)' = Seen.saved
  PROVE  Contract!HalfDone(call.c) \/ (Seen.blocks)' = Seen.blocks
<1> DEFINE c == call.c
<1>1. Seen.blocks = before.blocks BY SeenIdle
<1>2. CASE c.do \in {"save", "allocate"}
  <2>1. CASE call.target = MetadataFile BY <1>2, <2>1, WrittenHalf
  <2>2. CASE call.target # MetadataFile BY <1>1, <1>2, <2>2 DEF Progress, WritesProgress
  <2> QED BY <2>1, <2>2
<1>3. CASE c.do = "sync" BY <1>1, <1>3 DEF Progress
<1>4. CASE c.do \in {"free", "free_all"}
  <2>1. PICK n \in 0..Len(c.ids) : FreedSoFar(n) BY <1>4 DEF Progress
  <2>2. CASE n = 0 BY <2>1, <2>2, FreedNone
  <2>3. CASE n # 0 BY <1>4, <2>1, <2>3, FreedHalf
  <2> QED BY <2>2, <2>3
<1>5. c.do \in {"save", "allocate", "free", "free_all", "sync"}
  BY CallIn DEF FileCalls, Stages, Running, Opened
<1> QED BY <1>2, <1>3, <1>4, <1>5

-----------------------------------------------------------------------------
(* The steps, one by one.                                                  *)

(* While a call runs there is a handle that does not open it.              *)
LEMMA RunningParts ==
  ASSUME Stages
  PROVE  /\ Running <=> /\ call.pc \in {"write", "sync", "rename", "remove"}
                        /\ call.c.do # "new"
         /\ call.pc \in {"idle", "closed"} => ~Running /\ call.c.do = "none"
         /\ call.pc = "return" => ~Running
         /\ Opened <=> call.pc # "closed" /\ call.c.do # "new"
BY DEF Running, Opened, Stages

(* An idle or closed handle satisfies the invariant.                       *)
LEMMA RestingInStep ==
  ASSUME call' = Idle \/ (call' = Closed /\ NewAllocator')
  PROVE  InStep' /\ ~Running' /\ (Opened' <=> call' = Idle)
<1>1. Idle # Closed BY AtParts
<1> QED BY <1>1, AtParts, CallParts
        DEF InStep, Blankness, Returned, Running, Opened, NewAllocator

(* The files of blocks and metadata.bin after a rename.                    *)
LEMMA RenamedFiles ==
  ASSUME Whole, RenameTemp
  PROVE  /\ call.target = MetadataFile =>
              BlocksOf(files') = BlocksOf(files) /\ MetadataIn(files') = AllocatorMetadata
         /\ call.target # MetadataFile =>
              /\ BlocksOf(files') = Written(BlocksOf(files), call.target, call.c.node)
              /\ MetadataIn(files') = MetadataIn(files)
<1>1. /\ DOMAIN files' = DOMAIN files \cup {call.target}
      /\ \A f \in DOMAIN files' : files'[f] = IF f = call.target THEN temp ELSE files[f]
  BY DEF RenameTemp
<1>2. temp.data = IF call.target = MetadataFile THEN AllocatorMetadata ELSE call.c.node
  BY RenameParts
<1>3. CASE call.target = MetadataFile
  <2>1. BlocksOf(files') = BlocksOf(files) BY <1>1, <1>3 DEF BlocksOf
  <2>2. MetadataIn(files') = AllocatorMetadata BY <1>1, <1>2, <1>3 DEF MetadataIn
  <2> QED BY <1>3, <2>1, <2>2
<1>4. CASE call.target # MetadataFile
  <2>1. BlocksOf(files') = Written(BlocksOf(files), call.target, call.c.node)
    BY <1>1, <1>2, <1>4 DEF BlocksOf, Written
  <2>2. MetadataIn(files') = MetadataIn(files) BY <1>1, <1>4 DEF MetadataIn
  <2> QED BY <1>4, <2>1, <2>2
<1> QED BY <1>3, <1>4

(* Progress does not depend on the temporary file.                         *)
LEMMA ProgressKept ==
  ASSUME Progress, UNCHANGED <<files, before, nextId, freeList>>,
         call'.c = call.c, call'.target = call.target, call'.rest = call.rest,
         call.pc # "remove", call'.pc # "remove"
  PROVE  Progress'
<1>1. \A n : FreedSoFar(n) => FreedSoFar(n)' BY DEF FreedSoFar, SameAllocator
<1> QED BY <1>1 DEF Progress, WritesProgress, SameAllocator, TookFound, FoundId

(* Opening.                                                                *)
LEMMA OpenInStep ==
  ASSUME Whole, InStep, Open, BeforeNext
  PROVE  InStep' /\ StepOrStutter
<1>1. call.pc = "closed" /\ UNCHANGED <<files, errors>> /\ NewAllocator
  BY DEF Open, faults, InStep, Blankness
<1>2. ~Running /\ ~Opened BY <1>1, RunningParts DEF Whole
<1>3. CASE MetadataFile \in DOMAIN files
  <2>1. call' = Idle /\ Load(MetadataIn(files)) BY <1>3 DEF Open
  <2>2. InStep' /\ ~Running' /\ Opened' BY <2>1, RestingInStep
  <2>3. Contract!OpenContract
    BY <1>1, <1>2, <2>1, <2>2, SeenIdle, SeenIdleNext
       DEF Contract!OpenContract, Contract!OpenStorage, Contract!Load, Contract!disk,
           Contract!Succeeds, Load
  <2> QED BY <2>2, <2>3 DEF StepOrStutter, ContractStep
<1>4. CASE MetadataFile \notin DOMAIN files
  <2>1. call' = At(New, "write", MetadataFile, <<>>) /\ ForgetAllocator BY <1>4 DEF Open
  <2>2. call'.pc = "write" /\ call'.c.do = "new" BY <2>1, AtParts, CallParts
  <2>3. ~Running' /\ ~Opened' BY <2>2 DEF Running, Opened
  <2>4. UNCHANGED <<nextId, freeList>> BY <1>1, <2>1 DEF ForgetAllocator, NewAllocator
  <2>5. InStep'
    BY <1>1, <1>4, <2>2, <2>3, <2>4 DEF InStep, Blankness, Returned, NewAllocator
  <2>6. SameSeen BY <1>1, <1>2, <2>3, <2>4, SeenIdle, SeenIdleNext DEF SameSeen
  <2>7. Opened' = Opened
    <3>1. Opened \in BOOLEAN /\ Opened' \in BOOLEAN BY DEF Opened
    <3> QED BY <1>2, <2>3, <3>1
  <2> QED BY <1>1, <2>5, <2>6, <2>7, Hidden
<1> QED BY <1>3, <1>4

(* Closing, between two calls.                                             *)
LEMMA CloseInStep ==
  ASSUME Whole, InStep, Close, BeforeNext
  PROVE  InStep' /\ StepOrStutter
<1>1. /\ call.pc = "idle" /\ call' = Closed /\ ForgetAllocator
      /\ UNCHANGED <<files, errors>>
  BY DEF Close, faults
<1>2. ~Running /\ Opened BY <1>1, RunningParts DEF Whole
<1>3. NewAllocator' BY <1>1 DEF ForgetAllocator, NewAllocator
<1>4. InStep' /\ ~Running' /\ ~Opened' BY <1>1, <1>3, RestingInStep, AtParts
<1>5. Contract!CloseContract
  BY <1>1, <1>2, <1>4, SeenIdle, SeenIdleNext
     DEF Contract!CloseContract, Contract!disk, Contract!Succeeds
<1> QED BY <1>4, <1>5 DEF StepOrStutter, ContractStep

(* A call that begins finds the storage as it is.                          *)
LEMMA BeginShowsNothing ==
  ASSUME Whole, call.pc = "idle", BeforeNext, UNCHANGED <<files, errors>>, Opened',
         Running' \/ UNCHANGED <<nextId, freeList>>
  PROVE  StepOrStutter
<1>1. ~Running /\ Opened BY RunningParts DEF Whole
<1>2. /\ before' = Actual
      /\ Actual.blocks = BlocksOf(files) /\ Actual.saved = MetadataIn(files)
      /\ Actual.nextId = nextId /\ Actual.freeList = freeList
  BY DEF BeforeNext, Actual, BlocksOf
<1>3. SameSeen BY <1>1, <1>2, SeenIdle, SeenIdleNext DEF SameSeen
<1> QED BY <1>1, <1>3, Hidden

(* And this is what is known of it then.                                   *)
LEMMA Found ==
  ASSUME Whole, call.pc = "idle", BeforeNext, UNCHANGED files
  PROVE  /\ before'.saved = MetadataIn(files') /\ before'.blocks = BlocksOf(files')
         /\ before'.nextId = nextId /\ before'.freeList = freeList
         /\ before'.freeList \in Seq(Allotted)
         /\ Without(before'.blocks, {}) = before'.blocks
<1>1. before' = Actual BY DEF BeforeNext
<1>2. /\ Actual.blocks = BlocksOf(files) /\ Actual.saved = MetadataIn(files)
      /\ Actual.nextId = nextId /\ Actual.freeList = freeList
  BY DEF Actual, BlocksOf
<1>3. freeList \in Seq(Allotted) BY DEF Whole, Types
<1>4. Without(BlocksOf(files), {}) = BlocksOf(files) BY DEF Without, BlocksOf
<1> QED BY <1>1, <1>2, <1>3, <1>4

(* write_block begins.                                                     *)
LEMMA BeginWriteInStep ==
  ASSUME Whole, InStep, NEW id \in Ids \cup {RootBlock}, NEW node \in Contents,
         BeginWrite(id, node), BeforeNext
  PROVE  InStep' /\ StepOrStutter
<1>1. /\ call.pc = "idle" /\ UNCHANGED <<files, nextId, freeList, errors>>
      /\ call' = At(Write(id, node), "write", id, <<>>)
  BY DEF BeginWrite, Begin, faults
<1>2. /\ call'.pc = "write" /\ call'.target = id /\ call'.c.do = "save"
      /\ id # MetadataFile
  BY <1>1, AtParts, CallParts, IdsAllotted DEF RootBlock, MetadataFile
<1>3. Opened' BY <1>2 DEF Opened
<1>4. Progress'
  BY <1>1, <1>2, Found DEF Progress, WritesProgress, SameAllocator
<1>5. InStep' BY <1>2, <1>4 DEF InStep, Blankness, Returned
<1> QED BY <1>1, <1>3, <1>5, BeginShowsNothing

(* sync begins.                                                            *)
LEMMA BeginSyncInStep ==
  ASSUME Whole, InStep, BeginSync, BeforeNext
  PROVE  InStep' /\ StepOrStutter
<1>1. /\ call.pc = "idle" /\ UNCHANGED <<files, nextId, freeList, errors>>
      /\ call' = At(Sync, "write", MetadataFile, <<>>)
  BY DEF BeginSync, Begin, faults
<1>2. call'.pc = "write" /\ call'.c.do = "sync"
  BY <1>1, AtParts, CallParts
<1>3. Opened' BY <1>2 DEF Opened
<1>4. Progress' BY <1>1, <1>2, Found DEF Progress, SameAllocator
<1>5. InStep' BY <1>2, <1>4 DEF InStep, Blankness, Returned
<1> QED BY <1>1, <1>3, <1>5, BeginShowsNothing

(* allocate_block begins: the allocator in memory changes at once.         *)
LEMMA BeginAllocateInStep ==
  ASSUME Whole, InStep, BeginAllocate, BeforeNext
  PROVE  InStep' /\ StepOrStutter
<1>1. /\ call.pc = "idle" /\ UNCHANGED <<files, errors>> /\ TakeFreshBlock
      /\ call' = At([ AllocateCall EXCEPT !.id = FreshBlock ], "write", FreshBlock, <<>>)
  BY DEF BeginAllocate, Begin, faults
<1>2. /\ call'.pc = "write" /\ call'.target = FreshBlock /\ call'.c.do = "allocate"
      /\ call'.c.id = FreshBlock /\ call'.c.node = NewLeaf
  <2> DEFINE c == [ AllocateCall EXCEPT !.id = FreshBlock ]
  <2>1. c.do = "allocate" /\ c.id = FreshBlock /\ c.node = NewLeaf BY CallParts
  <2>2. call' = At(c, "write", FreshBlock, <<>>) BY <1>1
  <2> HIDE DEF c
  <2> QED BY <2>1, <2>2, AtParts
<1>3. FreshBlock # MetadataFile
  BY TakeFreshBlockTypes DEF Whole, Types, Allotted, MetadataFile
<1>4. Opened' /\ Running' BY <1>2 DEF Opened, Running
<1>5. TookFound' /\ FoundId' = FreshBlock
  BY <1>1, Found DEF TookFound, FoundId, FreshBlock, TakeFreshBlock
<1>6. Progress'
  BY <1>1, <1>2, <1>3, <1>5, Found DEF Progress, WritesProgress
<1>7. InStep' BY <1>2, <1>6 DEF InStep, Blankness, Returned
<1> QED BY <1>1, <1>4, <1>7, BeginShowsNothing

(* Blocks begin to be freed.                                               *)
LEMMA BeginFreeing ==
  ASSUME Whole, call.pc = "idle", BeforeNext, UNCHANGED <<files, nextId, freeList, errors>>,
         NEW c \in FileCalls, c.do \in {"free", "free_all"}, c.ids # <<>>,
         c.do = "free" => c.ids = <<c.id>> /\ c.id \in DOMAIN BlocksOf(files),
         call' = At(c, "remove", NoBlock, c.ids)
  PROVE  InStep' /\ StepOrStutter
<1>1. /\ call'.pc = "remove" /\ call'.c = c /\ call'.rest = c.ids
  BY AtParts
<1>2. c.ids \in Seq(Allotted) BY DEF FileCalls
<1>3. ToSet(Prefix(c.ids, 0)) = {} /\ Suffix(c.ids, 0) = c.ids
  BY <1>2 DEF Prefix, Suffix, ToSet
<1>4. FreedSoFar(0)' BY <1>1, <1>3, Found DEF FreedSoFar, SameAllocator
<1>5. 0 \in 0..Len(c.ids) BY <1>2, LenProperties
<1>6. Progress' BY <1>1, <1>4, <1>5, Found DEF Progress
<1>7. Opened' /\ Running' BY <1>1 DEF Opened, Running
<1>8. InStep' BY <1>1, <1>6 DEF InStep, Blankness, Returned
<1> QED BY <1>7, <1>8, BeginShowsNothing

(* deallocate_block begins, or answers BlockNotFound.                      *)
LEMMA BeginDeallocateInStep ==
  ASSUME Whole, InStep, NEW id \in Ids, BeginDeallocate(id), BeforeNext
  PROVE  InStep' /\ StepOrStutter
<1>1. call.pc = "idle" /\ UNCHANGED <<files, nextId, freeList, errors>>
  BY DEF BeginDeallocate, Begin, faults, allocator
<1>2. CASE id \in DOMAIN files
  <2>1. /\ Deallocate(id) \in FileCalls /\ Deallocate(id).do = "free"
        /\ Deallocate(id).id = id /\ Deallocate(id).ids = <<id>>
    BY CallTypes, CallParts, IdsAllotted
  <2>2. call' = At(Deallocate(id), "remove", NoBlock, Deallocate(id).ids)
    BY <1>2, <2>1 DEF BeginDeallocate
  <2>3. id \in DOMAIN BlocksOf(files) BY <1>2, IdsAllotted DEF BlocksOf
  <2> QED BY <1>1, <2>1, <2>2, <2>3, BeginFreeing
<1>3. CASE id \notin DOMAIN files
  <2>1. call' = Idle BY <1>3 DEF BeginDeallocate
  <2>2. InStep' /\ Opened' BY <2>1, RestingInStep
  <2> QED BY <1>1, <2>2, BeginShowsNothing
<1> QED BY <1>2, <1>3

(* deallocate_blocks begins.                                               *)
LEMMA BeginDeallocateAllInStep ==
  ASSUME Whole, InStep, NEW ids \in FreeLists, BeginDeallocateAll(ids), BeforeNext
  PROVE  InStep' /\ StepOrStutter
<1>1. /\ call.pc = "idle" /\ UNCHANGED <<files, nextId, freeList, errors>>
      /\ call' = At(DeallocateAll(ids), "remove", NoBlock, ids)
  BY DEF BeginDeallocateAll, Begin, faults, allocator
<1>2. ids \in Seq(Allotted) /\ ids # <<>> BY ListsAllotted
<1>3. /\ DeallocateAll(ids) \in FileCalls
      /\ DeallocateAll(ids).do = "free_all" /\ DeallocateAll(ids).ids = ids
  BY <1>2, CallTypes, CallParts
<1> QED BY <1>1, <1>2, <1>3, BeginFreeing

(* A block that is too long is refused with nothing done.                  *)
LEMMA InvalidBlockSizeInStep ==
  ASSUME Whole, InStep, InvalidBlockSize, BeforeNext
  PROVE  InStep' /\ StepOrStutter
<1>1. /\ call.pc = "write" /\ call.c.do = "save" /\ call.target # MetadataFile
      /\ call' = Idle /\ UNCHANGED <<files, nextId, freeList, errors>>
  BY DEF InvalidBlockSize, allocator, faults
<1>2. Running /\ Opened BY <1>1, RunningParts DEF Whole
<1>3. InStep' /\ ~Running' /\ Opened' BY <1>1, RestingInStep
<1>4. SameSeen
  BY <1>1, <1>2, <1>3, SeenIdle, SeenIdleNext
     DEF SameSeen, InStep, Progress, WritesProgress, SameAllocator
<1> QED BY <1>1, <1>2, <1>3, <1>4, Hidden

(* The temporary file is not the storage's.                                *)
LEMMA TemporaryInStep ==
  ASSUME Whole, InStep, BeforeNext, UNCHANGED <<files, nextId, freeList, errors>>,
         call'.c = call.c, call'.target = call.target, call'.rest = call.rest,
         call.pc \in {"write", "sync"}, call'.pc \in {"sync", "rename"}
  PROVE  InStep' /\ StepOrStutter
<1>1. before' = before BY DEF BeforeNext
<1>2. Blankness' /\ Returned' BY DEF InStep, Blankness, Returned, NewAllocator
<1>3. CASE call.c.do = "new"
  <2>1. ~Running /\ ~Running' /\ ~Opened /\ ~Opened' BY <1>3 DEF Running, Opened
  <2>2. SameSeen BY <2>1, SeenIdle, SeenIdleNext DEF SameSeen
  <2>3. Opened' = Opened BY <2>1 DEF Opened
  <2> QED BY <1>2, <2>1, <2>2, <2>3, Hidden DEF InStep
<1>4. CASE call.c.do # "new"
  <2>1. Running /\ Running' BY <1>4 DEF Running, Opened
  <2>2. Progress' BY <1>1, <2>1, ProgressKept DEF InStep
  <2> QED BY <1>1, <1>2, <2>1, <2>2, Within DEF InStep
<1> QED BY <1>3, <1>4

(* The file is written.                                                    *)
LEMMA WriteTempInStep ==
  ASSUME Whole, InStep, WriteTemp, BeforeNext
  PROVE  InStep' /\ StepOrStutter
<1>1. /\ call.pc = "write" /\ call' = [ call EXCEPT !.pc = "sync" ]
      /\ UNCHANGED <<files, nextId, freeList, errors>>
  BY DEF WriteTemp, allocator, faults
<1>2. call \in CallStates BY DEF Whole, Types
<1>3. /\ call'.c = call.c /\ call'.target = call.target /\ call'.rest = call.rest
      /\ call'.pc = "sync"
  BY <1>1, <1>2 DEF CallStates
<1> QED BY <1>1, <1>3, TemporaryInStep

(* The file is synced.                                                     *)
LEMMA SyncTempInStep ==
  ASSUME Whole, InStep, SyncTemp, BeforeNext
  PROVE  InStep' /\ StepOrStutter
<1>1. /\ call.pc = "sync" /\ call' = [ call EXCEPT !.pc = "rename" ]
      /\ UNCHANGED <<files, nextId, freeList, errors>>
  BY DEF SyncTemp, allocator, faults
<1>2. call \in CallStates BY DEF Whole, Types
<1>3. /\ call'.c = call.c /\ call'.target = call.target /\ call'.rest = call.rest
      /\ call'.pc = "rename"
  BY <1>1, <1>2 DEF CallStates
<1> QED BY <1>1, <1>3, TemporaryInStep

(* A block's file takes the place of the old one.                          *)
LEMMA RenameBlockInStep ==
  ASSUME Whole, InStep, RenameTemp, BeforeNext, call.target # MetadataFile
  PROVE  InStep' /\ StepOrStutter
<1>1. /\ call.pc = "rename" /\ before' = before /\ UNCHANGED <<nextId, freeList, errors>>
      /\ call'.c = call.c /\ call'.target = MetadataFile /\ call'.pc = "write"
  BY RenameParts DEF RenameTemp, BeforeNext, faults
<1>2. call.c.do \in {"save", "allocate"} /\ call.target = call.c.id
  BY <1>1 DEF Whole, Stages
<1>3. Running /\ Running' BY <1>1, <1>2 DEF Running, Opened
<1>4. /\ BlocksOf(files') = Written(BlocksOf(files), call.target, call.c.node)
      /\ MetadataIn(files') = MetadataIn(files)
  BY RenamedFiles
<1>5. Progress BY <1>3 DEF InStep
<1>6. Progress'
  <2>1. WritesProgress' BY <1>1, <1>2, <1>4, <1>5 DEF Progress, WritesProgress
  <2> QED BY <1>1, <1>2, <1>4, <1>5, <2>1
          DEF Progress, SameAllocator, TookFound, FoundId
<1>7. Blankness' /\ Returned' BY <1>1, <1>2 DEF Blankness, Returned
<1> QED BY <1>1, <1>3, <1>6, <1>7, Within DEF InStep

(* metadata.bin takes the place of the old one: the call is done.          *)
LEMMA RenameMetadataInStep ==
  ASSUME Whole, InStep, RenameTemp, BeforeNext, call.target = MetadataFile
  PROVE  InStep' /\ StepOrStutter
<1>1. /\ call.pc = "rename" /\ UNCHANGED <<nextId, freeList, errors>>
      /\ call'.c = call.c /\ call'.pc = "return"
  BY RenameParts DEF RenameTemp, faults
<1>2. BlocksOf(files') = BlocksOf(files) /\ MetadataIn(files') = AllocatorMetadata
  BY RenamedFiles
<1>3. InStep'
  BY <1>1, <1>2
     DEF InStep, Blankness, Returned, Running, NewAllocator, AllocatorMetadata
<1>4. ~Running' BY <1>1 DEF Running
<1>5. CASE call.c.do = "new"
  <2>1. ~Running /\ ~Opened /\ ~Opened' BY <1>1, <1>5 DEF Running, Opened
  <2>2. AllocatorMetadata = MetadataIn(files)
    BY <1>1, <1>5 DEF InStep, Blankness, MetadataIn, AllocatorMetadata, NewAllocator, NewMetadata
  <2>3. SameSeen BY <1>1, <1>2, <1>4, <2>1, <2>2, SeenIdle, SeenIdleNext DEF SameSeen
  <2>4. Opened' = Opened BY <2>1 DEF Opened
  <2> QED BY <1>1, <1>3, <2>3, <2>4, Hidden
<1>6. CASE call.c.do # "new"
  <2>1. Running /\ Opened /\ Opened' BY <1>1, <1>6 DEF Running, Opened
  <2>2. Shows BY <1>1, <1>2, <1>4, SeenIdleNext DEF Shows
  <2>3. (Seen.saved)' = AllocatorMetadata BY <1>2, <1>4, SeenIdleNext
  <2>4. Contract!Done(call.c) BY <1>1, <2>1, <2>2, <2>3, SavedDone DEF Whole, InStep
  <2>5. Contract!Call(call.c) BY <1>1, <2>1, <2>4 DEF Contract!Call, Contract!Succeeds
  <2> QED BY <1>3, <2>5 DEF StepOrStutter, ContractStep
<1> QED BY <1>5, <1>6

(* The call has returned.                                                  *)
LEMMA ReturnInStep ==
  ASSUME Whole, InStep, Return, BeforeNext
  PROVE  InStep' /\ StepOrStutter
<1>1. /\ call.pc = "return" /\ call' = Idle
      /\ UNCHANGED <<files, nextId, freeList, errors>>
  BY DEF Return, allocator, faults
<1>2. InStep' /\ ~Running' /\ Opened' BY <1>1, RestingInStep
<1>3. ~Running BY <1>1 DEF Running
<1>4. SameSeen BY <1>1, <1>2, <1>3, SeenIdle, SeenIdleNext DEF SameSeen
<1>5. CASE Opened
  <2>1. Opened' = Opened BY <1>2, <1>5 DEF Opened
  <2> QED BY <1>1, <1>2, <1>4, <2>1, Hidden
<1>6. CASE ~Opened
  <2>1. Seen.saved = AllocatorMetadata BY <1>1, <1>3, SeenIdle DEF InStep, Returned
  <2>2. Contract!Load(Seen.saved)
    BY <1>1, <1>2, <2>1, SeenIdleNext DEF Contract!Load, AllocatorMetadata
  <2>3. Contract!OpenContract
    BY <1>1, <1>2, <1>4, <1>6, <2>2
       DEF Contract!OpenContract, Contract!OpenStorage, Contract!disk, Contract!Succeeds, SameSeen
  <2> QED BY <1>2, <2>3 DEF StepOrStutter, ContractStep
<1> QED BY <1>5, <1>6

(* One more block is among the first n + 1.                                *)
LEMMA OneMore ==
  ASSUME NEW S, NEW s \in Seq(S), NEW n \in 0..Len(s), Suffix(s, n) # <<>>
  PROVE  /\ n + 1 \in 0..Len(s)
         /\ Tail(Suffix(s, n)) = Suffix(s, n + 1)
         /\ ToSet(Prefix(s, n + 1)) = ToSet(Prefix(s, n)) \cup {Head(Suffix(s, n))}
<1>1. Len(s) \in Nat BY LenProperties
<1>2. Suffix(s, n) \in Seq(S) /\ Len(Suffix(s, n)) = Len(s) - n BY SuffixType
<1>3. n < Len(s)
  <2>1. SUFFICES ASSUME n = Len(s) PROVE FALSE BY <1>1
  <2>2. Len(Suffix(s, n)) = 0 BY <1>1, <1>2, <2>1
  <2> QED BY <1>2, <2>2, EmptySeq
<1>4. Prefix(s, n) = [ i \in 1..n |-> s[i] ] /\ Prefix(s, n + 1) = [ i \in 1..(n + 1) |-> s[i] ]
  BY <1>1, <1>3 DEF Prefix
<1>5. Head(Suffix(s, n)) = s[n + 1] /\ Tail(Suffix(s, n)) = Suffix(s, n + 1)
  BY <1>1, <1>3 DEF Suffix
<1>6. ToSet(Prefix(s, n + 1)) = ToSet(Prefix(s, n)) \cup {s[n + 1]}
  <2>1. /\ DOMAIN Prefix(s, n + 1) = 1..(n + 1) /\ DOMAIN Prefix(s, n) = 1..n
        /\ \A i \in 1..(n + 1) : Prefix(s, n + 1)[i] = s[i]
        /\ \A i \in 1..n : Prefix(s, n)[i] = s[i]
    BY <1>4
  <2>2. 1..(n + 1) = 1..n \cup {n + 1} BY <1>1
  <2>3. \A i \in 1..n : i \in 1..(n + 1) BY <1>1
  <2>4. /\ ToSet(Prefix(s, n + 1)) = { s[i] : i \in 1..(n + 1) }
        /\ ToSet(Prefix(s, n)) = { s[i] : i \in 1..n }
    BY <2>1, Zenon DEF ToSet
  <2> QED BY <2>2, <2>4
<1> QED BY <1>1, <1>3, <1>5, <1>6

(* One more block's file is removed.                                       *)
LEMMA RemoveNextInStep ==
  ASSUME Whole, InStep, RemoveNext, BeforeNext
  PROVE  InStep' /\ StepOrStutter
<1>1. /\ call.pc = "remove" /\ call.rest # <<>> /\ before' = before
      /\ call'.pc = "remove" /\ call'.c = call.c /\ call'.rest = Tail(call.rest)
      /\ Head(call.rest) \in Allotted
      /\ UNCHANGED <<nextId, freeList, errors>>
  BY RemoveParts DEF RemoveNext, BeforeNext, faults
<1>2. call.c.do \in {"free", "free_all"} BY <1>1 DEF Whole, Stages
<1>3. Running /\ Running' BY <1>1, <1>2 DEF Running, Opened
<1>4. Progress BY <1>3 DEF InStep
<1>5. PICK n \in 0..Len(call.c.ids) : FreedSoFar(n) BY <1>2, <1>4 DEF Progress
<1>6. call.rest = Suffix(call.c.ids, n) /\ SameAllocator BY <1>1, <1>5 DEF FreedSoFar
<1>7. /\ n + 1 \in 0..Len(call.c.ids)
      /\ Tail(call.rest) = Suffix(call.c.ids, n + 1)
      /\ ToSet(Prefix(call.c.ids, n + 1)) = ToSet(Prefix(call.c.ids, n)) \cup {Head(call.rest)}
  BY <1>1, <1>6, OneMore, CallIn DEF Whole
<1>8. BlocksOf(files') = Without(BlocksOf(files), {Head(call.rest)})
  BY <1>1, RemoveParts DEF BlocksOf, Without
<1>9. FreedSoFar(n + 1)'
  <2>1. BlocksOf(files) = Without(before.blocks, ToSet(Prefix(call.c.ids, n)))
    BY <1>5 DEF FreedSoFar
  <2>2. BlocksOf(files') = Without(before.blocks, ToSet(Prefix(call.c.ids, n + 1)))
    BY <1>7, <1>8, <2>1 DEF Without
  <2> QED BY <1>1, <1>6, <1>7, <2>2 DEF FreedSoFar, SameAllocator
<1>10. MetadataIn(files') = MetadataIn(files)
  <2>1. Head(call.rest) # MetadataFile BY <1>1 DEF Allotted, MetadataFile
  <2> QED BY <2>1, RemoveParts DEF MetadataIn
<1>11. Progress' BY <1>1, <1>2, <1>4, <1>7, <1>9, <1>10 DEF Progress
<1>12. Blankness' /\ Returned' BY <1>1, <1>2 DEF Blankness, Returned
<1> QED BY <1>1, <1>3, <1>11, <1>12, Within DEF InStep

(* The blocks come on the free list.                                       *)
LEMMA PushRemovedInStep ==
  ASSUME Whole, InStep, PushRemoved, BeforeNext
  PROVE  InStep' /\ StepOrStutter
<1>1. /\ call.pc = "remove" /\ call.rest = <<>> /\ before' = before
      /\ call' = At(call.c, "write", MetadataFile, <<>>)
      /\ UNCHANGED <<files, nextId, errors>> /\ freeList' = freeList \o call.c.ids
  BY DEF PushRemoved, PushAll, BeforeNext, faults
<1>2. call'.pc = "write" /\ call'.c = call.c BY <1>1, AtParts
<1>3. call.c.do \in {"free", "free_all"} BY <1>1 DEF Whole, Stages
<1>4. Running /\ Running' BY <1>1, <1>2, <1>3 DEF Running, Opened
<1>5. Progress BY <1>4 DEF InStep
<1>6. PICK n \in 0..Len(call.c.ids) : FreedSoFar(n) BY <1>3, <1>5 DEF Progress
<1>7. n = Len(call.c.ids)
  <2>1. call.c.ids \in Seq(Allotted) BY CallIn DEF Whole
  <2>2. Len(call.c.ids) \in Nat BY <2>1, LenProperties
  <2>3. Len(Suffix(call.c.ids, n)) = Len(call.c.ids) - n BY <2>1, SuffixType
  <2>4. Len(Suffix(call.c.ids, n)) = 0 BY <1>1, <1>6, EmptySeq DEF FreedSoFar
  <2> QED BY <2>2, <2>3, <2>4
<1>8. FreedSoFar(n)'
  BY <1>1, <1>2, <1>6, <1>7 DEF FreedSoFar, SameAllocator
<1>9. Progress' BY <1>1, <1>2, <1>3, <1>5, <1>8 DEF Progress
<1>10. Blankness' /\ Returned' BY <1>2, <1>3 DEF Blankness, Returned
<1> QED BY <1>1, <1>4, <1>9, <1>10, Within DEF InStep

(* A call that fails has done nothing, or what the contract allows.        *)
LEMMA IOErrorInStep ==
  ASSUME Whole, InStep, IOError, BeforeNext
  PROVE  InStep' /\ StepOrStutter
<1>1. /\ errors' = errors + 1 /\ UNCHANGED <<files, nextId, freeList>>
      /\ call' = IF call.c.do = "new" THEN Closed ELSE Idle
      /\ call.pc \in {"write", "sync", "rename", "remove"}
      /\ call.pc = "remove" => call.rest # <<>>
  BY DEF IOError, allocator
<1>2. CASE call.c.do = "new"
  <2>1. NewAllocator' BY <1>1, <1>2 DEF InStep, Blankness, NewAllocator
  <2>2. InStep' /\ ~Running' /\ ~Opened' BY <1>1, <1>2, <2>1, RestingInStep, AtParts
  <2>3. ~Running /\ ~Opened BY <1>2 DEF Running, Opened
  <2>4. Contract!FailsToOpen
    BY <1>1, <2>2, <2>3, SeenIdle, SeenIdleNext
       DEF Contract!FailsToOpen, Contract!disk, Contract!Fails
  <2> QED BY <2>2, <2>4 DEF StepOrStutter, ContractStep
<1>3. CASE call.c.do # "new"
  <2>1. InStep' /\ ~Running' /\ Opened' BY <1>1, <1>3, RestingInStep
  <2>2. Running /\ Opened BY <1>1, <1>3 DEF Running, Opened
  <2>3. Shows BY <1>1, <2>1, SeenIdleNext DEF Shows
  <2>4. (Seen.saved)' = Seen.saved
    BY <1>1, <2>1, <2>2, SeenIdle, SeenIdleNext DEF InStep, Progress
  <2>5. Contract!Broken(call.c) BY <1>1, <2>2, <2>3, <2>4, ErrorBroken DEF Whole, InStep
  <2>6. Contract!Call(call.c) BY <1>1, <2>1, <2>2, <2>5 DEF Contract!Call, Contract!Fails
  <2> QED BY <2>1, <2>6 DEF StepOrStutter, ContractStep
<1> QED BY <1>2, <1>3

(* A process that dies leaves what its call had done on disk.              *)
LEMMA CrashInStep ==
  ASSUME Whole, InStep, Crash, BeforeNext
  PROVE  InStep' /\ StepOrStutter
<1>1. /\ call' = Closed /\ ForgetAllocator /\ UNCHANGED <<files, errors>>
      /\ call.pc \notin {"closed", "idle"}
  BY DEF Crash, Die
<1>2. NewAllocator' BY <1>1 DEF ForgetAllocator, NewAllocator
<1>3. InStep' /\ ~Running' /\ ~Opened' BY <1>1, <1>2, RestingInStep, AtParts
<1>4. CASE Running
  <2>1. Opened BY <1>4 DEF Running
  <2>2. (Seen.blocks)' = BlocksOf(files) /\ (Seen.saved)' = Seen.saved
    BY <1>1, <1>3, <1>4, SeenIdle, SeenIdleNext DEF InStep, Progress
  <2>3. Contract!HalfDone(call.c) \/ (Seen.blocks)' = Seen.blocks
    BY <1>4, <2>2, DeathHalfDone DEF Whole, InStep
  <2>4. Contract!Dies(call.c) \/ Contract!CloseContract
    BY <1>1, <1>3, <2>1, <2>2, <2>3
       DEF Contract!Dies, Contract!CloseContract, Contract!disk, Contract!Succeeds
  <2> QED BY <1>3, <2>4 DEF StepOrStutter, ContractStep
<1>5. CASE ~Running /\ Opened
  <2>1. Contract!CloseContract
    BY <1>1, <1>3, <1>5, SeenIdle, SeenIdleNext
       DEF Contract!CloseContract, Contract!disk, Contract!Succeeds
  <2> QED BY <1>3, <2>1 DEF StepOrStutter, ContractStep
<1>6. CASE ~Opened
  <2>1. ~Running BY <1>6 DEF Running
  <2>2. NewAllocator BY <1>1, <1>6 DEF Opened, InStep, Blankness
  <2>3. SameSeen
    BY <1>1, <1>2, <1>3, <2>1, <2>2, SeenIdle, SeenIdleNext DEF SameSeen, NewAllocator
  <2>4. Opened' = Opened BY <1>3, <1>6 DEF Opened
  <2> QED BY <1>1, <1>3, <2>3, <2>4, Hidden
<1> QED BY <1>4, <1>5, <1>6

-----------------------------------------------------------------------------
(* Together.                                                               *)

(* What comes back after the machine died is a closed storage.             *)
LEMMA OutageInStep ==
  ASSUME Outage, outages \in Nat
  PROVE  InStep' /\ outages' # outages
<1>1. call' = Closed /\ ForgetAllocator BY DEF Outage, Die
<1>2. NewAllocator' BY <1>1 DEF ForgetAllocator, NewAllocator
<1> QED BY <1>1, <1>2, RestingInStep DEF Outage

(* An empty directory is in step.                                          *)
LEMMA InitInStep == ASSUME RefInit PROVE InStep /\ Contract!ContractInit
<1>1. /\ files = [ f \in {} |-> NoTemp ] /\ NewAllocator /\ call = Closed /\ errors = 0
  BY DEF RefInit, Init
<1>2. call.pc = "closed" /\ ~Running /\ ~Opened BY <1>1, AtParts DEF Running, Opened
<1>3. MetadataFile \notin DOMAIN files BY <1>1
<1>4. InStep BY <1>1, <1>2, <1>3 DEF InStep, Blankness, Returned
<1>5. BlocksOf(files) = [ b \in {} |-> Contract!NewLeaf ] BY <1>1 DEF BlocksOf
<1>6. Contract!ContractInit
  BY <1>1, <1>2, <1>3, <1>5, SeenIdle
     DEF Contract!ContractInit, Contract!StorageInit, Contract!NewAllocator, Contract!NewMetadata,
         NewAllocator, NewMetadata, MetadataIn
<1> QED BY <1>4, <1>6

(* The call that the contract makes of a step, if it makes one.            *)
LEMMA NextInStep ==
  ASSUME Whole, InStep, outages \in Nat, RefNext
  PROVE  /\ InStep' /\ outages' \in Nat
         /\ [outages' = outages => ContractStep]_(Contract!contractvars)
<1>1. CASE Outage BY <1>1, OutageInStep DEF Outage
<1>2. CASE ~Outage
  <2>1. UNCHANGED outages
    BY <1>2 DEF RefNext, Next, Client, Step, Open, Close, BeginWrite, BeginAllocate,
       BeginDeallocate, BeginDeallocateAll, BeginSync, Begin, InvalidBlockSize, WriteTemp,
       SyncTemp, RenameTemp, RemoveNext, PushRemoved, Return, IOError, Crash, faults
  <2>2. InStep' /\ StepOrStutter
    <3>1. CASE Open \/ Close BY <3>1, OpenInStep, CloseInStep DEF RefNext
    <3>2. CASE Client
      BY <3>2, BeginWriteInStep, BeginAllocateInStep, BeginDeallocateInStep,
         BeginDeallocateAllInStep, BeginSyncInStep DEF Client, RefNext
    <3>3. CASE Step
      BY <3>3, InvalidBlockSizeInStep, WriteTempInStep, SyncTempInStep, RenameBlockInStep,
         RenameMetadataInStep, RemoveNextInStep, PushRemovedInStep, ReturnInStep DEF Step, RefNext
    <3>4. CASE IOError \/ Crash BY <3>4, IOErrorInStep, CrashInStep DEF RefNext
    <3> QED BY <1>2, <3>1, <3>2, <3>3, <3>4 DEF RefNext, Next
  <2> QED BY <2>1, <2>2 DEF StepOrStutter
<1> QED BY <1>1, <1>2

(* A step that changes nothing shows nothing.                              *)
LEMMA StutterInStep ==
  ASSUME InStep, UNCHANGED <<vars, before>>
  PROVE  InStep' /\ UNCHANGED Contract!contractvars
<1>1. UNCHANGED <<files, nextId, freeList, call, errors, before>> BY DEF vars
<1>2. \A n : FreedSoFar(n) => FreedSoFar(n)' BY <1>1 DEF FreedSoFar, SameAllocator
<1>3. Progress => Progress'
  BY <1>1, <1>2 DEF Progress, WritesProgress, SameAllocator, TookFound, FoundId
<1>4. (Running' <=> Running) /\ Opened' = Opened BY <1>1 DEF Running, Opened
<1>5. InStep'
  BY <1>1, <1>3, <1>4 DEF InStep, Blankness, Returned, NewAllocator, AllocatorMetadata
<1>6. SameSeen BY <1>1, <1>4, SeenIdle, SeenIdleNext DEF SameSeen
<1> QED BY <1>1, <1>4, <1>5, <1>6 DEF SameSeen, Contract!contractvars, Contract!storage

(* Whatever I/O errors there are and wherever the process dies: a call of  *)
(* the storage that returns Ok has changed the blocks, metadata.bin and    *)
(* the allocator as BPTree assumes, and one that returns an error or dies  *)
(* has changed nothing, or the blocks and not yet metadata.bin.            *)
THEOREM FilesImplementContract == RefSpec => ImplementsContract
<1> DEFINE I == Whole /\ InStep /\ outages \in Nat
           T == [outages' = outages => ContractStep]_(Contract!contractvars)
<1>1. RefInit => I /\ Contract!ContractInit
  BY InitWhole, InitInStep DEF RefInit, Init
<1>2. I /\ [RefNext]_refvars => I' /\ T
  <2> SUFFICES ASSUME I, [RefNext]_refvars PROVE I' /\ T OBVIOUS
  <2>1. CASE RefNext BY <2>1, NextInStep, NextWhole DEF RefNext
  <2>2. CASE UNCHANGED refvars
    <3>1. InStep' /\ UNCHANGED Contract!contractvars BY <2>2, StutterInStep DEF refvars
    <3>2. Whole' BY <2>2, NextWhole DEF refvars
    <3>3. outages' = outages BY <2>2 DEF refvars, vars
    <3> QED BY <3>1, <3>2, <3>3
  <2> QED BY <2>1, <2>2
<1>3. ImplementsContract <=>
        /\ Contract!ContractInit
        /\ [][outages' = outages => ContractStep]_(Contract!contractvars)
  BY DEF ImplementsContract
<1> HIDE DEF I
<1> QED BY <1>1, <1>2, <1>3, PTL DEF RefSpec
=============================================================================
