------------------------------ MODULE BPTreeProofs ------------------------------
(***************************************************************************)
(* Theorems about the tree of BPTree, for every set of keys and values,    *)
(* every capacity of the nodes and any number of errors and crashes.       *)
(***************************************************************************)
EXTENDS BPTreeProperties, UniversalNodeProofs

(* The storage, as the tree uses it.                                       *)
Contract ==
  INSTANCE StorageContract WITH opened <- call.pc # "closed", failures <- errors

(* The inductive invariant: types, nothing is pending without a call, and  *)
(* the root's block exists from the end of opening on.                     *)
NothingPending == call.pc \in {"closed", "idle"} => todo = <<>>

RootStored ==
  /\ call.pc \notin {"closed", "opening"} => ROOT_ID \in DOMAIN blocks
  /\ call.pc = "opening" =>
       ROOT_ID \in DOMAIN blocks \/ todo = << Save(ROOT_ID, NewLeaf) >>

(* "S" says how well the parts of the nodes match.                         *)
InvIn(S) == TypeIn(S) /\ NothingPending /\ RootStored

(* Of a tree in which nothing has failed they match exactly.               *)
StorageTypeOK  == StorageTypeIn(WellShaped)
StorageCalls   == StorageCallsIn(WellShaped)
Frames         == FramesIn(WellShaped)
Calls          == CallsIn(WellShaped)
CallTypeOK(c)  == CallTypeIn(c, WellShaped)

IInv == InvIn(WellShaped)

-----------------------------------------------------------------------------
(* Types of the parts.                                                     *)

(* The metadata of an empty tree is metadata.                              *)
LEMMA EmptyTreeType == EmptyTree \in Metadata
BY CountWidthAssumption DEF EmptyTree, Metadata

(* No call is running in it.                                               *)
LEMMA BlankPcs == Blank.pc = "idle" /\ Closed.pc = "closed"
BY DEF Blank, Closed

(* A handle without a call is of the right type, whichever way it came to  *)
(* have none.                                                              *)
LEMMA BlankTypeIn ==
  ASSUME NEW S, Shapes(S)
  PROVE  /\ Blank \in CallsIn(S) /\ CallTypeIn(Blank, S) /\ Blank.pc = "idle"
         /\ Closed \in CallsIn(S) /\ CallTypeIn(Closed, S) /\ Closed.pc = "closed"
<1>1. /\ <<>> \in Seq(FramesIn(S)) /\ NoBlock \in OptionBlockId
      /\ NoRequest \in Request \cup {NoRequest}
  BY DEF NoBlock, OptionBlockId
<1>2. Blank \in CallsIn(S) /\ Blank.pc = "idle"
  BY <1>1, EmptyTreeType DEF Blank, CallsIn
<1>3. Closed \in CallsIn(S) /\ Closed.pc = "closed"
  BY <1>2 DEF Closed, CallsIn
<1> QED BY <1>2, <1>3 DEF CallTypeIn

(* A call that has its answer needs only the right kind of answer.         *)
LEMMA AnswerType ==
  ASSUME NEW S, Shapes(S), call \in CallsIn(S), NEW a \in Val \cup {None} \cup Entries
  PROVE  CallTypeIn(Answer(a), S) /\ Answer(a).pc = "return"
<1>1. <<>> \in Seq(FramesIn(S)) /\ NoBlock \in OptionBlockId BY DEF NoBlock, OptionBlockId
<1>2. Answer(a) \in CallsIn(S) /\ Answer(a).pc = "return"
  BY <1>1 DEF Answer, CallsIn
<1> QED BY <1>2 DEF CallTypeIn

(* A save of a well-shaped node and a free of a block a tree may be handed *)
(* are storage calls.                                                      *)
LEMMA StorageCallTypes ==
  ASSUME NEW S, Shapes(S)
  PROVE  /\ \A id \in BlockId : \A n \in S : Save(id, n) \in StorageCallsIn(S)
         /\ \A id \in Allotted : Free(id) \in StorageCallsIn(S)
BY NewLeafIn DEF Save, Free, StorageCallsIn, BlockId, Allotted

(* allocate_block hands out neither block 0 nor the root's.                *)
LEMMA FreshBlockTypeIn ==
  ASSUME NEW S, Shapes(S), StorageTypeIn(S)
  PROVE  FreshBlock \in Allotted /\ Allocate \in StorageCallsIn(S)
<1>1. freeList \in Seq(Allotted) /\ nextId \in Allotted BY DEF StorageTypeIn
<1>2. FreshBlock \in Allotted BY <1>1, FrontType DEF FreshBlock
<1> QED BY <1>2, NewLeafIn DEF Allocate, StorageCallsIn, BlockId, Allotted

(* Block 1 is a block, and not one a tree may be handed.                   *)
LEMMA RootIdType == ROOT_ID \in BlockId /\ ROOT_ID \notin Allotted
BY DEF ROOT_ID, BlockId, Allotted

(* save_metadata writes a well-shaped node: the root, or zeros.            *)
LEMMA SaveMetadataType ==
  ASSUME NEW S, Shapes(S), StorageTypeIn(S), ROOT_ID \in DOMAIN blocks, NEW meta
  PROVE  SaveMetadata(meta) \in StorageCallsIn(S)
BY StorageCallTypes, RootIdType, NewLeafIn DEF SaveMetadata, StorageTypeIn

-----------------------------------------------------------------------------
(* What the storage calls do, whole and cut short.                         *)

(* write_block_file keeps every block well shaped, and loses none.         *)
LEMMA WriteFileType ==
  ASSUME NEW S, Shapes(S), StorageTypeIn(S), NEW id \in BlockId, NEW n \in S, WriteFile(id, n)
  PROVE  /\ DOMAIN blocks' = DOMAIN blocks \cup {id}
         /\ DOMAIN blocks' \subseteq BlockId
         /\ \A b \in DOMAIN blocks' : blocks'[b] \in S
BY DEF StorageTypeIn, WriteFile

(* Removing a block's file keeps the others as they were.                  *)
LEMMA RemoveFileType ==
  ASSUME NEW S, Shapes(S), StorageTypeIn(S), NEW id \in Allotted, RemoveFile(id)
  PROVE  /\ DOMAIN blocks' = DOMAIN blocks \ {id}
         /\ DOMAIN blocks' \subseteq BlockId
         /\ \A b \in DOMAIN blocks' : blocks'[b] \in S
BY DEF StorageTypeIn, RemoveFile, RemoveFiles

(* allocate_block changes the allocator to a state without blocks 0 and 1. *)
LEMMA TakeFreshBlockType ==
  ASSUME NEW S, Shapes(S), StorageTypeIn(S), TakeFreshBlock
  PROVE  nextId' \in Allotted /\ freeList' \in Seq(Allotted)
<1>1. freeList \in Seq(Allotted) /\ nextId \in Allotted BY DEF StorageTypeIn
<1>2. nextId + 1 \in Allotted BY <1>1 DEF Allotted
<1>3. Front(freeList) \in Seq(Allotted) BY <1>1, FrontType
<1> QED BY <1>1, <1>2, <1>3 DEF TakeFreshBlock

(* deallocate_block puts on the free list only blocks a tree may be        *)
(* handed.                                                                 *)
LEMMA PushFreeType ==
  ASSUME NEW S, Shapes(S), StorageTypeIn(S), NEW id \in Allotted, PushFree(id)
  PROVE  nextId' \in Allotted /\ freeList' \in Seq(Allotted)
BY DEF StorageTypeIn, PushFree

(* A storage call of the tree names a block and a well-shaped node, and    *)
(* frees only blocks a tree may be handed.                                 *)
LEMMA StorageCallPartsIn ==
  ASSUME NEW S, Shapes(S), NEW c \in StorageCallsIn(S)
  PROVE  /\ c.id \in BlockId /\ c.node \in S
         /\ c.do \in {"save", "free", "allocate"}
         /\ c.do = "free" => c.id \in Allotted
BY DEF StorageCallsIn

(* The header that a storage call leaves is metadata.                      *)
LEMMA WriteHeaderType ==
  ASSUME header \in Metadata, tree \in Metadata, NEW c, WriteHeader(c)
  PROVE  header' \in Metadata
BY DEF WriteHeader, SaveHeader

(* A storage call that is cut short after the block's file.                *)
LEMMA HalfDoneType ==
  ASSUME NEW S, Shapes(S), StorageTypeIn(S), NEW c \in StorageCallsIn(S), HalfDone(c)
  PROVE  /\ DOMAIN blocks' \subseteq BlockId
         /\ \A b \in DOMAIN blocks' : blocks'[b] \in S
         /\ saved' = saved
         /\ ROOT_ID \in DOMAIN blocks => ROOT_ID \in DOMAIN blocks'
<1>p. c.id \in BlockId /\ c.node \in S /\ (c.do = "free" => c.id \in Allotted)
  BY StorageCallPartsIn
<1>1. CASE c.do = "save" /\ WriteBlockHalf(c.id, c.node)
  <2>1. WriteFile(c.id, c.node) /\ saved' = saved BY <1>1 DEF WriteBlockHalf
  <2> QED BY <1>p, <2>1, WriteFileType
<1>2. CASE c.do = "free" /\ DeallocateBlockHalf(c.id)
  <2>1. RemoveFile(c.id) /\ saved' = saved BY <1>2 DEF DeallocateBlockHalf
  <2> QED BY <1>p, <1>2, <2>1, RemoveFileType, RootIdType
<1>3. CASE c.do = "allocate" /\ AllocateBlockHalf
  <2>1. FreshBlock \in BlockId BY FreshBlockTypeIn DEF Allotted, BlockId
  <2>2. WriteFile(FreshBlock, NewLeaf) /\ saved' = saved BY <1>3 DEF AllocateBlockHalf
  <2>3. NewLeaf \in S BY NewLeafIn
  <2> QED BY <2>1, <2>2, <2>3, WriteFileType
<1> QED BY <1>1, <1>2, <1>3, StorageCallPartsIn DEF HalfDone

(* A storage call run to its end leaves in metadata.bin what the allocator *)
(* has in memory.                                                          *)
LEMMA DoneSaves ==
  ASSUME NEW c, Done(c)
  PROVE  saved' = AllocatorMetadata'
BY DEF Done, WriteBlock, DeallocateBlock, AllocateBlock, DeallocateBlocks, SyncStorage,
       SaveStorageMetadata

(* It keeps the storage's type and the root's block.                       *)
LEMMA DoneType ==
  ASSUME NEW S, Shapes(S), StorageTypeIn(S), NEW c \in StorageCallsIn(S), Done(c)
  PROVE  /\ StorageTypeIn(S)'
         /\ ROOT_ID \in DOMAIN blocks => ROOT_ID \in DOMAIN blocks'
         /\ c.do = "save" => c.id \in DOMAIN blocks'
<1>1. freeList \in Seq(Allotted) /\ nextId \in Allotted BY DEF StorageTypeIn
<1>2. /\ DOMAIN blocks' \subseteq BlockId
      /\ \A b \in DOMAIN blocks' : blocks'[b] \in S
      /\ ROOT_ID \in DOMAIN blocks => ROOT_ID \in DOMAIN blocks'
      /\ c.do = "save" => c.id \in DOMAIN blocks'
      /\ nextId' \in Allotted /\ freeList' \in Seq(Allotted)
  <2>1. CASE c.do = "save" /\ WriteBlock(c.id, c.node)
    <3>1. /\ c.id \in BlockId /\ c.node \in S /\ WriteFile(c.id, c.node)
          /\ nextId' = nextId /\ freeList' = freeList
      BY <2>1, StorageCallPartsIn DEF WriteBlock, allocator
    <3>2. /\ DOMAIN blocks' = DOMAIN blocks \cup {c.id} /\ DOMAIN blocks' \subseteq BlockId
          /\ \A b \in DOMAIN blocks' : blocks'[b] \in S
      BY <3>1, WriteFileType
    <3> QED BY <1>1, <3>1, <3>2
  <2>2. CASE c.do = "free" /\ DeallocateBlock(c.id)
    <3>1. c.id \in Allotted /\ RemoveFile(c.id) /\ PushFree(c.id)
      BY <2>2, StorageCallPartsIn DEF DeallocateBlock
    <3>2. nextId' \in Allotted /\ freeList' \in Seq(Allotted) BY <3>1, PushFreeType
    <3> QED BY <2>2, <3>1, <3>2, RemoveFileType, RootIdType
  <2>3. CASE c.do = "allocate" /\ AllocateBlock
    <3>1. FreshBlock \in BlockId BY FreshBlockTypeIn DEF Allotted, BlockId
    <3>2. WriteFile(FreshBlock, NewLeaf) /\ TakeFreshBlock BY <2>3 DEF AllocateBlock
    <3>3. NewLeaf \in S BY NewLeafIn
    <3>4. nextId' \in Allotted /\ freeList' \in Seq(Allotted) BY <3>2, TakeFreshBlockType
    <3>5. /\ DOMAIN blocks' = DOMAIN blocks \cup {FreshBlock} /\ DOMAIN blocks' \subseteq BlockId
          /\ \A b \in DOMAIN blocks' : blocks'[b] \in S
      BY <3>1, <3>2, <3>3, WriteFileType
    <3> QED BY <2>3, <3>4, <3>5
  <2> QED BY <2>1, <2>2, <2>3, StorageCallPartsIn DEF Done
<1>3. saved' \in FileMetadata BY <1>2, DoneSaves DEF FileMetadata, AllocatorMetadata
<1> QED BY <1>2, <1>3 DEF StorageTypeIn

(* So does a storage call that returns an error, wherever it stopped.      *)
LEMMA InterruptedType ==
  ASSUME NEW S, Shapes(S), StorageTypeIn(S), header \in Metadata, tree \in Metadata,
         NEW c \in StorageCallsIn(S), Interrupted(c)
  PROVE  /\ StorageTypeIn(S)' /\ header' \in Metadata
         /\ ROOT_ID \in DOMAIN blocks => ROOT_ID \in DOMAIN blocks'
<1>1. CASE NotDone(c) /\ UNCHANGED header
  BY <1>1, TakeFreshBlockType DEF NotDone, StorageTypeIn, disk, allocator
<1>2. CASE HalfBroken(c) /\ WriteHeader(c)
  <2>1. HalfDone(c) BY <1>2 DEF HalfBroken
  <2>2. nextId' \in Allotted /\ freeList' \in Seq(Allotted)
    BY <1>2, StorageCallPartsIn, TakeFreshBlockType, PushFreeType
       DEF HalfBroken, StorageTypeIn, allocator
  <2> QED BY <1>2, <2>1, <2>2, HalfDoneType, WriteHeaderType DEF StorageTypeIn
<1>3. CASE c.do = "save" /\ Perform(c)
  BY <1>3, DoneType, WriteHeaderType DEF Perform
<1> QED BY <1>1, <1>2, <1>3 DEF Interrupted

-----------------------------------------------------------------------------
(* Steps that make no storage call preserve the invariant if what they     *)
(* compute has the right types.                                            *)

(* It is enough to look at the handle, the running call and its plan.      *)
LEMMA HandlerStep ==
  ASSUME NEW S, Shapes(S), InvIn(S), NoStorageCall, tree' \in Metadata, CallTypeIn(call', S),
         todo' \in Seq(StorageCallsIn(S)),
         call'.pc \in {"closed", "idle"} => todo' = <<>>,
         call'.pc # "opening",
         call'.pc = "closed" \/ ROOT_ID \in DOMAIN blocks
  PROVE  InvIn(S)'
<1>1. /\ blocks' = blocks /\ saved' = saved /\ nextId' = nextId /\ freeList' = freeList
      /\ header' = header /\ errors' = errors /\ crashes' = crashes
  BY DEF NoStorageCall
<1>2. TypeIn(S)'
  <2>1. StorageTypeIn(S)' BY <1>1 DEF InvIn, TypeIn, StorageTypeIn
  <2> QED BY <1>1, <2>1 DEF InvIn, TypeIn
<1>3. NothingPending' BY DEF NothingPending
<1>4. RootStored' BY <1>1 DEF RootStored
<1> QED BY <1>2, <1>3, <1>4 DEF InvIn

(* What the invariant says while a call runs.                              *)
LEMMA RunningIn ==
  ASSUME NEW S, Shapes(S), InvIn(S)
  PROVE  /\ StorageTypeIn(S) /\ header \in Metadata /\ tree \in Metadata
         /\ CallTypeIn(call, S) /\ call \in CallsIn(S) /\ todo \in Seq(StorageCallsIn(S))
         /\ call.pc \in {"closed", "opening", "idle", "start", "descend", "scan", "insert_up",
               "delete_up", "reload", "root_underflow", "rollback", "rolled_back",
               "clear", "clear_up", "return"}
         /\ call.req \in Request \cup {NoRequest} /\ call.at \in OptionBlockId
         /\ call.stack \in Seq(FramesIn(S))
         /\ call.split \in [ key : Key, id : Allotted ] \cup {NoSplit}
         /\ call.outcome \in {"NoChange", "KeyRemoved", "Underflow"}
         /\ call.answer \in Val \cup {None} \cup Entries
         /\ call.orig \in Metadata
         /\ call.pc \notin {"closed", "opening"} => ROOT_ID \in DOMAIN blocks
BY DEF InvIn, TypeIn, CallTypeIn, RootStored, CallsIn

(* The node that a search or a clear has come to.                          *)
LEMMA HereIn ==
  ASSUME NEW S, Shapes(S), InvIn(S), NEW pc \in {"descend", "scan", "clear"}, Runs(pc)
  PROVE  /\ call.pc = pc /\ todo = <<>>
         /\ call.at \in DOMAIN blocks /\ call.at \in BlockId
         /\ blocks[call.at] \in S
         /\ ROOT_ID \in DOMAIN blocks
<1>1. call.pc = pc /\ todo = <<>> /\ Loaded \subseteq DOMAIN blocks BY DEF Runs
<1>2. Loaded = {call.at} BY <1>1 DEF Loaded
<1> QED BY <1>1, <1>2, RunningIn DEF StorageTypeIn

(* The top of the path.                                                    *)
LEMMA TopFrameIn ==
  ASSUME NEW S, Shapes(S), InvIn(S), call.stack # <<>>
  PROVE  /\ Last(call.stack) \in FramesIn(S) /\ Front(call.stack) \in Seq(FramesIn(S))
         /\ Last(call.stack).id \in BlockId
         /\ Last(call.stack).node \in S /\ IsInternal(Last(call.stack).node)
         /\ Last(call.stack).idx \in DOMAIN Last(call.stack).node.child_ids
         /\ Last(call.stack).idx \in Nat
<1>1. call.stack \in Seq(FramesIn(S)) BY RunningIn
<1>2. Last(call.stack) \in FramesIn(S) /\ Front(call.stack) \in Seq(FramesIn(S)) BY <1>1, FrontType
<1> QED BY <1>2 DEF FramesIn

(* A node that was loaded, with one of its children, is a frame of the     *)
(* path.                                                                   *)
LEMMA FrameTypeIn ==
  ASSUME NEW S, Shapes(S), NEW id \in BlockId, NEW n \in S, IsInternal(n),
         NEW i \in DOMAIN n.child_ids
  PROVE  Frame(id, n, i) \in FramesIn(S) /\ n.child_ids[i] \in Allotted
<1>1. n.child_ids \in Seq(Allotted) /\ DOMAIN n.child_ids = 1..Len(n.child_ids)
  BY InternalPartsIn, LenProperties
<1>2. i \in Nat /\ n.child_ids[i] \in Allotted BY <1>1, ElementOfSeq
<1> QED BY <1>2 DEF Frame, FramesIn

-----------------------------------------------------------------------------
(* Calls begin and end.                                                    *)

(* Opening finds the root's block, or plans to write it.                   *)
LEMMA OpenStep ==
  ASSUME NEW S, Shapes(S), InvIn(S), Open
  PROVE  InvIn(S)'
<1>1. StorageTypeIn(S)'
  BY RunningIn DEF Open, OpenStorage, Load, disk, StorageTypeIn, FileMetadata
<1>2. /\ blocks' = blocks /\ header' = header /\ errors' = errors /\ crashes' = crashes
      /\ call.pc = "closed" /\ todo = <<>>
  BY DEF Open, OpenStorage, disk, InvIn, NothingPending
<1>3. CASE ROOT_ID \in DOMAIN blocks
  <2>1. tree' = header /\ call' = Blank /\ todo' = <<>> BY <1>2, <1>3 DEF Open
  <2>2. TypeIn(S)' BY <1>1, <1>2, <2>1, BlankTypeIn DEF InvIn, TypeIn
  <2> QED BY <1>2, <1>3, <2>1, <2>2, BlankTypeIn DEF InvIn, NothingPending, RootStored
<1>4. CASE ROOT_ID \notin DOMAIN blocks
  <2>1. /\ tree' = EmptyTree /\ call' = [ Blank EXCEPT !.pc = "opening" ]
        /\ todo' = << Save(ROOT_ID, NewLeaf) >>
    BY <1>4 DEF Open
  <2>2. call' \in CallsIn(S) /\ call'.pc = "opening" BY <2>1, BlankTypeIn DEF CallsIn
  <2>3. CallTypeIn(call', S) BY <2>2 DEF CallTypeIn
  <2>4. todo' \in Seq(StorageCallsIn(S))
    BY <2>1, StorageCallTypes, RootIdType, NewLeafIn
  <2>5. TypeIn(S)' BY <1>1, <1>2, <2>1, <2>3, <2>4, EmptyTreeType DEF InvIn, TypeIn
  <2>6. ROOT_ID' = ROOT_ID /\ Save(ROOT_ID, NewLeaf)' = Save(ROOT_ID, NewLeaf)
    BY DEF ROOT_ID, Save, NewLeaf, NoBlock
  <2> QED BY <2>1, <2>2, <2>5, <2>6 DEF InvIn, NothingPending, RootStored
<1> QED BY <1>3, <1>4

(* The handle is there once the root's block is.                           *)
LEMMA OpenedStep ==
  ASSUME NEW S, Shapes(S), InvIn(S), Opened
  PROVE  InvIn(S)'
<1>1. call.pc = "opening" /\ todo = <<>> BY DEF Opened, Runs
<1>2. ROOT_ID \in DOMAIN blocks BY <1>1 DEF InvIn, RootStored
<1> QED BY <1>1, <1>2, BlankTypeIn, HandlerStep, RunningIn DEF Opened

(* What is in memory when there is no handle.                              *)
LEMMA ForgetTypeIn ==
  ASSUME NEW S, Shapes(S), Forget
  PROVE  /\ call' \in CallsIn(S) /\ CallTypeIn(call', S) /\ call'.pc = "closed" /\ todo' = <<>>
         /\ tree' \in Metadata /\ nextId' \in Allotted /\ freeList' \in Seq(Allotted)
BY BlankTypeIn, EmptyTreeType DEF Forget, ForgetAllocator, Allotted

(* Closing forgets the handle and touches no block.                        *)
LEMMA CloseStep ==
  ASSUME NEW S, Shapes(S), InvIn(S), Close
  PROVE  InvIn(S)'
<1>1. /\ Forget /\ blocks' = blocks /\ saved' = saved /\ header' = header
      /\ errors' = errors /\ crashes' = crashes
  BY DEF Close, disk
<1>2. StorageTypeIn(S)' BY <1>1, ForgetTypeIn, RunningIn DEF StorageTypeIn
<1>3. TypeIn(S)' BY <1>1, <1>2, ForgetTypeIn, EmptySeq DEF InvIn, TypeIn
<1> QED BY <1>1, <1>3, ForgetTypeIn DEF InvIn, NothingPending, RootStored

(* A call begins with no path and no plan.                                 *)
LEMMA InvokeStep ==
  ASSUME NEW S, Shapes(S), NEW r \in Requests, InvIn(S), Invoke(r)
  PROVE  InvIn(S)'
<1>1. /\ call.pc = "idle" /\ todo = <<>> /\ tree' = tree /\ todo' = todo /\ NoStorageCall
      /\ call' = [ Blank EXCEPT !.pc = "start", !.req = r, !.orig = tree,
                                !.answer = IF r.op = "range" THEN <<>> ELSE None ]
  BY DEF Invoke, InvIn, NothingPending
<1>2. r \in Request /\ <<>> \in Entries BY RequestsAssumption DEF Entries
<1>3. /\ call' \in CallsIn(S) /\ call'.pc = "start" /\ call'.req = r
      /\ r.op = "range" => call'.answer \in Entries
  BY <1>1, <1>2, BlankTypeIn, RunningIn DEF CallsIn
<1>4. CallTypeIn(call', S) BY <1>3 DEF CallTypeIn
<1> QED BY <1>1, <1>3, <1>4, HandlerStep, RunningIn

(* A call returns when its plan is done.                                   *)
LEMMA ReturnStep ==
  ASSUME NEW S, Shapes(S), InvIn(S), Return
  PROVE  InvIn(S)'
<1>1. call.pc = "return" /\ todo = <<>> BY DEF Return, Runs
<1> QED BY <1>1, BlankTypeIn, HandlerStep, RunningIn DEF Return

(* A call on a tree that exists begins at block 1.                         *)
LEMMA StartOnTreeStep ==
  ASSUME NEW S, Shapes(S), InvIn(S), StartOnTree
  PROVE  InvIn(S)'
<1>1. /\ call.pc = "start" /\ tree' = tree /\ todo' = todo /\ NoStorageCall
      /\ call' = [ call EXCEPT !.pc = IF call.req.op = "clear" THEN "clear" ELSE "descend",
                               !.at = ROOT_ID ]
  BY DEF StartOnTree, Runs
<1>2. ROOT_ID \in OptionBlockId BY DEF ROOT_ID, OptionBlockId
<1>3. /\ call' \in CallsIn(S) /\ call'.pc \in {"clear", "descend"}
      /\ call'.req = call.req /\ call'.answer = call.answer
  BY <1>1, <1>2, RunningIn DEF CallsIn
<1>4. CallTypeIn(call', S) BY <1>1, <1>3, RunningIn DEF CallTypeIn
<1> QED BY <1>1, <1>3, <1>4, HandlerStep, RunningIn

(* The first upsert plans a root of one key; other calls on an empty tree  *)
(* plan nothing.                                                           *)
LEMMA StartOnEmptyTreeStep ==
  ASSUME NEW S, Shapes(S), InvIn(S), StartOnEmptyTree
  PROVE  InvIn(S)'
<1>1. call.pc = "start" /\ call' = Answer(call.answer) /\ NoStorageCall
  BY DEF StartOnEmptyTree, Runs
<1>2. CallTypeIn(call', S) /\ call'.pc = "return" BY <1>1, AnswerType, RunningIn
<1>3. CASE call.req.op = "upsert"
  <2>1. call.req.key \in Key /\ call.req.val \in Val
    BY <1>3, RunningIn DEF Request, NoRequest
  <2>2. InsertLeaf(NewLeaf, call.req.key, call.req.val) \in S
    BY <2>1, NewLeafIn, InsertLeafIn
  <2>3. /\ tree' = [ root_exists |-> TRUE, entry_count |-> 1 ]
        /\ todo' = << Save(ROOT_ID, InsertLeaf(NewLeaf, call.req.key, call.req.val)) >>
    BY <1>3 DEF StartOnEmptyTree
  <2>4. tree' \in Metadata BY <2>3, CountWidthAssumption DEF Metadata
  <2>5. Save(ROOT_ID, InsertLeaf(NewLeaf, call.req.key, call.req.val)) \in StorageCallsIn(S)
    BY <2>2, StorageCallTypes, RootIdType
  <2>6. todo' \in Seq(StorageCallsIn(S)) BY <2>3, <2>5
  <2> QED BY <1>1, <1>2, <2>4, <2>6, HandlerStep, RunningIn
<1>4. CASE call.req.op # "upsert"
  <2>1. tree' = tree /\ todo' = todo BY <1>4 DEF StartOnEmptyTree
  <2> QED BY <1>1, <1>2, <2>1, HandlerStep, RunningIn
<1> QED BY <1>3, <1>4

-----------------------------------------------------------------------------
(* Searching.                                                              *)

(* The child a descent takes is one of the node's children.                *)
LEMMA ChildPositionTypeIn ==
  ASSUME NEW S, Shapes(S), NEW n \in S, IsInternal(n)
  PROVE  ChildPosition(n) \in DOMAIN n.child_ids
<1>1. /\ Len(n.keys) \in Nat /\ Len(n.child_ids) \in Nat
      /\ Len(n.child_ids) >= Len(n.keys) + 1 /\ DOMAIN n.child_ids = 1..Len(n.child_ids)
  BY LengthsIn
<1>2. \A k : FindKeyIndex(n, k) \in 0..Len(n.keys) BY FindKeyIndexTypeIn
<1> QED BY <1>1, <1>2 DEF ChildPosition

(* A descent moves to a child, which is never the root, and remembers the  *)
(* node.                                                                   *)
LEMMA DescendStep ==
  ASSUME NEW S, Shapes(S), InvIn(S), Descend
  PROVE  InvIn(S)'
<1> DEFINE n == blocks[call.at]
           i == ChildPosition(n)
<1>1. Runs("descend") BY DEF Descend
<1>2. /\ call.pc = "descend" /\ n \in S /\ call.at \in BlockId /\ ROOT_ID \in DOMAIN blocks
      /\ todo = <<>>
  BY <1>1, HereIn
<1>3. /\ IsInternal(n) /\ tree' = tree /\ todo' = todo /\ NoStorageCall
      /\ call' = [ call EXCEPT !.at = n.child_ids[i],
                               !.stack = Append(call.stack, Frame(call.at, n, i)) ]
  BY DEF Descend
<1>4. i \in DOMAIN n.child_ids BY <1>2, <1>3, ChildPositionTypeIn
<1> HIDE DEF n, i
<1>5. Frame(call.at, n, i) \in FramesIn(S) /\ n.child_ids[i] \in OptionBlockId
  BY <1>2, <1>3, <1>4, FrameTypeIn DEF Allotted, OptionBlockId
<1>6. Append(call.stack, Frame(call.at, n, i)) \in Seq(FramesIn(S)) BY <1>5, RunningIn
<1>7. /\ call' \in CallsIn(S) /\ call'.pc = "descend"
      /\ call'.req = call.req /\ call'.answer = call.answer
  BY <1>2, <1>3, <1>5, <1>6, RunningIn DEF CallsIn
<1>8. CallTypeIn(call', S) BY <1>2, <1>7, RunningIn DEF CallTypeIn
<1> QED BY <1>2, <1>3, <1>7, <1>8, HandlerStep, RunningIn

(* The leaf a call has come to is a well-shaped leaf.                      *)
LEMMA AtLeafType ==
  ASSUME NEW S, Shapes(S), InvIn(S), NEW ops, AtLeaf(ops)
  PROVE  /\ call.pc = "descend" /\ todo = <<>>
         /\ call.at \in BlockId /\ call.at \in DOMAIN blocks
         /\ blocks[call.at] \in S /\ IsLeaf(blocks[call.at])
         /\ ROOT_ID \in DOMAIN blocks
         /\ call.req.op \in ops
BY HereIn DEF AtLeaf

(* The request of an operation on a key has the key.                       *)
LEMMA RequestTypeIn ==
  ASSUME NEW S, Shapes(S), InvIn(S)
  PROVE  /\ call.req.op \in {"upsert", "update", "get", "delete", "delete_safe"} =>
              call.req.key \in Key
         /\ call.req.op \in {"upsert", "update"} => call.req.val \in Val
<1>1. call.req \in Request \cup {NoRequest} BY RunningIn
<1> QED BY <1>1 DEF Request, NoRequest

(* get answers a value or None.                                            *)
LEMMA GetFromLeafStep ==
  ASSUME NEW S, Shapes(S), InvIn(S), GetFromLeaf
  PROVE  InvIn(S)'
<1>1. /\ AtLeaf({"get"}) /\ tree' = tree /\ todo' = todo /\ NoStorageCall
      /\ call' = Answer(Get(blocks[call.at], call.req.key))
  BY DEF GetFromLeaf
<1>2. Get(blocks[call.at], call.req.key) \in Val \cup {None}
  BY <1>1, AtLeafType, RequestTypeIn, GetTypeIn
<1>3. CallTypeIn(call', S) /\ call'.pc = "return" BY <1>1, <1>2, AnswerType, RunningIn
<1> QED BY <1>1, <1>3, AtLeafType, HandlerStep, RunningIn

(* The part of a leaf that a scan collects is a sequence of entries.       *)
LEMMA CollectedTypeIn ==
  ASSUME NEW S, Shapes(S), NEW n \in S, IsLeaf(n),
         NEW first \in Nat \ {0}, NEW last \in 0..Len(n.keys)
  PROVE  SubSeq([ i \in 1..Len(n.keys) |-> <<n.keys[i], n.values[i]>> ], first, last) \in Entries
<1> DEFINE found == [ i \in 1..Len(n.keys) |-> <<n.keys[i], n.values[i]>> ]
<1>1. /\ Len(n.keys) \in Nat /\ n.keys \in Seq(Key) /\ n.values \in Seq(Val)
      /\ Len(n.values) \in Nat /\ Len(n.values) >= Len(n.keys)
  BY LeafPartsIn
<1>2. \A i \in 1..Len(n.keys) : n.keys[i] \in Key /\ n.values[i] \in Val
  <2> SUFFICES ASSUME NEW i \in 1..Len(n.keys) PROVE n.keys[i] \in Key /\ n.values[i] \in Val
    OBVIOUS
  <2>1. i \in 1..Len(n.values) BY <1>1
  <2> QED BY <1>1, <2>1, ElementOfSeq
<1>3. \A i \in first..last : i \in 1..Len(n.keys) BY <1>1
<1>4. \A i \in first..last : found[i] \in Key \X Val BY <1>2, <1>3
<1> HIDE DEF found
<1>5. SubSeq(found, first, last) \in Seq(Key \X Val) BY <1>1, <1>4, SubSeqProperties
<1> QED BY <1>5 DEF found, Entries

(* A scan adds entries of a leaf and moves to the next, which is a block   *)
(* or none.                                                                *)
LEMMA ScanLeafStep ==
  ASSUME NEW S, Shapes(S), InvIn(S), ScanLeaf
  PROVE  InvIn(S)'
<1> DEFINE n     == blocks[call.at]
           first == Cardinality({ i \in DOMAIN n.keys : BeforeStart(n.keys[i]) }) + 1
           last  == Cardinality({ i \in DOMAIN n.keys : ~PastEnd(n.keys[i]) })
           part  == SubSeq([ i \in 1..Len(n.keys) |-> <<n.keys[i], n.values[i]>> ], first, last)
<1>1. /\ n \in S /\ IsLeaf(n) /\ ROOT_ID \in DOMAIN blocks /\ todo = <<>>
      /\ call.answer \in Entries
  <2>1. CASE AtLeaf({"range"})
    BY <2>1, AtLeafType, RunningIn DEF CallTypeIn
  <2>2. CASE Runs("scan") /\ IsLeaf(blocks[call.at])
    BY <2>2, HereIn, RunningIn DEF CallTypeIn
  <2> QED BY <2>1, <2>2 DEF ScanLeaf
<1>2. /\ tree' = tree /\ todo' = todo /\ NoStorageCall
      /\ call' = IF last < Len(n.keys) \/ n.next_leaf = NoBlock
                 THEN Answer(call.answer \o part)
                 ELSE [ call EXCEPT !.pc = "scan", !.at = n.next_leaf,
                                    !.stack = <<>>, !.answer = call.answer \o part ]
  BY DEF ScanLeaf
<1>3. Len(n.keys) \in Nat /\ DOMAIN n.keys = 1..Len(n.keys) BY <1>1, LengthsIn
<1>4. first \in Nat \ {0} /\ last \in 0..Len(n.keys)
  <2> DEFINE before == { i \in DOMAIN n.keys : BeforeStart(n.keys[i]) }
             upto   == { i \in DOMAIN n.keys : ~PastEnd(n.keys[i]) }
  <2>1. before \in SUBSET (1..Len(n.keys)) /\ upto \in SUBSET (1..Len(n.keys)) BY <1>3
  <2>2. first = Cardinality(before) + 1 /\ last = Cardinality(upto) OBVIOUS
  <2> HIDE DEF before, upto, first, last, n
  <2>3. Cardinality(before) \in 0..Len(n.keys) /\ Cardinality(upto) \in 0..Len(n.keys)
    BY <1>3, <2>1, CountInside
  <2> QED BY <1>3, <2>2, <2>3
<1> HIDE DEF first, last
<1>5. part \in Entries BY <1>1, <1>4, CollectedTypeIn
<1>6. n.next_leaf \in OptionBlockId
  <2>1. n \in Node BY <1>1, ShapesUsable
  <2> QED BY <2>1 DEF Node
<1> HIDE DEF part, n
<1>7. call.answer \o part \in Entries BY <1>1, <1>5, ConcatType DEF Entries
<1>8. CASE last < Len(n.keys) \/ n.next_leaf = NoBlock
  <2>1. CallTypeIn(call', S) /\ call'.pc = "return" BY <1>2, <1>7, <1>8, AnswerType, RunningIn
  <2> QED BY <1>1, <1>2, <2>1, HandlerStep, RunningIn
<1>9. CASE ~(last < Len(n.keys) \/ n.next_leaf = NoBlock)
  <2>1. <<>> \in Seq(FramesIn(S)) OBVIOUS
  <2>2. call' \in CallsIn(S) /\ call'.pc = "scan" /\ call'.answer = call.answer \o part
    BY <1>2, <1>6, <1>7, <1>9, <2>1, RunningIn DEF CallsIn
  <2>3. CallTypeIn(call', S) BY <1>7, <2>2 DEF CallTypeIn
  <2> QED BY <1>1, <1>2, <2>2, <2>3, HandlerStep, RunningIn
<1> QED BY <1>8, <1>9

-----------------------------------------------------------------------------
(* Inserting.                                                              *)

(* A changed node is saved, or split and its halves saved: what is planned *)
(* is well shaped, and a split has a separator and a right half for the    *)
(* parent.                                                                 *)
LEMMA SaveOrSplitType ==
  ASSUME NEW S, Shapes(S), StorageTypeIn(S), NEW id \in BlockId, NEW n \in S
  PROVE  /\ SaveOrSplit(id, n).split \in [ key : Key, id : Allotted ] \cup {NoSplit}
         /\ SaveOrSplit(id, n).writes \in Seq(StorageCallsIn(S))
<1>1. CASE Len(n.keys) <= MaxKeys
  <2>1. SaveOrSplit(id, n) = [ split |-> NoSplit, writes |-> << Save(id, n) >> ]
    BY <1>1 DEF SaveOrSplit
  <2>2. << Save(id, n) >> \in Seq(StorageCallsIn(S)) BY StorageCallTypes
  <2> QED BY <2>1, <2>2
<1>2. CASE ~(Len(n.keys) <= MaxKeys)
  <2> DEFINE l == LinkToRight(Split(n).left)
             r == Split(n).right
  <2>1. SaveOrSplit(id, n) = [ split  |-> [ key |-> Split(n).key, id |-> FreshBlock ],
                               writes |-> << Allocate, Save(FreshBlock, r), Save(id, l) >> ]
    BY <1>2 DEF SaveOrSplit, SplitWrites
  <2>2. Len(n.keys) > 2
    <3>1. Len(n.keys) \in Nat BY LengthsIn
    <3> QED BY <1>2, <3>1, MaxKeysAssumption
  <2>3. Split(n).key \in Key /\ Split(n).left \in S /\ r \in S
    BY <2>2, SplitIn
  <2>4. FreshBlock \in Allotted /\ FreshBlock \in BlockId /\ Allocate \in StorageCallsIn(S)
    BY FreshBlockTypeIn DEF Allotted, BlockId
  <2>5. l \in S
    <3>1. CASE IsLeaf(Split(n).left)
      <4> SUFFICES ASSUME NEW m, m = l PROVE m \in S OBVIOUS
      <4> DEFINE h == Split(n).left
      <4>1. m = [ h EXCEPT !.next_leaf = FreshBlock ] BY <3>1 DEF LinkToRight
      <4>2. h \in S /\ IsLeaf(h) BY <2>3, <3>1
      <4> HIDE DEF h
      <4>3. /\ m \in Node /\ m.keys = h.keys /\ m.values = h.values
            /\ m.key_count = h.key_count /\ m.child_ids = h.child_ids
            /\ m.node_type = h.node_type
        <5>1. h \in Node BY <4>2, ShapesUsable
        <5> QED BY <2>4, <4>1, <5>1 DEF Node, BlockId, OptionBlockId
      <4>4. /\ h.node_type = "Leaf" /\ h.child_ids = <<>> /\ h.key_count = Len(h.keys)
            /\ Len(h.values) - Len(h.keys) \in Spares(S)
        BY <4>2, LeafPartsIn
      <4> QED BY <4>3, <4>4, LeafIn
    <3>2. CASE ~IsLeaf(Split(n).left) BY <2>3, <3>2 DEF LinkToRight
    <3> QED BY <3>1, <3>2
  <2>6. Save(FreshBlock, r) \in StorageCallsIn(S) /\ Save(id, l) \in StorageCallsIn(S)
    BY <2>3, <2>4, <2>5, StorageCallTypes
  <2> HIDE DEF l, r
  <2>7. << Allocate, Save(FreshBlock, r), Save(id, l) >> \in Seq(StorageCallsIn(S))
    BY <2>4, <2>6
  <2> QED BY <2>1, <2>3, <2>4, <2>7
<1> QED BY <1>1, <1>2

(* An insertion that has planned its saves moves up the path, or stops     *)
(* there.                                                                  *)
LEMMA AfterInsertStep ==
  ASSUME NEW S, Shapes(S), InvIn(S), NoStorageCall, tree' = tree, ROOT_ID \in DOMAIN blocks,
         call.pc = "descend" => Get(blocks[call.at], call.req.key) \in Val \cup {None},
         NEW id \in BlockId, NEW n \in S, NEW path \in Seq(FramesIn(S)),
         AfterInsert(SaveOrSplit(id, n), path)
  PROVE  InvIn(S)'
<1> DEFINE res == SaveOrSplit(id, n)
           ans == IF call.pc = "descend" THEN Get(blocks[call.at], call.req.key)
                                         ELSE call.answer
           stk == IF res.split = NoSplit THEN <<>> ELSE path
<1>1. /\ res.split \in [ key : Key, id : Allotted ] \cup {NoSplit}
      /\ res.writes \in Seq(StorageCallsIn(S))
  BY RunningIn, SaveOrSplitType
<1>2. /\ todo' = res.writes
      /\ call' = [ call EXCEPT !.pc = "insert_up", !.split = res.split, !.stack = stk,
                               !.at = NoBlock, !.answer = ans ]
  BY DEF AfterInsert
<1>3. ans \in Val \cup {None} \cup Entries BY RunningIn
<1>4. /\ NoBlock \in OptionBlockId /\ stk \in Seq(FramesIn(S))
      /\ stk # <<>> => res.split # NoSplit
  BY DEF NoBlock, OptionBlockId
<1> HIDE DEF res, ans, stk
<1>5. /\ call' \in CallsIn(S) /\ call'.pc = "insert_up" /\ call'.stack = stk
      /\ call'.split = res.split
  BY <1>1, <1>2, <1>3, <1>4, RunningIn DEF CallsIn
<1>6. CallTypeIn(call', S) BY <1>4, <1>5 DEF CallTypeIn
<1> QED BY <1>1, <1>2, <1>5, <1>6, HandlerStep, RunningIn

(* update of a key that is not there changes nothing.                      *)
LEMMA UpdateMissingStep ==
  ASSUME NEW S, Shapes(S), InvIn(S), UpdateMissing
  PROVE  InvIn(S)'
<1>1. /\ AtLeaf({"update"}) /\ tree' = tree /\ todo' = todo /\ NoStorageCall
      /\ call' = Answer(None)
  BY DEF UpdateMissing
<1>2. CallTypeIn(call', S) /\ call'.pc = "return" BY <1>1, AnswerType, RunningIn
<1> QED BY <1>1, <1>2, AtLeafType, HandlerStep, RunningIn

(* The leaf is inserted into, and split if it must be.                     *)
LEMMA InsertIntoLeafStep ==
  ASSUME NEW S, Shapes(S), InvIn(S), InsertIntoLeaf
  PROVE  InvIn(S)'
<1> DEFINE n == InsertLeaf(blocks[call.at], call.req.key, call.req.val)
<1>1. /\ AtLeaf({"upsert", "update"}) /\ tree' = tree /\ NoStorageCall
      /\ AfterInsert(SaveOrSplit(call.at, n), call.stack)
  BY DEF InsertIntoLeaf
<1>2. /\ blocks[call.at] \in S /\ IsLeaf(blocks[call.at]) /\ call.at \in BlockId
      /\ ROOT_ID \in DOMAIN blocks /\ call.req.key \in Key /\ call.req.val \in Val
  BY <1>1, AtLeafType, RequestTypeIn
<1>3. n \in S BY <1>2, InsertLeafIn
<1>4. Get(blocks[call.at], call.req.key) \in Val \cup {None} BY <1>2, GetTypeIn
<1> HIDE DEF n
<1> QED BY <1>1, <1>2, <1>3, <1>4, AfterInsertStep, RunningIn

(* A parent takes the separator and the right half of its child, and is    *)
(* split if it must be.                                                    *)
LEMMA InsertIntoParentStep ==
  ASSUME NEW S, Shapes(S), InvIn(S), InsertIntoParent
  PROVE  InvIn(S)'
<1> DEFINE f == Last(call.stack)
           n == InsertInternal(f.node, call.split.key, f.node.child_ids[f.idx], call.split.id)
<1>1. /\ call.pc = "insert_up" /\ call.stack # <<>> /\ tree' = tree /\ NoStorageCall
      /\ AfterInsert(SaveOrSplit(f.id, n), Front(call.stack))
  BY DEF InsertIntoParent, Runs
<1>2. /\ f.node \in S /\ IsInternal(f.node) /\ f.id \in BlockId
      /\ f.idx \in DOMAIN f.node.child_ids /\ Front(call.stack) \in Seq(FramesIn(S))
  BY <1>1, TopFrameIn
<1>3. call.split \in [ key : Key, id : Allotted ]
  BY <1>1, RunningIn DEF CallTypeIn
<1>4. f.node.child_ids[f.idx] \in Allotted BY <1>2, FrameTypeIn
<1>5. n \in S BY <1>2, <1>3, <1>4, InsertInternalIn
<1> HIDE DEF n, f
<1> QED BY <1>1, <1>2, <1>5, AfterInsertStep, RunningIn

(* The count stays in its width when it is changed by one.                 *)
LEMMA CountType ==
  ASSUME NEW c \in 0..(CountWidth - 1)
  PROVE  /\ (c + 1) % CountWidth \in 0..(CountWidth - 1)
         /\ (c - 1) % CountWidth \in 0..(CountWidth - 1)
<1>1. \A x \in Int, w \in Nat \ {0} : x % w \in 0..(w - 1) OBVIOUS
<1>2. c + 1 \in Int /\ c - 1 \in Int /\ CountWidth \in Nat \ {0} BY CountWidthAssumption
<1> QED BY <1>1, <1>2

(* At the top the metadata is saved, or a new root of one key and two      *)
(* children.                                                               *)
LEMMA FinishInsertStep ==
  ASSUME NEW S, Shapes(S), InvIn(S), FinishInsert
  PROVE  InvIn(S)'
<1>1. /\ call.pc = "insert_up" /\ NoStorageCall /\ call' = Answer(call.answer)
      /\ ROOT_ID \in DOMAIN blocks
  BY RunningIn DEF FinishInsert, Runs
<1>2. CallTypeIn(call', S) /\ call'.pc = "return" BY <1>1, AnswerType, RunningIn
<1>3. tree' \in Metadata
  <2>1. tree.entry_count \in 0..(CountWidth - 1) BY RunningIn DEF Metadata
  <2>2. (tree.entry_count + 1) % CountWidth \in 0..(CountWidth - 1) BY <2>1, CountType
  <2>3. tree' = [ tree EXCEPT !.entry_count = (tree.entry_count + 1) % CountWidth ]
        \/ tree' = tree
    BY DEF FinishInsert
  <2> QED BY <2>2, <2>3, RunningIn DEF Metadata
<1>4. todo' \in Seq(StorageCallsIn(S))
  <2>1. CASE call.split = NoSplit
    BY <1>1, <2>1, SaveMetadataType, RunningIn DEF FinishInsert
  <2>2. CASE call.split # NoSplit
    <3> DEFINE n == InsertInternal(NewInternal, call.split.key, FreshBlock, call.split.id)
    <3>1. call.split \in [ key : Key, id : Allotted ] BY <2>2, RunningIn
    <3>2. FreshBlock \in Allotted /\ FreshBlock \in BlockId /\ Allocate \in StorageCallsIn(S)
      BY FreshBlockTypeIn, RunningIn DEF Allotted, BlockId
    <3>3. n \in S BY <3>1, <3>2, NewRootIn
    <3>4. blocks[ROOT_ID] \in S BY <1>1, RunningIn DEF StorageTypeIn
    <3>5. todo' = << Allocate, Save(FreshBlock, blocks[ROOT_ID]), Save(ROOT_ID, n) >>
      BY <2>2 DEF FinishInsert
    <3> HIDE DEF n
    <3>6. /\ Save(FreshBlock, blocks[ROOT_ID]) \in StorageCallsIn(S)
          /\ Save(ROOT_ID, n) \in StorageCallsIn(S)
      BY <3>2, <3>3, <3>4, StorageCallTypes, RootIdType
    <3> QED BY <3>2, <3>5, <3>6
  <2> QED BY <2>1, <2>2
<1> QED BY <1>1, <1>2, <1>3, <1>4, HandlerStep, RunningIn

-----------------------------------------------------------------------------
(* Deleting.                                                               *)

(* The key is removed from the leaf, if it is there.                       *)
LEMMA DeleteFromLeafStep ==
  ASSUME NEW S, Shapes(S), InvIn(S), DeleteFromLeaf
  PROVE  InvIn(S)'
<1> DEFINE k == call.req.key
           n == RemoveLeaf(blocks[call.at], k)
<1>1. AtLeaf({"delete", "delete_safe"}) /\ tree' = tree /\ NoStorageCall
  BY DEF DeleteFromLeaf
<1>2. /\ blocks[call.at] \in S /\ IsLeaf(blocks[call.at]) /\ call.at \in BlockId
      /\ ROOT_ID \in DOMAIN blocks /\ k \in Key
  BY <1>1, AtLeafType, RequestTypeIn
<1>3. NoBlock \in OptionBlockId BY DEF NoBlock, OptionBlockId
<1>4. CASE HasKey(blocks[call.at], k)
  <2> DEFINE out == IF Underflows(call.at, n) THEN "Underflow" ELSE "KeyRemoved"
  <2>1. /\ todo' = << Save(call.at, n) >>
        /\ call' = [ call EXCEPT !.pc = "delete_up", !.at = NoBlock,
                                 !.answer = Get(blocks[call.at], k), !.outcome = out ]
    BY <1>4 DEF DeleteFromLeaf
  <2>2. n \in S BY <1>2, <1>4, RemoveLeafIn
  <2>3. todo' \in Seq(StorageCallsIn(S))
    <3> HIDE DEF n
    <3>1. Save(call.at, n) \in StorageCallsIn(S) BY <1>2, <2>2, StorageCallTypes
    <3> QED BY <2>1, <3>1
  <2>4. Get(blocks[call.at], k) \in Val \cup {None} BY <1>2, GetTypeIn
  <2>5. out \in {"NoChange", "KeyRemoved", "Underflow"} OBVIOUS
  <2> HIDE DEF n, k, out
  <2>6. call' \in CallsIn(S) /\ call'.pc = "delete_up"
    BY <1>3, <2>1, <2>4, <2>5, RunningIn DEF CallsIn
  <2>7. CallTypeIn(call', S) BY <2>6 DEF CallTypeIn
  <2> QED BY <1>1, <1>2, <2>3, <2>6, <2>7, HandlerStep, RunningIn
<1>5. CASE ~HasKey(blocks[call.at], k)
  <2>1. todo' = todo /\ call' = [ call EXCEPT !.pc = "delete_up", !.at = NoBlock ]
    BY <1>5 DEF DeleteFromLeaf
  <2>2. call' \in CallsIn(S) /\ call'.pc = "delete_up"
    BY <1>3, <2>1, RunningIn DEF CallsIn
  <2>3. CallTypeIn(call', S) BY <2>2 DEF CallTypeIn
  <2> QED BY <1>1, <1>2, <2>1, <2>2, <2>3, HandlerStep, RunningIn
<1> QED BY <1>4, <1>5

(* An ancestor saves the node it loaded.                                   *)
LEMMA SaveAncestorStep ==
  ASSUME NEW S, Shapes(S), InvIn(S), SaveAncestor
  PROVE  InvIn(S)'
<1> DEFINE f == Last(call.stack)
<1>1. /\ call.pc = "delete_up" /\ call.stack # <<>> /\ tree' = tree /\ NoStorageCall
      /\ todo' = << Save(f.id, f.node) >>
      /\ call' = [ call EXCEPT !.stack = Front(call.stack) ]
  BY DEF SaveAncestor, Runs
<1>2. f.id \in BlockId /\ f.node \in S /\ Front(call.stack) \in Seq(FramesIn(S))
  BY <1>1, TopFrameIn
<1>3. Save(f.id, f.node) \in StorageCallsIn(S) BY <1>2, StorageCallTypes
<1>4. todo' \in Seq(StorageCallsIn(S)) BY <1>1, <1>3
<1>5. call' \in CallsIn(S) /\ call'.pc = "delete_up" BY <1>1, <1>2, RunningIn DEF CallsIn
<1>6. CallTypeIn(call', S) BY <1>5 DEF CallTypeIn
<1> QED BY <1>1, <1>4, <1>5, <1>6, HandlerStep, RunningIn

(* Two neighbours, at positions i and i+1 of their parent, with a          *)
(* separator between them.                                                 *)
Neighbours(p, i) ==
  /\ IsInternal(p) /\ i \in 1..Len(p.keys)
  /\ p.child_ids[i] \in DOMAIN blocks /\ p.child_ids[i + 1] \in DOMAIN blocks

(* Two neighbouring children of a node are blocks a tree may be handed.    *)
LEMMA NeighboursType ==
  ASSUME NEW S, Shapes(S), StorageTypeIn(S), NEW p \in S, NEW i, Neighbours(p, i)
  PROVE  /\ p.child_ids[i] \in Allotted /\ p.child_ids[i + 1] \in Allotted
         /\ p.child_ids[i] \in BlockId /\ p.child_ids[i + 1] \in BlockId
         /\ blocks[p.child_ids[i]] \in S /\ blocks[p.child_ids[i + 1]] \in S
         /\ p.keys[i] \in Key
<1>1. /\ p.child_ids \in Seq(Allotted) /\ p.keys \in Seq(Key)
      /\ Len(p.child_ids) \in Nat /\ Len(p.child_ids) >= Len(p.keys) + 1 /\ Len(p.keys) \in Nat
  BY InternalPartsIn DEF Neighbours
<1>2. i \in 1..Len(p.keys) /\ i \in 1..Len(p.child_ids) /\ i + 1 \in 1..Len(p.child_ids)
  BY <1>1 DEF Neighbours
<1>3. p.child_ids[i] \in Allotted /\ p.keys[i] \in Key BY <1>1, <1>2, ElementOfSeq
<1> DEFINE j == i + 1
<1>4. j \in 1..Len(p.child_ids) BY <1>2
<1> HIDE DEF j
<1>5. p.child_ids[j] \in Allotted BY <1>1, <1>4, ElementOfSeq
<1> USE DEF j
<1> QED BY <1>3, <1>5 DEF Neighbours, StorageTypeIn, Allotted, BlockId

(* The three nodes that borrowing from the left saves serve their keys, and *)
(* are consistent when the two nodes are of one kind.                      *)
LEMMA BorrowLeftType ==
  ASSUME NEW S, Shapes(S), StorageTypeIn(S), NEW id \in BlockId, NEW p \in S, NEW i \in Nat,
         Neighbours(p, i - 1), blocks[p.child_ids[i - 1]].key_count > 0,
         S = WellShaped =>
           IsLeaf(blocks[p.child_ids[i]]) = IsLeaf(blocks[p.child_ids[i - 1]])
  PROVE  BorrowLeftWrites(id, p, i) \in Seq(StorageCallsIn(S))
<1> DEFINE h     == i - 1
           left  == p.child_ids[h]
           child == p.child_ids[i]
           b     == BorrowFromLeft(blocks[child], blocks[left], p.keys[h])
           q     == [ p EXCEPT !.keys[h] = b.separator ]
<1>1. h + 1 = i OBVIOUS
<1>2. /\ left \in BlockId /\ child \in BlockId
      /\ blocks[left] \in S /\ blocks[child] \in S /\ p.keys[h] \in Key
      /\ IsInternal(p) /\ h \in 1..Len(p.keys)
  BY <1>1, NeighboursType DEF Neighbours
<1>3. BorrowLeftWrites(id, p, i)
        = << Save(left, b.sibling), Save(child, b.node), Save(id, q) >>
  BY DEF BorrowLeftWrites
<1>4. b.separator \in Key /\ b.node \in S /\ b.sibling \in S
  <2>1. /\ b.separator \in Key /\ b.node \in S /\ b.sibling \in Usable
        /\ IsLeaf(blocks[child]) = IsLeaf(blocks[left]) => b.sibling \in S
    BY <1>2, BorrowFromLeftShaped
  <2>2. S = WellShaped \/ S = Usable BY DEF Shapes
  <2> QED BY <2>1, <2>2
<1> HIDE DEF b, h, left, child
<1>5. q \in S BY <1>2, <1>4, SeparatorChangedIn
<1> HIDE DEF q
<1>6. /\ Save(left, b.sibling) \in StorageCallsIn(S)
      /\ Save(child, b.node) \in StorageCallsIn(S)
      /\ Save(id, q) \in StorageCallsIn(S)
  BY <1>2, <1>4, <1>5, StorageCallTypes
<1> QED BY <1>3, <1>6

(* So do the three nodes that borrowing from the right saves.              *)
LEMMA BorrowRightType ==
  ASSUME NEW S, Shapes(S), StorageTypeIn(S), NEW id \in BlockId, NEW p \in S, NEW i \in Nat,
         Neighbours(p, i), blocks[p.child_ids[i + 1]].key_count > 0,
         Lendable(blocks[p.child_ids[i]], blocks[p.child_ids[i + 1]]) # <<>>
  PROVE  BorrowRightWrites(id, p, i) \in Seq(StorageCallsIn(S))
<1> DEFINE right == p.child_ids[i + 1]
           child == p.child_ids[i]
           b     == BorrowFromRight(blocks[child], blocks[right], p.keys[i])
           q     == [ p EXCEPT !.keys[i] = b.separator ]
<1>1. /\ right \in BlockId /\ child \in BlockId
      /\ blocks[right] \in S /\ blocks[child] \in S /\ p.keys[i] \in Key
      /\ IsInternal(p) /\ i \in 1..Len(p.keys)
  BY NeighboursType DEF Neighbours
<1>2. BorrowRightWrites(id, p, i)
        = << Save(right, b.sibling), Save(child, b.node), Save(id, q) >>
  BY DEF BorrowRightWrites
<1>3. b.separator \in Key /\ b.node \in S /\ b.sibling \in S
  BY <1>1, BorrowFromRightShaped
<1> HIDE DEF b, right, child
<1>4. q \in S BY <1>1, <1>3, SeparatorChangedIn
<1> HIDE DEF q
<1>5. /\ Save(right, b.sibling) \in StorageCallsIn(S)
      /\ Save(child, b.node) \in StorageCallsIn(S)
      /\ Save(id, q) \in StorageCallsIn(S)
  BY <1>1, <1>3, <1>4, StorageCallTypes
<1> QED BY <1>2, <1>5

(* So do the two nodes that merging saves, and the block it frees is a     *)
(* child's, so never the root's.                                           *)
LEMMA MergeWritesType ==
  ASSUME NEW S, Shapes(S), StorageTypeIn(S), NEW id \in BlockId, NEW p \in S, NEW i \in Nat,
         Neighbours(p, i),
         IsLeaf(blocks[p.child_ids[i]]) = IsLeaf(blocks[p.child_ids[i + 1]])
  PROVE  MergeWrites(id, p, i) \in Seq(StorageCallsIn(S))
<1> DEFINE left  == p.child_ids[i]
           right == p.child_ids[i + 1]
           m     == Merge(blocks[left], blocks[right], p.keys[i])
           q     == [ p EXCEPT !.keys = RemoveAt(p.keys, i),
                               !.child_ids = RemoveAt(p.child_ids, i + 1),
                               !.key_count = p.key_count - 1 ]
<1>1. /\ left \in BlockId /\ right \in Allotted
      /\ blocks[left] \in S /\ blocks[right] \in S /\ p.keys[i] \in Key
      /\ IsInternal(p) /\ i \in 1..Len(p.keys)
  BY NeighboursType DEF Neighbours
<1>2. MergeWrites(id, p, i) = << Save(left, m), Free(right), Save(id, q) >>
  BY DEF MergeWrites
<1>3. m \in S BY <1>1, MergeIn
<1>4. q \in S BY <1>1, ChildRemovedIn
<1> HIDE DEF m, left, right, q
<1>5. /\ Save(left, m) \in StorageCallsIn(S) /\ Free(right) \in StorageCallsIn(S)
      /\ Save(id, q) \in StorageCallsIn(S)
  BY <1>1, <1>3, <1>4, StorageCallTypes
<1> QED BY <1>2, <1>5

(* The two nodes of a rebalancing are two leaves or two inner nodes: so it *)
(* is until something fails.                                               *)
OneKind(parent, i) ==
  LET sibling == Sibling(parent, Partner(parent, i))
  IN sibling # NoBlock => IsLeaf(blocks[sibling]) = IsLeaf(blocks[parent.child_ids[i]])

Unmixed == Rebalances => OneKind(blocks[Last(call.stack).id], Last(call.stack).idx)

(* An underflowing child and its neighbours, rebalanced without a panic    *)
(* and without an error: the separator is there, and the nodes to merge    *)
(* are of one kind.                                                        *)
LEMMA RebalanceWritesType ==
  ASSUME NEW S, Shapes(S), StorageTypeIn(S), NEW id \in DOMAIN blocks, NEW i \in Nat,
         ~RebalancePanics(blocks[id], i), ~MergesTwoKinds(blocks[id], i),
         S = WellShaped => OneKind(blocks[id], i),
         UnderflowLoads(id, i) \subseteq DOMAIN blocks
  PROVE  RebalanceWrites(id, blocks[id], i) \in Seq(StorageCallsIn(S))
<1> DEFINE p     == blocks[id]
           left  == Sibling(p, i - 1)
           right == Sibling(p, i + 1)
           child == p.child_ids[i]
           mate  == Sibling(p, Partner(p, i))
<1>1. p \in S /\ id \in BlockId BY DEF StorageTypeIn
<1>2. i \in DOMAIN p.child_ids BY DEF RebalancePanics
<1>3. IsInternal(p)
  <2> SUFFICES ASSUME IsLeaf(p) PROVE FALSE BY <1>1, LengthsIn
  <2>1. p.child_ids = <<>> BY <1>1, LengthsIn
  <2> QED BY <1>2, <2>1
<1>4. /\ Len(p.keys) \in Nat /\ DOMAIN p.keys = 1..Len(p.keys)
      /\ p.child_ids \in Seq(Allotted) /\ Len(p.child_ids) \in Nat
      /\ DOMAIN p.child_ids = 1..Len(p.child_ids)
  BY <1>1, <1>3, LengthsIn, InternalPartsIn
<1>5. \A j \in DOMAIN p.child_ids : p.child_ids[j] # NoBlock
  BY <1>4, ElementOfSeq DEF Allotted, NoBlock
<1>6. left # NoBlock => i - 1 \in DOMAIN p.child_ids /\ left = p.child_ids[i - 1]
  BY DEF Sibling
<1>7. right # NoBlock => i + 1 \in DOMAIN p.child_ids /\ right = p.child_ids[i + 1]
  BY DEF Sibling
<1> DEFINE lends == left \in DOMAIN blocks /\ CanLend(left)
<1>8. UnderflowLoads(id, i) = ({child, left} \cup IF lends THEN {} ELSE {right}) \ {NoBlock}
  BY <1>2 DEF UnderflowLoads
<1>9. child \in DOMAIN blocks BY <1>2, <1>5, <1>8
<1>10. left # NoBlock => left \in DOMAIN blocks BY <1>8
<1>11. right # NoBlock /\ ~Lends(left) => right \in DOMAIN blocks
  <2>1. NoBlock \notin DOMAIN blocks BY DEF StorageTypeIn, NoBlock, BlockId
  <2>2. lends => Lends(left) BY <2>1 DEF Lends
  <2> QED BY <1>8, <2>2
<1>12. \A b \in DOMAIN blocks : CanLend(b) => blocks[b].key_count > 0
  <2> SUFFICES ASSUME NEW b \in DOMAIN blocks, CanLend(b) PROVE blocks[b].key_count > 0
    OBVIOUS
  <2>1. MinKeys \in Nat
    <3>1. \A m \in Nat : m >= 2 => ((m + 1) \div 2) - 1 \in Nat OBVIOUS
    <3> QED BY <3>1, MaxKeysAssumption DEF MinKeys
  <2>2. blocks[b] \in S BY DEF StorageTypeIn
  <2>3. blocks[b].key_count \in Nat BY <2>2, LengthsIn
  <2> QED BY <2>1, <2>3 DEF CanLend
<1>13. RebalanceWrites(id, p, i) =
         IF Lends(left) THEN BorrowLeftWrites(id, p, i)
         ELSE IF Lends(right) THEN BorrowRightWrites(id, p, i)
         ELSE IF left # NoBlock THEN MergeWrites(id, p, i - 1)
         ELSE IF right # NoBlock THEN MergeWrites(id, p, i)
         ELSE <<>>
  BY DEF RebalanceWrites
<1>14. Partner(p, i) = IF \/ Lends(left) \/ (left # NoBlock /\ ~Lends(right))
                          \/ right = NoBlock
                       THEN i - 1 ELSE i + 1
  BY DEF Partner
<1>15. /\ mate # NoBlock => SeparatorAt(p, i) \in DOMAIN p.keys
       /\ Lends(mate) /\ Partner(p, i) > i => Lendable(blocks[child], blocks[mate]) # <<>>
       /\ mate # NoBlock /\ ~CanLend(mate) => IsLeaf(blocks[mate]) = IsLeaf(blocks[child])
       /\ S = WellShaped /\ mate # NoBlock => IsLeaf(blocks[mate]) = IsLeaf(blocks[child])
  BY DEF RebalancePanics, MergesTwoKinds, OneKind
<1>16. ASSUME left # NoBlock, Partner(p, i) = i - 1
       PROVE  /\ mate = left /\ Neighbours(p, i - 1) /\ i - 1 \in Nat
              /\ p.child_ids[i - 1] = left /\ p.child_ids[(i - 1) + 1] = child
  <2>1. mate = left BY <1>16
  <2>2. SeparatorAt(p, i) = i - 1 BY <1>16 DEF SeparatorAt
  <2>3. i - 1 \in 1..Len(p.keys) BY <1>4, <1>15, <1>16, <2>1, <2>2
  <2>4. p.child_ids[i - 1] = left /\ p.child_ids[(i - 1) + 1] = child
    <3>1. (i - 1) + 1 = i OBVIOUS
    <3> QED BY <1>6, <1>16, <3>1
  <2>5. left \in DOMAIN blocks BY <1>10, <1>16
  <2>6. Neighbours(p, i - 1) BY <1>3, <1>9, <2>3, <2>4, <2>5 DEF Neighbours
  <2> QED BY <2>1, <2>3, <2>4, <2>6
<1>17. ASSUME right # NoBlock, ~Lends(left), Partner(p, i) = i + 1
       PROVE  mate = right /\ Neighbours(p, i) /\ p.child_ids[i + 1] = right
  <2>1. mate = right BY <1>17
  <2>2. SeparatorAt(p, i) = i BY <1>17 DEF SeparatorAt
  <2>3. i \in 1..Len(p.keys) BY <1>4, <1>15, <1>17, <2>1, <2>2
  <2>4. p.child_ids[i + 1] = right /\ right \in DOMAIN blocks BY <1>7, <1>11, <1>17
  <2> QED BY <1>3, <1>9, <2>1, <2>3, <2>4 DEF Neighbours
<1>18. CASE Lends(left)
  <2>1. left # NoBlock /\ CanLend(left) BY <1>18 DEF Lends
  <2>2. Partner(p, i) = i - 1 BY <1>14, <1>18
  <2>3. /\ mate = left /\ Neighbours(p, i - 1) /\ p.child_ids[i - 1] = left
    BY <1>16, <2>1, <2>2
  <2>4. blocks[p.child_ids[i - 1]].key_count > 0 BY <1>10, <1>12, <2>1, <2>3
  <2>5. S = WellShaped => IsLeaf(blocks[p.child_ids[i]]) = IsLeaf(blocks[p.child_ids[i - 1]])
    BY <1>15, <2>1, <2>3
  <2>6. BorrowLeftWrites(id, p, i) \in Seq(StorageCallsIn(S))
    BY <1>1, <2>3, <2>4, <2>5, BorrowLeftType
  <2> QED BY <1>13, <1>18, <2>6
<1>19. CASE ~Lends(left) /\ Lends(right)
  <2>1. right # NoBlock /\ CanLend(right) BY <1>19 DEF Lends
  <2>2. Partner(p, i) = i + 1 BY <1>14, <1>19, <2>1
  <2>3. mate = right /\ Neighbours(p, i) /\ p.child_ids[i + 1] = right
    BY <1>17, <1>19, <2>1, <2>2
  <2>4. blocks[p.child_ids[i + 1]].key_count > 0 BY <1>11, <1>12, <1>19, <2>1, <2>3
  <2>5. Lendable(blocks[p.child_ids[i]], blocks[p.child_ids[i + 1]]) # <<>>
    <3>1. Partner(p, i) > i BY <2>2
    <3> QED BY <1>15, <1>19, <2>3, <3>1
  <2>6. BorrowRightWrites(id, p, i) \in Seq(StorageCallsIn(S))
    BY <1>1, <2>3, <2>4, <2>5, BorrowRightType
  <2> QED BY <1>13, <1>19, <2>6
<1>20. CASE ~Lends(left) /\ ~Lends(right) /\ left # NoBlock
  <2>1. Partner(p, i) = i - 1 BY <1>14, <1>20
  <2>2. /\ mate = left /\ Neighbours(p, i - 1) /\ i - 1 \in Nat
        /\ p.child_ids[i - 1] = left /\ p.child_ids[(i - 1) + 1] = child
    BY <1>16, <1>20, <2>1
  <2>3. IsLeaf(blocks[p.child_ids[i - 1]]) = IsLeaf(blocks[p.child_ids[(i - 1) + 1]])
    BY <1>15, <1>20, <2>2 DEF Lends
  <2>4. MergeWrites(id, p, i - 1) \in Seq(StorageCallsIn(S))
    BY <1>1, <2>2, <2>3, MergeWritesType
  <2> QED BY <1>13, <1>20, <2>4
<1>21. CASE ~Lends(left) /\ ~Lends(right) /\ left = NoBlock /\ right # NoBlock
  <2>1. Partner(p, i) = i + 1 BY <1>14, <1>21
  <2>2. mate = right /\ Neighbours(p, i) /\ p.child_ids[i + 1] = right
    BY <1>17, <1>21, <2>1
  <2>3. IsLeaf(blocks[p.child_ids[i]]) = IsLeaf(blocks[p.child_ids[i + 1]])
    BY <1>15, <1>21, <2>2 DEF Lends
  <2>4. MergeWrites(id, p, i) \in Seq(StorageCallsIn(S))
    BY <1>1, <2>2, <2>3, MergeWritesType
  <2> QED BY <1>13, <1>21, <2>4
<1>22. CASE ~Lends(left) /\ ~Lends(right) /\ left = NoBlock /\ right = NoBlock
  BY <1>13, <1>22
<1> QED BY <1>18, <1>19, <1>20, <1>21, <1>22

(* HandleChildUnderflow computes writes of nodes that serve their keys; of *)
(* consistent ones, if it finds two nodes of one kind.                     *)
LEMMA HandleChildUnderflowStep ==
  ASSUME NEW S, Shapes(S), InvIn(S), S = WellShaped => Unmixed, HandleChildUnderflow
  PROVE  InvIn(S)'
<1> DEFINE f == Last(call.stack)
<1>1. /\ call.pc = "delete_up" /\ call.stack # <<>> /\ call.outcome = "Underflow"
      /\ Rebalances /\ Loaded \subseteq DOMAIN blocks
      /\ ~RebalancePanics(blocks[f.id], f.idx) /\ ~MergesTwoKinds(blocks[f.id], f.idx)
      /\ todo' = RebalanceWrites(f.id, blocks[f.id], f.idx)
      /\ call' = [ call EXCEPT !.pc = "reload" ]
      /\ tree' = tree /\ NoStorageCall
  BY DEF HandleChildUnderflow, Rebalances, Runs
<1>2. f.id \in BlockId /\ f.idx \in Nat BY <1>1, TopFrameIn
<1>3. UnderflowLoads(f.id, f.idx) \subseteq DOMAIN blocks BY <1>1 DEF Loaded
<1>4. f.id \in DOMAIN blocks
  BY <1>3 DEF UnderflowLoads
<1>5. S = WellShaped => OneKind(blocks[f.id], f.idx) BY <1>1 DEF Unmixed
<1> HIDE DEF f
<1>6. todo' \in Seq(StorageCallsIn(S))
  BY <1>1, <1>2, <1>3, <1>4, <1>5, RebalanceWritesType, RunningIn
<1>7. call' \in CallsIn(S) /\ call'.pc = "reload" BY <1>1, RunningIn DEF CallsIn
<1>8. CallTypeIn(call', S) BY <1>7 DEF CallTypeIn
<1> QED BY <1>1, <1>6, <1>7, <1>8, HandlerStep, RunningIn

(* CheckParent only moves the call up the path.                            *)
LEMMA CheckParentStep ==
  ASSUME NEW S, Shapes(S), InvIn(S), CheckParent
  PROVE  InvIn(S)'
<1> DEFINE f   == Last(call.stack)
           out == IF Underflows(f.id, blocks[f.id]) THEN "Underflow" ELSE "KeyRemoved"
<1>1. /\ call.pc = "reload" /\ todo' = todo /\ tree' = tree /\ NoStorageCall
      /\ call' = [ call EXCEPT !.pc = "delete_up", !.stack = Front(call.stack),
                               !.outcome = out ]
  BY DEF CheckParent, Runs
<1>2. Front(call.stack) \in Seq(FramesIn(S)) BY RunningIn, FrontType
<1>3. out \in {"NoChange", "KeyRemoved", "Underflow"} OBVIOUS
<1> HIDE DEF out
<1>4. call' \in CallsIn(S) /\ call'.pc = "delete_up" BY <1>1, <1>2, <1>3, RunningIn DEF CallsIn
<1>5. CallTypeIn(call', S) BY <1>4 DEF CallTypeIn
<1> QED BY <1>1, <1>4, <1>5, HandlerStep, RunningIn

(* A delete that found nothing answers None.                               *)
LEMMA DeleteNothingStep ==
  ASSUME NEW S, Shapes(S), InvIn(S), DeleteNothing
  PROVE  InvIn(S)'
<1>1. /\ call.pc = "delete_up" /\ todo' = todo /\ tree' = tree /\ NoStorageCall
      /\ call' = Answer(None)
  BY DEF DeleteNothing, Runs
<1>2. CallTypeIn(call', S) /\ call'.pc = "return" BY <1>1, AnswerType, RunningIn
<1> QED BY <1>1, <1>2, HandlerStep, RunningIn

(* The count of entries stays in its width, wrapping around at zero.       *)
LEMMA CountDeletedStep ==
  ASSUME NEW S, Shapes(S), InvIn(S), CountDeleted
  PROVE  InvIn(S)'
<1>1. /\ call.pc = "delete_up" /\ todo' = todo /\ NoStorageCall
      /\ call' = [ call EXCEPT !.pc = "root_underflow" ]
      /\ tree' = [ tree EXCEPT !.entry_count = (tree.entry_count - 1) % CountWidth ]
  BY DEF CountDeleted, Runs
<1>2. tree.entry_count \in 0..(CountWidth - 1) BY RunningIn DEF Metadata
<1>3. (tree.entry_count - 1) % CountWidth \in 0..(CountWidth - 1) BY <1>2, CountType
<1>4. tree' \in Metadata BY <1>1, <1>3, RunningIn DEF Metadata
<1>5. call' \in CallsIn(S) /\ call'.pc = "root_underflow" BY <1>1, RunningIn DEF CallsIn
<1>6. CallTypeIn(call', S) BY <1>5 DEF CallTypeIn
<1> QED BY <1>1, <1>4, <1>5, <1>6, HandlerStep, RunningIn

(* The child that replaces the root is a block a tree may be handed, so    *)
(* freeing it never frees the root.                                        *)
LEMMA FinishDeleteStep ==
  ASSUME NEW S, Shapes(S), InvIn(S), FinishDelete
  PROVE  InvIn(S)'
<1>1. /\ call.pc = "root_underflow" /\ NoStorageCall /\ call' = Answer(call.answer)
      /\ Loaded \subseteq DOMAIN blocks /\ ROOT_ID \in DOMAIN blocks
  BY RunningIn DEF FinishDelete, Runs
<1>2. CallTypeIn(call', S) /\ call'.pc = "return" BY <1>1, AnswerType, RunningIn
<1>3. CASE /\ CollapsesRoot
           /\ todo' = CollapseWrites(Head(blocks[ROOT_ID].child_ids))
           /\ tree' = tree
  <2> DEFINE root == blocks[ROOT_ID]
             only == Head(root.child_ids)
  <2>1. root \in S BY <1>1, RunningIn DEF StorageTypeIn
  <2>2. root.child_ids \in Seq(Allotted) /\ root.child_ids # <<>>
    <3>1. root \in Node BY <2>1, ShapesUsable
    <3> QED BY <1>3, <3>1 DEF CollapsesRoot, Node
  <2>3. only \in Allotted BY <2>2
  <2>4. only \in DOMAIN blocks BY <1>1, <1>3 DEF Loaded
  <2>5. blocks[only] \in S BY <2>4, RunningIn DEF StorageTypeIn
  <2>6. todo' = << Save(ROOT_ID, blocks[only]), Free(only), Save(ROOT_ID, blocks[only]) >>
    BY <1>3 DEF CollapseWrites
  <2> HIDE DEF only
  <2>7. Save(ROOT_ID, blocks[only]) \in StorageCallsIn(S) /\ Free(only) \in StorageCallsIn(S)
    BY <2>3, <2>5, StorageCallTypes, RootIdType
  <2>8. todo' \in Seq(StorageCallsIn(S)) BY <2>6, <2>7
  <2> QED BY <1>1, <1>2, <1>3, <2>8, HandlerStep, RunningIn
<1>4. CASE /\ tree' = EmptyTree
           /\ todo' = << SaveMetadata(EmptyTree), SaveMetadata(EmptyTree) >>
  <2>1. todo' \in Seq(StorageCallsIn(S)) BY <1>1, <1>4, SaveMetadataType, RunningIn
  <2> QED BY <1>1, <1>2, <1>4, <2>1, EmptyTreeType, HandlerStep, RunningIn
<1>5. CASE tree' = tree /\ todo' = << SaveMetadata(tree) >>
  <2>1. todo' \in Seq(StorageCallsIn(S)) BY <1>1, <1>5, SaveMetadataType, RunningIn
  <2> QED BY <1>1, <1>2, <1>5, <2>1, HandlerStep, RunningIn
<1> QED BY <1>3, <1>4, <1>5 DEF FinishDelete

-----------------------------------------------------------------------------
(* Clearing.                                                               *)

(* The call stays on the path it walks, and frees no block but children.   *)
LEMMA FreeUnlessRootType ==
  ASSUME NEW S, Shapes(S), NEW id \in BlockId
  PROVE  FreeUnlessRoot(id) \in Seq(StorageCallsIn(S))
<1>1. CASE id = ROOT_ID BY <1>1 DEF FreeUnlessRoot
<1>2. CASE id # ROOT_ID
  <2>1. id \in Allotted BY <1>2 DEF ROOT_ID, BlockId, Allotted
  <2>2. Free(id) \in StorageCallsIn(S) BY <2>1, StorageCallTypes
  <2> QED BY <1>2, <2>2 DEF FreeUnlessRoot
<1> QED BY <1>1, <1>2

(* The clear goes down to a first child.                                   *)
LEMMA ClearInternalStep ==
  ASSUME NEW S, Shapes(S), InvIn(S), ClearInternal
  PROVE  InvIn(S)'
<1> DEFINE n == blocks[call.at]
<1>1. Runs("clear") BY DEF ClearInternal
<1>2. /\ call.pc = "clear" /\ n \in S /\ call.at \in BlockId
      /\ ROOT_ID \in DOMAIN blocks /\ todo = <<>>
  BY <1>1, HereIn
<1>3. /\ IsInternal(n) /\ tree' = tree /\ todo' = todo /\ NoStorageCall
      /\ call' = [ call EXCEPT !.at = Head(n.child_ids),
                               !.stack = Append(call.stack, Frame(call.at, n, 1)) ]
  BY DEF ClearInternal
<1>4. /\ n.child_ids \in Seq(Allotted) /\ Len(n.child_ids) >= Len(n.keys) + 1
      /\ Len(n.keys) \in Nat /\ Len(n.child_ids) \in Nat
      /\ DOMAIN n.child_ids = 1..Len(n.child_ids)
  BY <1>2, <1>3, InternalPartsIn, LengthsIn
<1>5. 1 \in DOMAIN n.child_ids /\ n.child_ids # <<>> BY <1>4
<1>6. Head(n.child_ids) \in OptionBlockId BY <1>4, <1>5 DEF Allotted, OptionBlockId
<1> HIDE DEF n
<1>7. Frame(call.at, n, 1) \in FramesIn(S) BY <1>2, <1>3, <1>5, FrameTypeIn
<1>8. Append(call.stack, Frame(call.at, n, 1)) \in Seq(FramesIn(S)) BY <1>7, RunningIn
<1>9. call' \in CallsIn(S) /\ call'.pc = "clear"
  BY <1>2, <1>3, <1>6, <1>8, RunningIn DEF CallsIn
<1>10. CallTypeIn(call', S) BY <1>9 DEF CallTypeIn
<1> QED BY <1>2, <1>3, <1>9, <1>10, HandlerStep, RunningIn

(* A leaf is freed.                                                        *)
LEMMA ClearLeafStep ==
  ASSUME NEW S, Shapes(S), InvIn(S), ClearLeaf
  PROVE  InvIn(S)'
<1>1. Runs("clear") BY DEF ClearLeaf
<1>2. call.pc = "clear" /\ call.at \in BlockId /\ ROOT_ID \in DOMAIN blocks
  BY <1>1, HereIn
<1>3. /\ call' = [ call EXCEPT !.pc = "clear_up", !.at = NoBlock ]
      /\ todo' = FreeUnlessRoot(call.at) /\ tree' = tree /\ NoStorageCall
  BY DEF ClearLeaf
<1>4. NoBlock \in OptionBlockId BY DEF NoBlock, OptionBlockId
<1>5. call' \in CallsIn(S) /\ call'.pc = "clear_up" BY <1>3, <1>4, RunningIn DEF CallsIn
<1>6. CallTypeIn(call', S) BY <1>5 DEF CallTypeIn
<1> QED BY <1>2, <1>3, <1>5, <1>6, FreeUnlessRootType, HandlerStep, RunningIn

(* The clear goes to the next child, or frees the node and goes up.        *)
LEMMA ClearNextStep ==
  ASSUME NEW S, Shapes(S), InvIn(S), ClearNext
  PROVE  InvIn(S)'
<1> DEFINE f == Last(call.stack)
           n == f.node
           j == f.idx + 1
<1>1. /\ call.pc = "clear_up" /\ call.stack # <<>> /\ tree' = tree /\ NoStorageCall
      /\ todo = <<>>
  BY DEF ClearNext, Runs
<1>2. /\ f.id \in BlockId /\ n \in S /\ IsInternal(n) /\ f.idx \in Nat
      /\ f.idx \in DOMAIN n.child_ids /\ Front(call.stack) \in Seq(FramesIn(S))
  BY <1>1, TopFrameIn
<1>3. CASE f.idx < Len(n.child_ids)
  <2>1. /\ todo' = todo
        /\ call' = [ call EXCEPT !.pc = "clear", !.at = n.child_ids[j],
                                 !.stack = Append(Front(call.stack), Frame(f.id, n, j)) ]
    BY <1>3 DEF ClearNext
  <2>2. Len(n.child_ids) \in Nat /\ DOMAIN n.child_ids = 1..Len(n.child_ids)
    BY <1>2, LengthsIn
  <2>3. j \in DOMAIN n.child_ids BY <1>2, <1>3, <2>2
  <2> HIDE DEF j, f, n
  <2>4. Frame(f.id, n, j) \in FramesIn(S) /\ n.child_ids[j] \in Allotted
    BY <1>2, <2>3, FrameTypeIn
  <2>5. n.child_ids[j] \in OptionBlockId BY <2>4 DEF Allotted, OptionBlockId
  <2>6. Append(Front(call.stack), Frame(f.id, n, j)) \in Seq(FramesIn(S)) BY <1>2, <2>4
  <2>7. call' \in CallsIn(S) /\ call'.pc = "clear"
    BY <2>1, <2>5, <2>6, RunningIn DEF CallsIn
  <2>8. CallTypeIn(call', S) BY <2>7 DEF CallTypeIn
  <2> QED BY <1>1, <2>1, <2>7, <2>8, HandlerStep, RunningIn
<1>4. CASE ~(f.idx < Len(n.child_ids))
  <2>1. /\ call' = [ call EXCEPT !.stack = Front(call.stack) ]
        /\ todo' = FreeUnlessRoot(f.id)
    BY <1>4 DEF ClearNext
  <2>2. call' \in CallsIn(S) /\ call'.pc = "clear_up"
    BY <1>1, <1>2, <2>1, RunningIn DEF CallsIn
  <2>3. CallTypeIn(call', S) BY <2>2 DEF CallTypeIn
  <2> QED BY <1>1, <1>2, <2>1, <2>2, <2>3, FreeUnlessRootType, HandlerStep, RunningIn
<1> QED BY <1>3, <1>4

(* The clear ends with an empty root.                                      *)
LEMMA FinishClearStep ==
  ASSUME NEW S, Shapes(S), InvIn(S), FinishClear
  PROVE  InvIn(S)'
<1>1. /\ call.pc = "clear_up" /\ tree' = EmptyTree /\ NoStorageCall
      /\ todo' = << SaveMetadata(EmptyTree) >> /\ call' = Answer(None)
      /\ ROOT_ID \in DOMAIN blocks
  BY RunningIn DEF FinishClear, Runs
<1>2. CallTypeIn(call', S) /\ call'.pc = "return" BY AnswerType, RunningIn, <1>1
<1>3. todo' \in Seq(StorageCallsIn(S)) BY <1>1, SaveMetadataType, RunningIn
<1> QED BY <1>1, <1>2, <1>3, EmptyTreeType, HandlerStep, RunningIn

-----------------------------------------------------------------------------
(* Storage calls and failures.                                             *)

(* A storage call that is made leaves the rest of the plan as it was.      *)
LEMMA StorageCallStep ==
  ASSUME NEW S, Shapes(S), InvIn(S), StorageCall
  PROVE  InvIn(S)'
<1> DEFINE c == Head(todo)
<1>1. /\ todo # <<>> /\ Perform(c) /\ todo' = Tail(todo) /\ tree' = tree /\ call' = call
      /\ errors' = errors /\ crashes' = crashes
  BY DEF StorageCall
<1>2. c \in StorageCallsIn(S) /\ Tail(todo) \in Seq(StorageCallsIn(S)) BY <1>1, RunningIn
<1>3. /\ StorageTypeIn(S)' /\ header' \in Metadata
      /\ ROOT_ID \in DOMAIN blocks => ROOT_ID \in DOMAIN blocks'
      /\ c.do = "save" => c.id \in DOMAIN blocks'
  BY <1>1, <1>2, DoneType, WriteHeaderType, RunningIn DEF Perform
<1>4. TypeIn(S)' BY <1>1, <1>2, <1>3 DEF InvIn, TypeIn
<1>5. NothingPending' BY <1>1 DEF InvIn, NothingPending
<1>6. RootStored'
  <2>1. CASE call.pc = "opening" /\ ROOT_ID \notin DOMAIN blocks
    <3>1. todo = << Save(ROOT_ID, NewLeaf) >> BY <2>1 DEF InvIn, RootStored
    <3>2. c.do = "save" /\ c.id = ROOT_ID BY <3>1 DEF Save
    <3>3. ROOT_ID \in DOMAIN blocks' BY <1>3, <3>2
    <3> QED BY <1>1, <2>1, <3>3 DEF RootStored, ROOT_ID
  <2>2. CASE ROOT_ID \in DOMAIN blocks
    BY <1>1, <1>3, <2>2 DEF RootStored, ROOT_ID
  <2>3. CASE call.pc = "closed"
    BY <1>1, <2>3 DEF RootStored
  <2> QED BY <2>1, <2>2, <2>3 DEF InvIn, RootStored
<1> QED BY <1>4, <1>5, <1>6 DEF InvIn

(* What is left of a call that returns an error.                           *)
LEMMA AbandonType ==
  ASSUME NEW S, Shapes(S), InvIn(S), Abandon
  PROVE  /\ call' \in CallsIn(S) /\ CallTypeIn(call', S) /\ todo' = <<>> /\ tree' = tree
         /\ call'.pc # "opening"
         /\ call.pc = "opening" => call'.pc = "closed"
<1>1. todo' = <<>> /\ tree' = tree BY DEF Abandon
<1>2. CASE call.pc = "opening" BY <1>1, <1>2, BlankTypeIn DEF Abandon
<1>3. CASE call.pc # "opening" /\ call.req.op = "delete_safe" /\ call.pc # "rolled_back"
  <2>1. call' = [ Blank EXCEPT !.pc = "rollback", !.req = call.req, !.orig = call.orig ]
    BY <1>3 DEF Abandon
  <2>2. call' \in CallsIn(S) /\ call'.pc = "rollback" BY <2>1, BlankTypeIn, RunningIn DEF CallsIn
  <2>3. CallTypeIn(call', S) BY <2>2 DEF CallTypeIn
  <2> QED BY <1>1, <1>3, <2>2, <2>3
<1>4. CASE call.pc # "opening" /\ ~(call.req.op = "delete_safe" /\ call.pc # "rolled_back")
  <2>1. call' = Blank BY <1>4 DEF Abandon
  <2> QED BY <1>1, <1>4, <2>1, BlankTypeIn
<1> QED BY <1>2, <1>3, <1>4

(* A call may be abandoned at any of its steps.                            *)
LEMMA AbandonStep ==
  ASSUME NEW S, Shapes(S), InvIn(S), Abandon, NoStorageCall, call.pc # "closed"
  PROVE  InvIn(S)'
<1>1. todo' \in Seq(StorageCallsIn(S)) /\ tree' \in Metadata BY AbandonType, RunningIn, EmptySeq
<1>2. call'.pc = "closed" \/ ROOT_ID \in DOMAIN blocks BY AbandonType, RunningIn
<1> QED BY <1>1, <1>2, AbandonType, HandlerStep

(* A closed tree loads nothing.                                            *)
LEMMA ClosedLoadsNothing == ASSUME call.pc = "closed" PROVE Loaded = {}
BY DEF Loaded

(* BlockNotFound is answered to an open handle.                            *)
LEMMA BlockNotFoundStep ==
  ASSUME NEW S, Shapes(S), InvIn(S), BlockNotFound
  PROVE  InvIn(S)'
<1>1. call.pc # "closed"
  BY ClosedLoadsNothing DEF BlockNotFound, InvIn, NothingPending
<1> QED BY <1>1, AbandonStep DEF BlockNotFound

(* So is InvalidBlockSize.                                                 *)
LEMMA InvalidBlockSizeStep ==
  ASSUME NEW S, Shapes(S), InvIn(S), InvalidBlockSize
  PROVE  InvIn(S)'
<1>1. call.pc # "closed" BY DEF InvalidBlockSize, InvIn, NothingPending
<1> QED BY <1>1, AbandonStep DEF InvalidBlockSize

(* So is BlockCorrupted.                                                   *)
LEMMA BlockCorruptedStep ==
  ASSUME NEW S, Shapes(S), InvIn(S), BlockCorrupted
  PROVE  InvIn(S)'
<1>1. call.pc # "closed" BY DEF BlockCorrupted, Rebalances, Runs
<1> QED BY <1>1, AbandonStep DEF BlockCorrupted

(* A panic leaves no handle.                                               *)
LEMMA PanicStep ==
  ASSUME NEW S, Shapes(S), InvIn(S), Panic
  PROVE  InvIn(S)'
<1>1. /\ Forget /\ blocks' = blocks /\ saved' = saved /\ header' = header
      /\ errors' = errors /\ crashes' = crashes
  BY DEF Panic, disk
<1>2. StorageTypeIn(S)' BY <1>1, ForgetTypeIn, RunningIn DEF StorageTypeIn
<1>3. TypeIn(S)' BY <1>1, <1>2, ForgetTypeIn, EmptySeq DEF InvIn, TypeIn
<1> QED BY <1>1, <1>3, ForgetTypeIn DEF InvIn, NothingPending, RootStored

(* An I/O error, wherever it hits.                                         *)
LEMMA StorageFailsStep ==
  ASSUME NEW S, Shapes(S), InvIn(S), StorageFails
  PROVE  InvIn(S)'
<1>1. /\ errors < MaxErrors /\ errors' = errors + 1 /\ crashes' = crashes /\ Abandon
  BY DEF StorageFails
<1>2. call.pc # "closed"
  BY ClosedLoadsNothing DEF StorageFails, InvIn, NothingPending
<1>3. errors' \in 0..MaxErrors BY <1>1, FaultsAssumption DEF InvIn, TypeIn
<1>4. /\ StorageTypeIn(S)' /\ header' \in Metadata
      /\ ROOT_ID \in DOMAIN blocks => ROOT_ID \in DOMAIN blocks'
  <2>1. CASE todo # <<>> /\ Interrupted(Head(todo))
    <3>1. Head(todo) \in StorageCallsIn(S) BY <2>1, RunningIn
    <3> QED BY <2>1, <3>1, InterruptedType, RunningIn
  <2>2. CASE UNCHANGED <<storage, header>>
    BY <2>2, RunningIn DEF storage, StorageTypeIn
  <2> QED BY <2>1, <2>2 DEF StorageFails
<1>5. todo' \in Seq(StorageCallsIn(S)) /\ tree' \in Metadata
  BY <1>1, AbandonType, RunningIn, EmptySeq
<1>6. TypeIn(S)' BY <1>1, <1>3, <1>4, <1>5, AbandonType DEF InvIn, TypeIn
<1>7. NothingPending' BY <1>1, AbandonType DEF NothingPending
<1>8. RootStored'
  BY <1>1, <1>2, <1>4, AbandonType, RunningIn DEF RootStored, ROOT_ID
<1> QED BY <1>6, <1>7, <1>8 DEF InvIn

(* delete_safe puts back metadata that it has kept.                        *)
LEMMA RollbackStep ==
  ASSUME NEW S, Shapes(S), InvIn(S), Rollback
  PROVE  InvIn(S)'
<1>1. /\ call.pc = "rollback" /\ tree' = call.orig /\ NoStorageCall
      /\ todo' = << SaveMetadata(call.orig) >>
      /\ call' = [ call EXCEPT !.pc = "rolled_back" ]
      /\ ROOT_ID \in DOMAIN blocks
  BY RunningIn DEF Rollback, Runs
<1>2. todo' \in Seq(StorageCallsIn(S)) BY <1>1, SaveMetadataType, RunningIn
<1>3. call' \in CallsIn(S) /\ call'.pc = "rolled_back" BY <1>1, RunningIn DEF CallsIn
<1>4. CallTypeIn(call', S) BY <1>3 DEF CallTypeIn
<1> QED BY <1>1, <1>2, <1>3, <1>4, HandlerStep, RunningIn

(* Then it returns the error.                                              *)
LEMMA RolledBackStep ==
  ASSUME NEW S, Shapes(S), InvIn(S), RolledBack
  PROVE  InvIn(S)'
<1>1. call.pc = "rolled_back" /\ todo = <<>> BY DEF RolledBack, Runs
<1> QED BY <1>1, BlankTypeIn, HandlerStep, RunningIn DEF RolledBack

(* A crash leaves what is on disk, and nothing else.                       *)
LEMMA CrashStep ==
  ASSUME NEW S, Shapes(S), InvIn(S), Crash
  PROVE  InvIn(S)'
<1>1. Forget /\ crashes < MaxCrashes /\ crashes' = crashes + 1 /\ errors' = errors
  BY DEF Crash
<1>2. crashes' \in 0..MaxCrashes BY <1>1, FaultsAssumption DEF InvIn, TypeIn
<1>3. /\ DOMAIN blocks' \subseteq BlockId
      /\ \A b \in DOMAIN blocks' : blocks'[b] \in S
      /\ saved' = saved /\ header' \in Metadata
  <2>1. CASE UNCHANGED <<disk, header>>
    BY <2>1, RunningIn DEF disk, StorageTypeIn
  <2>2. CASE todo # <<>> /\ PerformHalf(Head(todo))
    <3>1. Head(todo) \in StorageCallsIn(S) BY <2>2, RunningIn
    <3> QED BY <2>2, <3>1, HalfDoneType, WriteHeaderType, RunningIn DEF PerformHalf
  <2> QED BY <2>1, <2>2 DEF Crash
<1>4. StorageTypeIn(S)' BY <1>1, <1>3, ForgetTypeIn, RunningIn DEF StorageTypeIn
<1>5. TypeIn(S)' BY <1>1, <1>2, <1>3, <1>4, ForgetTypeIn, EmptySeq DEF InvIn, TypeIn
<1> QED BY <1>1, <1>5, ForgetTypeIn DEF InvIn, NothingPending, RootStored

-----------------------------------------------------------------------------
(* An empty directory satisfies the invariant.                             *)
LEMMA InitInvIn ==
  ASSUME NEW S, Shapes(S), Init
  PROVE  InvIn(S)
<1>1. /\ blocks = [ b \in {} |-> NewLeaf ] /\ nextId = 2 /\ freeList = <<>>
      /\ saved = [ next_block_id |-> 2, free_blocks |-> <<>> ]
      /\ header = EmptyTree /\ tree = EmptyTree /\ call = Closed /\ todo = <<>>
      /\ errors = 0 /\ crashes = 0
  BY DEF Init, StorageInit, NewMetadata, NewAllocator
<1>2. StorageTypeIn(S)
  <2>1. 2 \in Allotted /\ <<>> \in Seq(Allotted) BY DEF Allotted
  <2> QED BY <1>1, <2>1 DEF StorageTypeIn, FileMetadata
<1>3. TypeIn(S)
  BY <1>1, <1>2, BlankTypeIn, EmptyTreeType, FaultsAssumption, EmptySeq DEF TypeIn
<1> QED BY <1>1, <1>3, BlankTypeIn DEF InvIn, NothingPending, RootStored

(* Every step preserves it, but for exact lengths none may be about to mix *)
(* two kinds of nodes.                                                     *)
LEMMA NextInvIn ==
  ASSUME NEW S, Shapes(S), InvIn(S), S = WellShaped => Unmixed, [Next]_vars
  PROVE  InvIn(S)'
<1>1. CASE Open BY <1>1, OpenStep
<1>2. CASE Close BY <1>2, CloseStep
<1>3. CASE \E r \in Requests : Invoke(r) BY <1>3, InvokeStep
<1>4. CASE CallStep
  <2>1. CASE StorageCall BY <2>1, StorageCallStep
  <2>2. CASE Opened \/ StartOnTree \/ StartOnEmptyTree \/ Return
    BY <2>2, OpenedStep, StartOnTreeStep, StartOnEmptyTreeStep, ReturnStep
  <2>3. CASE Search
    BY <2>3, DescendStep, GetFromLeafStep, ScanLeafStep DEF Search
  <2>4. CASE Insert
    BY <2>4, UpdateMissingStep, InsertIntoLeafStep, InsertIntoParentStep, FinishInsertStep
       DEF Insert
  <2>5. CASE Delete
    BY <2>5, DeleteFromLeafStep, SaveAncestorStep, HandleChildUnderflowStep, CheckParentStep,
       DeleteNothingStep, CountDeletedStep, FinishDeleteStep, RollbackStep, RolledBackStep
       DEF Delete
  <2>6. CASE Clear
    BY <2>6, ClearInternalStep, ClearLeafStep, ClearNextStep, FinishClearStep DEF Clear
  <2>7. CASE BlockNotFound \/ InvalidBlockSize \/ BlockCorrupted
    BY <2>7, BlockNotFoundStep, InvalidBlockSizeStep, BlockCorruptedStep
  <2>8. CASE Panic BY <2>8, PanicStep
  <2> QED BY <1>4, <2>1, <2>2, <2>3, <2>4, <2>5, <2>6, <2>7, <2>8 DEF CallStep
<1>5. CASE StorageFails BY <1>5, StorageFailsStep
<1>6. CASE Crash BY <1>6, CrashStep
<1>7. CASE UNCHANGED vars
  <2>1. /\ blocks' = blocks /\ saved' = saved /\ nextId' = nextId /\ freeList' = freeList
        /\ header' = header /\ tree' = tree /\ call' = call /\ todo' = todo
        /\ errors' = errors /\ crashes' = crashes
    BY <1>7 DEF vars
  <2>2. StorageTypeIn(S)' BY <2>1, RunningIn DEF StorageTypeIn
  <2>3. TypeIn(S)' BY <2>1, <2>2 DEF InvIn, TypeIn
  <2> QED BY <2>1, <2>3 DEF InvIn, NothingPending, RootStored, ROOT_ID, Save, NewLeaf, NoBlock
<1> QED BY <1>1, <1>2, <1>3, <1>4, <1>5, <1>6, <1>7 DEF Next

-----------------------------------------------------------------------------
(* Where nothing has failed.                                               *)

(* A handle without a call is of the right type, whichever way it came to  *)
(* have none.                                                              *)
LEMMA BlankType ==
  /\ Blank \in Calls /\ CallTypeOK(Blank) /\ Blank.pc = "idle"
  /\ Closed \in Calls /\ CallTypeOK(Closed) /\ Closed.pc = "closed"
BY BlankTypeIn DEF Shapes, Calls, CallTypeOK

(* A storage call of the tree names a block and a well-shaped node, and    *)
(* frees only blocks a tree may be handed.                                 *)
LEMMA StorageCallParts ==
  ASSUME NEW c \in StorageCalls
  PROVE  /\ c.id \in BlockId /\ c.node \in WellShaped
         /\ c.do \in {"save", "free", "allocate"}
         /\ c.do = "free" => c.id \in Allotted
BY StorageCallPartsIn DEF Shapes, StorageCalls

(* allocate_block hands out neither block 0 nor the root's.                *)
LEMMA FreshBlockType ==
  ASSUME StorageTypeOK
  PROVE  FreshBlock \in Allotted /\ Allocate \in StorageCalls
BY FreshBlockTypeIn DEF Shapes, StorageTypeOK, StorageCalls

(* What the invariant says while a call runs.                              *)
LEMMA Running ==
  ASSUME IInv
  PROVE  /\ StorageTypeOK /\ header \in Metadata /\ tree \in Metadata
         /\ CallTypeOK(call) /\ call \in Calls /\ todo \in Seq(StorageCalls)
         /\ call.pc \in {"closed", "opening", "idle", "start", "descend", "scan", "insert_up",
               "delete_up", "reload", "root_underflow", "rollback", "rolled_back",
               "clear", "clear_up", "return"}
         /\ call.req \in Request \cup {NoRequest} /\ call.at \in OptionBlockId
         /\ call.stack \in Seq(Frames)
         /\ call.split \in [ key : Key, id : Allotted ] \cup {NoSplit}
         /\ call.outcome \in {"NoChange", "KeyRemoved", "Underflow"}
         /\ call.answer \in Val \cup {None} \cup Entries
         /\ call.orig \in Metadata
         /\ call.pc \notin {"closed", "opening"} => ROOT_ID \in DOMAIN blocks
BY RunningIn DEF Shapes, IInv, StorageTypeOK, CallTypeOK, Calls, StorageCalls, Frames

(* The node that a search or a clear has come to.                          *)
LEMMA Here ==
  ASSUME IInv, NEW pc \in {"descend", "scan", "clear"}, Runs(pc)
  PROVE  /\ call.pc = pc /\ todo = <<>>
         /\ call.at \in DOMAIN blocks /\ call.at \in BlockId
         /\ blocks[call.at] \in WellShaped
         /\ ROOT_ID \in DOMAIN blocks
BY HereIn DEF Shapes, IInv

(* The top of the path.                                                    *)
LEMMA TopFrame ==
  ASSUME IInv, call.stack # <<>>
  PROVE  /\ Last(call.stack) \in Frames /\ Front(call.stack) \in Seq(Frames)
         /\ Last(call.stack).id \in BlockId
         /\ Last(call.stack).node \in WellShaped /\ IsInternal(Last(call.stack).node)
         /\ Last(call.stack).idx \in DOMAIN Last(call.stack).node.child_ids
         /\ Last(call.stack).idx \in Nat
BY TopFrameIn DEF Shapes, IInv, Frames

(* A node that was loaded, with one of its children, is a frame of the     *)
(* path.                                                                   *)
LEMMA FrameType ==
  ASSUME NEW id \in BlockId, NEW n \in WellShaped, IsInternal(n),
         NEW i \in DOMAIN n.child_ids
  PROVE  Frame(id, n, i) \in Frames /\ n.child_ids[i] \in Allotted
BY FrameTypeIn DEF Shapes, Frames

(* What is in memory when there is no handle.                              *)
LEMMA ForgetType ==
  ASSUME Forget
  PROVE  /\ call' \in Calls /\ CallTypeOK(call') /\ call'.pc = "closed" /\ todo' = <<>>
         /\ tree' \in Metadata /\ nextId' \in Allotted /\ freeList' \in Seq(Allotted)
BY ForgetTypeIn DEF Shapes, Calls, CallTypeOK

(* The child a descent takes is one of the node's children.                *)
LEMMA ChildPositionType ==
  ASSUME NEW n \in WellShaped, IsInternal(n)
  PROVE  ChildPosition(n) \in DOMAIN n.child_ids
BY ChildPositionTypeIn DEF Shapes

(* The request of an operation on a key has the key.                       *)
LEMMA RequestType ==
  ASSUME IInv
  PROVE  /\ call.req.op \in {"upsert", "update", "get", "delete", "delete_safe"} =>
              call.req.key \in Key
         /\ call.req.op \in {"upsert", "update"} => call.req.val \in Val
BY RequestTypeIn DEF Shapes, IInv

(* The part of a leaf that a scan collects is a sequence of entries.       *)
LEMMA CollectedType ==
  ASSUME NEW n \in WellShaped, IsLeaf(n), NEW first \in Nat \ {0}, NEW last \in 0..Len(n.keys)
  PROVE  SubSeq([ i \in 1..Len(n.keys) |-> <<n.keys[i], n.values[i]>> ], first, last) \in Entries
BY CollectedTypeIn DEF Shapes

(* An empty directory.                                                     *)
LEMMA InitIInv == Init => IInv
BY InitInvIn DEF IInv, Shapes

(* Every step, as long as no two kinds of nodes are mixed.                 *)
LEMMA NextIInv == ASSUME IInv, Unmixed, [Next]_vars PROVE IInv'
BY NextInvIn DEF IInv, Shapes

-----------------------------------------------------------------------------
(* Whatever fails.                                                         *)

(* Every node under any failures serves its keys, which is inductive.      *)
LEMMA UsableInv ==
  /\ Init => InvIn(Usable)
  /\ InvIn(Usable) /\ [Next]_vars => InvIn(Usable)'
<1>1. Shapes(Usable) BY DEF Shapes
<1>2. Usable # WellShaped BY TwoShapes
<1>3. Init => InvIn(Usable) BY <1>1, InitInvIn
<1>4. ASSUME InvIn(Usable), [Next]_vars PROVE InvIn(Usable)'
  BY <1>1, <1>2, <1>4, NextInvIn
<1> QED BY <1>3, <1>4

(* Whatever calls are made and whatever fails, no node on disk, on the path *)
(* of the running call or on its way to disk has a key without a value or  *)
(* a child for it, nodes lead only to blocks the allocator may hand out,   *)
(* and only such blocks are freed.  That the lengths match exactly is not  *)
(* so after a failure: see ShapesExact and the run mixed_borrow.           *)
THEOREM TypeCorrect == Spec => []TypeOK
<1>1. Init => InvIn(Usable) BY UsableInv
<1>2. InvIn(Usable) /\ [Next]_vars => InvIn(Usable)' BY UsableInv
<1>3. InvIn(Usable) => TypeOK BY DEF InvIn, TypeOK
<1> QED BY <1>1, <1>2, <1>3, PTL DEF Spec

(* Whatever calls are made and whatever fails, block 1 is never handed out *)
(* nor freed, no node has it as a child, and an open handle finds the root *)
(* in it.                                                                  *)
THEOREM RootNeverLost == Spec => []RootKept
<1>1. Init => InvIn(Usable) BY UsableInv
<1>2. InvIn(Usable) /\ [Next]_vars => InvIn(Usable)' BY UsableInv
<1>3. InvIn(Usable) => RootKept
  <2> SUFFICES ASSUME InvIn(Usable) PROVE RootKept OBVIOUS
  <2>0. Shapes(Usable) BY DEF Shapes
  <2>1. /\ freeList \in Seq(Allotted) /\ nextId \in Allotted
        /\ saved.free_blocks \in Seq(Allotted)
    BY <2>0, RunningIn DEF StorageTypeIn, FileMetadata
  <2>2. \A s \in Seq(Allotted) : ROOT_ID \notin ToSet(s)
    BY RootIdType, ElementOfSeq, LenProperties DEF ToSet
  <2>3. \A b \in DOMAIN blocks : blocks[b].child_ids \in Seq(Allotted)
    BY <2>0, RunningIn DEF StorageTypeIn, Usable, Node
  <2>4. nextId # ROOT_ID BY <2>1, RootIdType
  <2>5. call.pc \notin {"closed", "opening"} => ROOT_ID \in DOMAIN blocks BY <2>0, RunningIn
  <2> QED BY <2>1, <2>2, <2>3, <2>4, <2>5 DEF RootKept
<1> QED BY <1>1, <1>2, <1>3, PTL DEF Spec
-----------------------------------------------------------------------------
(* The allocator on disk.                                                  *)

(* No step opens a handle but Open.                                        *)
LEMMA OnlyOpenOpens ==
  ASSUME NothingPending, CallStep \/ (\E r \in Requests : Invoke(r))
  PROVE  call.pc # "closed"
<1>1. CASE \E r \in Requests : Invoke(r) BY <1>1 DEF Invoke
<1>2. CASE StorageCall BY <1>2 DEF StorageCall, NothingPending
<1>3. CASE Opened \/ StartOnTree \/ StartOnEmptyTree \/ Return
  BY <1>3 DEF Opened, StartOnTree, StartOnEmptyTree, Return, Runs
<1>4. CASE Search
  BY <1>4 DEF Search, Descend, GetFromLeaf, ScanLeaf, AtLeaf, Runs
<1>5. CASE Insert
  BY <1>5 DEF Insert, UpdateMissing, InsertIntoLeaf, InsertIntoParent, FinishInsert, AtLeaf, Runs
<1>6. CASE Delete
  BY <1>6 DEF Delete, DeleteFromLeaf, SaveAncestor, HandleChildUnderflow, CheckParent,
              DeleteNothing, CountDeleted, FinishDelete, Rollback, RolledBack, AtLeaf, Rebalances,
              Runs
<1>7. CASE Clear
  BY <1>7 DEF Clear, ClearInternal, ClearLeaf, ClearNext, FinishClear, Runs
<1>8. CASE BlockNotFound
  BY <1>8, ClosedLoadsNothing DEF BlockNotFound, NothingPending
<1>9. CASE InvalidBlockSize BY <1>9 DEF InvalidBlockSize, NothingPending
<1>10. CASE BlockCorrupted \/ Panic BY <1>10 DEF BlockCorrupted, Panic, Rebalances, Runs
<1> QED BY <1>1, <1>2, <1>3, <1>4, <1>5, <1>6, <1>7, <1>8, <1>9, <1>10 DEF CallStep

(* Of the steps of a call only StorageCall touches the storage, if it does *)
(* not panic.                                                              *)
LEMMA OnlyStorageCallStores ==
  ASSUME CallStep \/ (\E r \in Requests : Invoke(r))
  PROVE  StorageCall \/ NoStorageCall \/ Panic
<1>1. CASE \E r \in Requests : Invoke(r) BY <1>1 DEF Invoke
<1>2. CASE Opened \/ StartOnTree \/ StartOnEmptyTree \/ Return
  BY <1>2 DEF Opened, StartOnTree, StartOnEmptyTree, Return
<1>3. CASE Search BY <1>3 DEF Search, Descend, GetFromLeaf, ScanLeaf
<1>4. CASE Insert
  BY <1>4 DEF Insert, UpdateMissing, InsertIntoLeaf, InsertIntoParent, FinishInsert
<1>5. CASE Delete
  BY <1>5 DEF Delete, DeleteFromLeaf, SaveAncestor, HandleChildUnderflow, CheckParent,
              DeleteNothing, CountDeleted, FinishDelete, Rollback, RolledBack
<1>6. CASE Clear
  BY <1>6 DEF Clear, ClearInternal, ClearLeaf, ClearNext, FinishClear
<1>7. CASE BlockNotFound \/ InvalidBlockSize \/ BlockCorrupted
  BY <1>7 DEF BlockNotFound, InvalidBlockSize, BlockCorrupted
<1> QED BY <1>1, <1>2, <1>3, <1>4, <1>5, <1>6, <1>7 DEF CallStep

(* Every step keeps metadata.bin up to date, or follows an error.          *)
LEMMA NextPersists ==
  ASSUME InvIn(Usable), AllocatorPersisted, [Next]_vars
  PROVE  AllocatorPersisted'
<1>0. NothingPending /\ saved \in FileMetadata /\ errors \in 0..MaxErrors
  BY DEF InvIn, TypeIn, StorageTypeIn
<1>1. CASE Open
  <2>2. saved' = saved /\ nextId' = saved.next_block_id /\ freeList' = saved.free_blocks
    BY <1>1 DEF Open, OpenStorage, Load, disk
  <2> QED BY <1>0, <2>2 DEF AllocatorPersisted, AllocatorMetadata, FileMetadata
<1>2. CASE Close \/ Crash \/ Panic
  BY <1>2, BlankPcs DEF Close, Crash, Panic, Forget, AllocatorPersisted
<1>3. CASE CallStep \/ (\E r \in Requests : Invoke(r))
  <2>1. call.pc # "closed" BY <1>0, <1>3, OnlyOpenOpens
  <2>2. CASE StorageCall
    BY <2>2, DoneSaves DEF StorageCall, Perform, AllocatorPersisted
  <2>3. CASE NoStorageCall
    BY <2>1, <2>3 DEF NoStorageCall, AllocatorPersisted, AllocatorMetadata
  <2> QED BY <1>2, <1>3, <2>2, <2>3, OnlyStorageCallStores
<1>4. CASE StorageFails
  <2>1. errors \in Nat BY <1>0, FaultsAssumption
  <2> QED BY <1>4, <2>1 DEF StorageFails, AllocatorPersisted
<1>5. CASE UNCHANGED vars
  BY <1>5 DEF vars, AllocatorPersisted, AllocatorMetadata
<1> QED BY <1>1, <1>2, <1>3, <1>4, <1>5 DEF Next

(* However many crashes there are, and wherever: as long as no storage     *)
(* call has returned an error, the allocator in memory is the one on disk  *)
(* between any two storage calls.                                          *)
THEOREM AllocatorAlwaysPersisted == Spec => []AllocatorPersisted
<1>1. Init => InvIn(Usable) /\ AllocatorPersisted
  BY UsableInv, BlankPcs DEF Init, AllocatorPersisted
<1>2. InvIn(Usable) /\ AllocatorPersisted /\ [Next]_vars
        => InvIn(Usable)' /\ AllocatorPersisted'
  BY UsableInv, NextPersists
<1> QED BY <1>1, <1>2, PTL DEF Spec

-----------------------------------------------------------------------------
(* The tree uses its storage as StorageContract says.                      *)

(* The parts of the storage are the same in the contract.                  *)
LEMMA SameParts ==
  /\ Contract!NewLeaf = NewLeaf
  /\ Contract!disk = disk /\ Contract!allocator = allocator
  /\ Contract!FreshBlock = FreshBlock
  /\ Contract!TakeFreshBlock <=> TakeFreshBlock
  /\ \A id : Contract!PushFree(id) <=> PushFree(id)
  /\ Contract!SaveStorageMetadata <=> SaveStorageMetadata
  /\ \A id, n : Contract!WriteFile(id, n) <=> WriteFile(id, n)
  /\ \A id : Contract!RemoveFile(id) <=> RemoveFile(id)
<1>1. Contract!NewLeaf = NewLeaf
  BY DEF NewLeaf, Contract!NewLeaf, NoBlock, Contract!NoBlock
<1>2. Contract!disk = disk /\ Contract!allocator = allocator
  BY DEF disk, Contract!disk, allocator, Contract!allocator
<1>3. Contract!FreshBlock = FreshBlock
  BY DEF FreshBlock, Contract!FreshBlock, Last, Contract!Last
<1>4. Contract!TakeFreshBlock <=> TakeFreshBlock
  BY DEF TakeFreshBlock, Contract!TakeFreshBlock, Front, Contract!Front
<1>5. \A id : Contract!PushFree(id) <=> PushFree(id)
  BY DEF PushFree, Contract!PushFree
<1>6. Contract!SaveStorageMetadata <=> SaveStorageMetadata
  BY DEF SaveStorageMetadata, Contract!SaveStorageMetadata, AllocatorMetadata,
         Contract!AllocatorMetadata
<1>7. \A id, n : Contract!WriteFile(id, n) <=> WriteFile(id, n)
  BY DEF WriteFile, Contract!WriteFile
<1>8. \A id : Contract!RemoveFile(id) <=> RemoveFile(id)
  BY DEF RemoveFile, Contract!RemoveFile, RemoveFiles, Contract!RemoveFiles
<1> QED BY <1>1, <1>2, <1>3, <1>4, <1>5, <1>6, <1>7, <1>8

(* The call of the contract that a call of the tree's is: it has no list   *)
(* of ids.                                                                 *)
ContractCall(c) == [ do |-> c.do, id |-> c.id, node |-> c.node, ids |-> <<>> ]

(* A call of the tree's, done, cut short or refused, is that call.         *)
LEMMA TreeCallsAreContractCalls ==
  ASSUME NEW c \in StorageCallsIn(Usable)
  PROVE  /\ ContractCall(c) \in Contract!ContractCalls
         /\ Done(c) => Contract!Done(ContractCall(c))
         /\ HalfDone(c) => Contract!HalfDone(ContractCall(c))
         /\ NotDone(c) => Contract!NotDone(ContractCall(c))
         /\ HalfBroken(c) => Contract!HalfBroken(ContractCall(c))
<1> DEFINE d == ContractCall(c)
<1>1. /\ c.id \in OptionBlockId /\ c.node \in Usable
      /\ c.do \in {"save", "free", "allocate"}
  BY DEF StorageCallsIn, BlockId, OptionBlockId
<1>2. d.do = c.do /\ d.id = c.id /\ d.node = c.node BY DEF ContractCall
<1>3. d \in Contract!ContractCalls
  <2>1. /\ Contract!BlockId = BlockId /\ Contract!Allotted = Allotted
        /\ Contract!NoBlock = NoBlock
    BY DEF BlockId, Contract!BlockId, NoBlock, Contract!NoBlock, Allotted, Contract!Allotted
  <2>2. Contract!OptionBlockId = OptionBlockId
    BY <2>1 DEF OptionBlockId, Contract!OptionBlockId
  <2>3. Contract!Node = Node
    BY <2>1, <2>2 DEF Node, Contract!Node
  <2>4. \A n : Contract!KeysServed(n) <=> KeysServed(n)
    BY <2>1 DEF KeysServed, Contract!KeysServed, IsLeaf, Contract!IsLeaf, IsInternal,
                Contract!IsInternal
  <2>5. Contract!Usable = Usable
    BY <2>3, <2>4 DEF Usable, Contract!Usable
  <2> QED BY <1>1, <2>1, <2>2, <2>5 DEF Contract!ContractCalls, ContractCall
<1> HIDE DEF d
<1>4. CASE c.do = "save"
  <2>1. Done(c) => Contract!Done(d)
    BY <1>2, <1>4, SameParts
       DEF Done, Contract!Done, WriteBlock, Contract!WriteBlock, allocator, Contract!allocator
  <2>2. HalfDone(c) => Contract!HalfDone(d)
    BY <1>2, <1>4, SameParts
       DEF HalfDone, Contract!HalfDone, WriteBlockHalf, Contract!WriteBlockHalf
  <2>3. NotDone(c) => Contract!NotDone(d)
    BY <1>2, <1>4, SameParts
       DEF NotDone, Contract!NotDone, disk, Contract!disk, allocator, Contract!allocator
  <2>4. HalfBroken(c) => Contract!HalfBroken(d)
    BY <1>2, <1>4, <2>2, SameParts
       DEF HalfBroken, Contract!HalfBroken, allocator, Contract!allocator
  <2> QED BY <1>3, <2>1, <2>2, <2>3, <2>4 DEF d
<1>5. CASE c.do = "free"
  <2>1. Done(c) => Contract!Done(d)
    BY <1>2, <1>5, SameParts
       DEF Done, Contract!Done, DeallocateBlock, Contract!DeallocateBlock
  <2>2. HalfDone(c) => Contract!HalfDone(d)
    BY <1>2, <1>5, SameParts
       DEF HalfDone, Contract!HalfDone, DeallocateBlockHalf, Contract!DeallocateBlockHalf
  <2>3. NotDone(c) => Contract!NotDone(d)
    BY <1>2, <1>5, SameParts
       DEF NotDone, Contract!NotDone, disk, Contract!disk, allocator, Contract!allocator
  <2>4. HalfBroken(c) => Contract!HalfBroken(d)
    BY <1>2, <1>5, <2>2, SameParts
       DEF HalfBroken, Contract!HalfBroken, allocator, Contract!allocator
  <2> QED BY <1>3, <2>1, <2>2, <2>3, <2>4 DEF d
<1>6. CASE c.do = "allocate"
  <2>1. Done(c) => Contract!Done(d)
    BY <1>2, <1>6, SameParts
       DEF Done, Contract!Done, AllocateBlock, Contract!AllocateBlock
  <2>2. HalfDone(c) => Contract!HalfDone(d)
    BY <1>2, <1>6, SameParts
       DEF HalfDone, Contract!HalfDone, AllocateBlockHalf, Contract!AllocateBlockHalf
  <2>3. NotDone(c) => Contract!NotDone(d)
    BY <1>2, <1>6, SameParts
       DEF NotDone, Contract!NotDone, disk, Contract!disk, allocator, Contract!allocator
  <2>4. HalfBroken(c) => Contract!HalfBroken(d)
    BY <1>2, <1>6, <2>2, SameParts
       DEF HalfBroken, Contract!HalfBroken, allocator, Contract!allocator
  <2> QED BY <1>3, <2>1, <2>2, <2>3, <2>4 DEF d
<1> QED BY <1>1, <1>4, <1>5, <1>6

(* A step that leaves the storage as it is does not show, or closes it.    *)
LEMMA QuietStep ==
  ASSUME call.pc # "closed", UNCHANGED <<storage, errors>>
  PROVE  [Contract!ContractNext]_(Contract!contractvars)
<1>1. CASE call'.pc # "closed"
  BY <1>1 DEF Contract!contractvars, Contract!storage, storage
<1>2. CASE call'.pc = "closed"
  BY <1>2 DEF Contract!ContractNext, Contract!CloseContract, Contract!disk, storage,
              Contract!Succeeds
<1> QED BY <1>1, <1>2

(* A call that leaves the disk as it is and ends in a closed storage.      *)
LEMMA QuietEnd ==
  ASSUME call.pc # "closed", call'.pc = "closed", UNCHANGED disk,
         errors' = errors \/ errors' = errors + 1
  PROVE  [Contract!ContractNext]_(Contract!contractvars)
BY DEF Contract!ContractNext, Contract!CloseContract, Contract!disk, disk, Contract!Succeeds,
       Contract!Fails

(* A call that reads fails as one that changes nothing would.              *)
LEMMA ReadFails ==
  ASSUME call.pc # "closed", UNCHANGED storage, errors' = errors + 1
  PROVE  [Contract!ContractNext]_(Contract!contractvars)
<1> DEFINE n == CHOOSE n : n \in Contract!Usable
           c == [ do |-> "sync", id |-> 0, node |-> n, ids |-> <<>> ]
<1>1. CASE call'.pc = "closed"
  BY <1>1, QuietEnd DEF storage, disk
<1>2. CASE call'.pc # "closed"
  <2>1. Contract!NewLeaf \in Contract!Usable
    BY DEF Contract!NewLeaf, Contract!Usable, Contract!Node, Contract!KeysServed,
           Contract!IsLeaf, Contract!IsInternal, Contract!NoBlock, Contract!OptionBlockId
  <2>2. c \in Contract!ContractCalls
    BY <2>1 DEF Contract!ContractCalls, Contract!OptionBlockId
  <2>3. Contract!NotDone(c)
    BY DEF Contract!NotDone, Contract!disk, Contract!allocator, storage
  <2>4. Contract!Call(c)
    BY <1>2, <2>3 DEF Contract!Call, Contract!Broken, Contract!Fails
  <2> QED BY <2>2, <2>4 DEF Contract!ContractNext
<1> QED BY <1>1, <1>2

(* Every step of the tree is a step of the contract, or does not show.     *)
LEMMA NextKeepsContract ==
  ASSUME InvIn(Usable), [Next]_vars
  PROVE  [Contract!ContractNext]_(Contract!contractvars)
<1> DEFINE c == Head(todo)
           d == ContractCall(c)
<1>i. NothingPending /\ todo \in Seq(StorageCallsIn(Usable)) BY DEF InvIn, TypeIn
<1>0. todo # <<>> => c \in StorageCallsIn(Usable) /\ call.pc # "closed"
  BY <1>i DEF NothingPending
<1>1. CASE Open
  <2>1. ~(call.pc # "closed") /\ call'.pc # "closed"
    BY <1>1 DEF Open, Blank
  <2>2. Contract!OpenStorage
    BY <1>1 DEF Open, OpenStorage, Contract!OpenStorage, Load, Contract!Load, disk,
                Contract!disk
  <2>3. UNCHANGED errors BY <1>1 DEF Open
  <2> QED BY <2>1, <2>2, <2>3
          DEF Contract!ContractNext, Contract!OpenContract, Contract!Succeeds
<1>2. CASE Close \/ Panic
  BY <1>2, BlankPcs, QuietEnd DEF Close, Panic, Rebalances, Runs, Forget, disk
<1>3. CASE CallStep \/ (\E r \in Requests : Invoke(r))
  <2>1. call.pc # "closed" BY <1>i, <1>3, OnlyOpenOpens
  <2>2. CASE StorageCall
    <3>1. todo # <<>> /\ Done(c) /\ UNCHANGED <<call, errors>>
      BY <2>2 DEF StorageCall, Perform
    <3>2. Contract!Call(d)
      BY <1>0, <2>1, <3>1, TreeCallsAreContractCalls DEF Contract!Call, Contract!Succeeds
    <3> QED BY <1>0, <3>1, <3>2, TreeCallsAreContractCalls DEF Contract!ContractNext
  <2>3. CASE NoStorageCall
    BY <2>1, <2>3, QuietStep DEF NoStorageCall, storage
  <2> QED BY <1>2, <1>3, <2>2, <2>3, OnlyStorageCallStores
<1>4. CASE StorageFails
  <2>0. errors' = errors + 1 BY <1>4 DEF StorageFails
  <2>1. CASE todo # <<>> /\ Interrupted(c)
    <3>1. CASE call'.pc # "closed"
      <4>1. (c.do = "save" /\ Done(c)) \/ NotDone(c) \/ HalfBroken(c)
        BY <2>1 DEF Interrupted, Perform
      <4>2. d.do = c.do BY DEF ContractCall
      <4>3. Contract!Call(d)
        BY <1>0, <2>0, <2>1, <3>1, <4>1, <4>2, TreeCallsAreContractCalls
           DEF Contract!Call, Contract!Broken, Contract!Fails
      <4> QED BY <1>0, <2>1, <4>3, TreeCallsAreContractCalls DEF Contract!ContractNext
    <3>2. CASE call'.pc = "closed" /\ NotDone(c)
      BY <1>0, <2>0, <2>1, <3>2, QuietEnd DEF NotDone
    <3>3. CASE call'.pc = "closed" /\ ~NotDone(c)
      <4>1. Done(c) \/ HalfDone(c)
        BY <2>1, <3>3 DEF Interrupted, Perform, HalfBroken
      <4>2. Contract!Dies(d)
        BY <1>0, <2>0, <2>1, <3>3, <4>1, TreeCallsAreContractCalls
           DEF Contract!Dies, Contract!Fails
      <4> QED BY <1>0, <2>1, <4>2, TreeCallsAreContractCalls DEF Contract!ContractNext
    <3> QED BY <3>1, <3>2, <3>3
  <2>2. CASE todo = <<>> /\ Loaded # {} /\ UNCHANGED storage
    BY <2>0, <2>2, ClosedLoadsNothing, ReadFails
  <2> QED BY <1>4, <2>1, <2>2 DEF StorageFails
<1>5. CASE Crash
  <2>1. call.pc # "closed" /\ call'.pc = "closed" /\ errors' = errors
    BY <1>5, BlankPcs DEF Crash, Forget
  <2>2. CASE UNCHANGED disk
    BY <2>1, <2>2, QuietEnd
  <2>3. CASE todo # <<>> /\ HalfDone(c)
    <3>1. Contract!Dies(d)
      BY <1>0, <2>1, <2>3, TreeCallsAreContractCalls DEF Contract!Dies, Contract!Succeeds
    <3> QED BY <1>0, <2>3, <3>1, TreeCallsAreContractCalls DEF Contract!ContractNext
  <2> QED BY <1>5, <2>2, <2>3 DEF Crash, PerformHalf
<1>6. CASE UNCHANGED vars
  BY <1>6 DEF vars, Contract!contractvars, Contract!storage
<1> QED BY <1>1, <1>2, <1>3, <1>4, <1>5, <1>6 DEF Next

(* Whatever the tree does and whatever fails, it uses its storage only as  *)
(* StorageContract says.  FileBlocks is checked to keep that contract, so  *)
(* the tree over the file system's steps can be read as the tree over      *)
(* whole calls.                                                            *)
THEOREM TreeKeepsContract == Spec => Contract!ContractSpec
<1>1. Init => InvIn(Usable) BY UsableInv
<1>2. InvIn(Usable) /\ [Next]_vars => InvIn(Usable)' BY UsableInv
<1>3. Init => Contract!ContractInit
  BY BlankPcs DEF Init, StorageInit, Contract!ContractInit, Contract!StorageInit, NewAllocator,
         Contract!NewAllocator, NewMetadata, Contract!NewMetadata, NewLeaf, Contract!NewLeaf
<1>4. InvIn(Usable) /\ [Next]_vars => [Contract!ContractNext]_(Contract!contractvars)
  BY NextKeepsContract
<1> QED BY <1>1, <1>2, <1>3, <1>4, PTL DEF Spec, Contract!ContractSpec
=============================================================================
