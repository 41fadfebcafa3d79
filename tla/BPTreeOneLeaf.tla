----------------------------- MODULE BPTreeOneLeaf -----------------------------
(***************************************************************************)
(* The invariant of a tree that has never had but one leaf, with at most   *)
(* one failure.  Such a tree is block 1: a call that changes it writes it  *)
(* once, and its header once more.                                         *)
(***************************************************************************)
EXTENDS BPTreeMap

(* A leaf with one entry is not longer than block 1: without this an       *)
(* upsert into an empty tree may be refused, and the handle would have an  *)
(* entry that is in no block.                                              *)
OneEntryFits == \A n \in WellShaped : IsLeaf(n) /\ Len(n.keys) <= 1 => Fits(ROOT_ID, n)

Root == blocks[ROOT_ID]

(* What is in a leaf, and what a client sees of a tree that has it.        *)
Held(n) == [ k \in { x \in Key : Get(n, x) # None } |-> Get(n, k) ]

View(exists, n) == IF exists THEN Held(n) ELSE Nothing

-----------------------------------------------------------------------------
(* Where a call may be.                                                    *)
Away    == {"closed", "opening"}
Waiting == Away \cup {"idle"}
InTree  == {"descend", "insert_up", "delete_up", "root_underflow", "clear", "clear_up"}
Undoing == {"rollback", "rolled_back"}
Writing == {"insert_up", "delete_up"}

Lonely(n) == IsLeaf(n) /\ Ordered(n.keys) /\ n.next_leaf = NoBlock

(* The first step out of a single leaf is an allocation.                   *)
Splits == call.pc = "insert_up" /\ call.split # NoSplit

WritesRoot(c) ==
  /\ c.do = "save" /\ c.id = ROOT_ID /\ Lonely(c.node)
  /\ call.pc \notin Writing => Fits(ROOT_ID, c.node)
  /\ ~tree.root_exists => c.node.keys = <<>>

LeafStored ==
  /\ freeList = <<>> /\ saved.free_blocks = <<>>
  /\ ROOT_ID \in DOMAIN blocks => Lonely(Root) /\ Fits(ROOT_ID, Root)
  /\ header.root_exists => ROOT_ID \in DOMAIN blocks
  /\ ~header.root_exists /\ ROOT_ID \in DOMAIN blocks => Root.keys = <<>>

LeafVisited ==
  /\ call.stack = <<>> /\ call.outcome # "Underflow" /\ call.pc \notin {"scan", "reload"}
  /\ call.pc \in {"descend", "clear"} => call.at = ROOT_ID
  /\ call.pc \in {"clear", "clear_up"} => call.req.op = "clear"
  /\ call.pc = "start" => call.orig = tree
  /\ call.pc \in InTree => tree.root_exists
  /\ call.pc \in InTree \cup Undoing => call.orig.root_exists
  /\ call.pc = "opening" => ~tree.root_exists /\ ~header.root_exists
  /\ call.pc = "return" /\ todo # <<>> /\ call.req.op = "delete_safe" => call.orig.root_exists

LeafWritten ==
  /\ todo # <<>> => call.pc \in Writing \cup {"opening", "return", "rolled_back"}
  /\ IF Splits THEN todo # <<>> /\ Head(todo).do = "allocate"
               ELSE \A i \in DOMAIN todo : WritesRoot(todo[i])

Alone == LeafStored /\ LeafVisited /\ LeafWritten

-----------------------------------------------------------------------------
(* What the tree holds: what it held before the call or what the call      *)
(* makes of it, at every step of the call that something may fail at.      *)
Outcomes == {before, After(before, last)}

Shows == View(tree.root_exists, Root)

Remembering ==
  /\ call.pc \notin Waiting => last = call.req /\ last # NoRequest
  /\ last # NoRequest => ROOT_ID \in DOMAIN blocks
  /\ call.pc = "opening" => last = NoRequest

HandleRight ==
  /\ last # NoRequest /\ call.pc \notin Away /\ (NoFaults \/ call.pc # "return") =>
       Shows \in Outcomes
  /\ call.pc \in {"start", "descend"} => Shows = before
  /\ call.pc \notin Waiting /\ ~Splits =>
       \A i \in DOMAIN todo : View(tree.root_exists, todo[i].node) \in Outcomes

DiskRight ==
  /\ last # NoRequest /\ (NoFaults \/ call.pc \in Waiting \cup Undoing) =>
       Held(Root) \in Outcomes
  /\ NoFaults /\ call.pc # "closed" /\ (todo = <<>> \/ call.pc # "return") =>
       tree.root_exists = header.root_exists
  /\ NoFaults /\ call.pc \in Undoing => tree.root_exists

AllOrNothing == Remembering /\ HandleRight /\ DiskRight

-----------------------------------------------------------------------------
(* The count: exact as long as nothing has failed, but in the middle of a  *)
(* call, and off by one at most afterwards.                                *)
Near(c, n, slack) == \E d \in slack : c = (n + d) % CountWidth

ByOne == {-1, 0, 1}
Slack == IF NoFaults THEN {0} ELSE ByOne

Size(n) == Len(n.keys)

(* What the call has put in or taken out and not yet counted.              *)
Uncounted ==
  IF call.pc = "insert_up" /\ call.req.op = "upsert" /\ call.answer = None THEN 1
  ELSE IF call.pc = "delete_up" /\ call.outcome # "NoChange" THEN -1 ELSE 0

(* The handle's count is that of the leaf that is to be written, if there  *)
(* is one; the call writes once before it counts.                          *)
HandleCounts ==
  /\ tree.root_exists /\ call.pc \notin Away \cup Writing \cup {"rollback"} =>
       /\ todo = <<>> => Near(tree.entry_count, Size(Root), Slack)
       /\ \A i \in DOMAIN todo : Near(tree.entry_count, Size(todo[i].node), Slack)
  /\ call.pc \in Writing =>
       /\ todo = <<>> => Near(tree.entry_count, Size(Root) - Uncounted, Slack)
       /\ todo # <<>> => Near(tree.entry_count, Size(Root), Slack)
       /\ ~Splits => \A i \in DOMAIN todo :
            i = 1 /\ Near(tree.entry_count, Size(todo[i].node) - Uncounted, Slack)
  /\ NoFaults /\ tree.root_exists /\ call.pc \notin Away =>
       Near(tree.entry_count, Size(Root), ByOne)

(* The header has the count of the handle from the call's first write on.  *)
HeaderStays ==
  \/ call.pc \notin Writing \cup {"opening", "root_underflow", "return"}
  \/ call.pc \in Writing /\ todo # <<>>
  \/ call.pc = "delete_up" /\ call.outcome = "NoChange"
  \/ call.pc = "return" /\ todo = <<>>

HeaderCounts ==
  /\ header.root_exists /\ HeaderStays => Near(header.entry_count, Size(Root), Slack)
  /\ header.root_exists /\ NoFaults => Near(header.entry_count, Size(Root), ByOne)

(* What delete_safe would put back.                                        *)
RollbackCounts ==
  /\ call.pc \in {"start", "descend"} => call.outcome = "NoChange"
  /\ call.pc \in Undoing => call.req.op = "delete_safe"
  /\ call.req.op = "delete_safe" =>
       /\ call.pc # "insert_up"
       /\ call.pc \in {"start", "descend", "delete_up"} => call.orig = tree
       /\ call.pc = "rollback" => Near(call.orig.entry_count, Size(Root), Slack)
       /\ NoFaults /\ call.orig.root_exists =>
            /\ Near(call.orig.entry_count, Size(Root), ByOne)
            /\ \A i \in DOMAIN todo : Near(call.orig.entry_count, Size(todo[i].node), ByOne)

Counting == HandleCounts /\ HeaderCounts /\ RollbackCounts

-----------------------------------------------------------------------------
(* Ids are not handed out twice over: once the tree has a second block,    *)
(* metadata.bin says so for ever.                                          *)
Onward ==
  /\ call.pc # "closed" => nextId >= saved.next_block_id
  /\ IsFiniteSet(DOMAIN blocks)

OneLeafKept ==
  /\ Onward
  /\ saved.next_block_id = 2 =>
       Alone /\ (errors + crashes <= 1 => AllOrNothing /\ Counting)
=============================================================================
