----------------------------- MODULE BPTreeIntact -----------------------------
(***************************************************************************)
(* The invariant of the tree as long as nothing fails.  What a call has    *)
(* done so far is seen best when its outstanding storage calls are taken   *)
(* as made (Settled): then the handlers are the only steps, and each turns *)
(* one tree into another, except where an inner call has left something    *)
(* for its caller to do, a child that has been split or is too small, or   *)
(* where clear has taken a part of the tree away.                          *)
(***************************************************************************)
EXTENDS BPTreeProperties, TreeShape

Effect(B, c) ==
  IF c.do = "free" THEN [ b \in DOMAIN B \ {c.id} |-> B[b] ]
  ELSE [ b \in DOMAIN B \cup {c.id} |-> IF b = c.id THEN c.node ELSE B[b] ]

(* No handler leaves more than three storage calls to make.                *)
Settle(B, t) ==
  IF t = <<>> THEN B
  ELSE IF Len(t) = 1 THEN Effect(B, t[1])
  ELSE IF Len(t) = 2 THEN Effect(Effect(B, t[1]), t[2])
  ELSE Effect(Effect(Effect(B, t[1]), t[2]), t[3])

Settled == Settle(blocks, todo)

-----------------------------------------------------------------------------
(* The storage calls t, on the blocks B, will all succeed; fresh is the    *)
(* block that an allocation will return.                                   *)
Doable(B, fresh, t) ==
  /\ Len(t) <= 3
  /\ \A i \in DOMAIN t :
       /\ Len(t[i].node.keys) <= MaxKeys
       /\ t[i].do = "allocate" => i = 1 /\ t[i].id = fresh /\ t[i].node = NewLeaf
       /\ t[i].do = "free" =>
            t[i].id \in DOMAIN B /\ \A j \in DOMAIN t \ {i} : t[j].id # t[i].id
       /\ t[i].do = "save" =>
            \/ t[i].id \in DOMAIN B \cup {ROOT_ID}
            \/ i > 1 /\ t[1].do = "allocate" /\ t[1].id = t[i].id

Ready == /\ blocks = [ b \in DOMAIN blocks |-> blocks[b] ]
         /\ Doable(blocks, FreshBlock, todo)

(* Every id handed out has a file or is on the free list, once.            *)
Accounted ==
  /\ IsInjective(saved.free_blocks)
  /\ ToSet(saved.free_blocks) \cap (DOMAIN blocks \cup {ROOT_ID}) = {}
  /\ ToSet(saved.free_blocks) \cup DOMAIN blocks \cup {ROOT_ID} = 1..(saved.next_block_id - 1)

(* The handle's metadata is on disk or about to be.                        *)
SavesRoot(t) == \E i \in DOMAIN t : t[i].do = "save" /\ t[i].id = ROOT_ID

HeaderFollows ==
  call.pc \notin {"closed", "root_underflow"} => tree = header \/ SavesRoot(todo)

-----------------------------------------------------------------------------
(* The path from the root: each frame's node leads to the next one.        *)
Child(f) == f.node.child_ids[f.idx]

Target(stack) == IF stack = <<>> THEN ROOT_ID ELSE Child(Last(stack))

OnPath(B, s, stack) ==
  \A j \in DOMAIN stack :
    /\ stack[j].id \in DOMAIN B
    /\ stack[j].id = IF j = 1 THEN ROOT_ID ELSE Child(stack[j-1])
    /\ s.ht[stack[j].id] + j = s.ht[ROOT_ID] + 1

Fresh(B, stack) == \A j \in DOMAIN stack : B[stack[j].id] = stack[j].node

InRange(s, b, k) == AtLeast(s.lo[b], k) /\ Below(k, s.hi[b])

(* Every node has its share of keys, but that one may be one key short.    *)
Sized(B, short) ==
  \A b \in DOMAIN B :
    /\ Len(B[b].keys) <= MaxKeys
    /\ b # ROOT_ID => Len(B[b].keys) >= IF b = short THEN MinKeys - 1 ELSE MinKeys

RootSized(B) == IsInternal(B[ROOT_ID]) => B[ROOT_ID].keys # <<>>

WholeTree(B, s) == Tree(B, s, ROOT_ID) /\ Sized(B, NoBlock) /\ RootSized(B)

-----------------------------------------------------------------------------
(* Where the call c may be, and what it finds there: the blocks S, whose   *)
(* places in the tree are s.                                               *)

Resting == {"closed", "opening", "idle", "start", "return"}

AtRest(c, exists, S, s) ==
  /\ c.stack = <<>> /\ c.outcome = "NoChange"
  /\ exists => WholeTree(S, s)
  /\ ~exists => DOMAIN S \subseteq {ROOT_ID}
  /\ ~exists /\ c.pc # "closed" => ROOT_ID \in DOMAIN S

ByKey == {"get", "upsert", "update", "delete", "delete_safe"}

Searching(c, S, s) ==
  /\ WholeTree(S, s) /\ c.outcome = "NoChange"
  /\ OnPath(S, s, c.stack) /\ Fresh(S, c.stack)
  /\ c.at = Target(c.stack)
  /\ c.req.op \in ByKey => InRange(s, c.at, c.req.key)

Scanning(c, S, s) ==
  /\ WholeTree(S, s)
  /\ c.stack = <<>> /\ c.outcome = "NoChange"
  /\ c.at \in DOMAIN S /\ s.ht[c.at] = 0

(* The node x of the tree U has been cut in two, x and q, at the key k.    *)
CutAt(S, s, U, x, q, k) ==
  /\ x \in DOMAIN U /\ q \in Allotted \ DOMAIN U
  /\ DOMAIN S = DOMAIN U \cup {q}
  /\ \A b \in DOMAIN U \ {x} : S[b] = U[b]
  /\ Halves(U[x], S[x], S[q], k) /\ (IsLeaf(U[x]) => S[x].next_leaf = q)
  /\ k \in Key /\ Above(s.lo[x], k) /\ Below(k, s.hi[x])

(* ... and its parent is not aware of it.                                  *)
Splitting(c, S, s, U) ==
  /\ Tree(U, s, ROOT_ID)
  /\ CutAt(S, s, U, Target(c.stack), c.split.id, c.split.key)
  /\ Sized(S, NoBlock) /\ Len(S[Target(c.stack)].keys) >= MinKeys
  /\ c.stack # <<>> => RootSized(S)
  /\ OnPath(U, s, c.stack) /\ Fresh(U, c.stack)

Inserting(c, S, s, U) ==
  /\ c.outcome = "NoChange"
  /\ c.split = NoSplit => WholeTree(S, s) /\ c.stack = <<>>
  /\ c.split # NoSplit => Splitting(c, S, s, U)

(* A child has lost a key, and its parent may have to make up for it.      *)
Short(c) == IF c.outcome = "Underflow" THEN Target(c.stack) ELSE NoBlock

Deleting(c, S, s) ==
  /\ Tree(S, s, ROOT_ID) /\ Sized(S, Short(c))
  /\ OnPath(S, s, c.stack) /\ Fresh(S, c.stack)
  /\ MinKeys = 0 \/ c.stack # <<>> \/ c.outcome = "NoChange" => RootSized(S)
  /\ c.outcome = "Underflow" => c.stack # <<>> /\ Len(S[Target(c.stack)].keys) < MinKeys

(* The child has been made up for, at its parent's expense.                *)
Rebalanced(c, S, s) ==
  /\ Tree(S, s, ROOT_ID) /\ MinKeys > 0
  /\ c.stack # <<>>
  /\ Sized(S, Last(c.stack).id)
  /\ OnPath(S, s, c.stack) /\ Fresh(S, Front(c.stack))
  /\ Len(c.stack) > 1 => RootSized(S)

Counted(c, S, s) ==
  /\ Tree(S, s, ROOT_ID) /\ Sized(S, NoBlock) /\ c.stack = <<>>
  /\ MinKeys = 0 => RootSized(S)

(* Of the tree U that clear has found, the blocks before the path are gone *)
(* and the ones on it and after it are there.                              *)
Ahead(c, b, i) ==
  /\ \A j \in DOMAIN c.stack : c.stack[j].id = b =>
       \/ i > c.stack[j].idx
       \/ i = c.stack[j].idx /\ (j < Len(c.stack) \/ c.pc = "clear")
  /\ c.stack = <<>> => b # ROOT_ID \/ c.pc = "clear"

Clearing(c, S, s, U) ==
  /\ Tree(U, s, ROOT_ID)
  /\ DOMAIN S \subseteq DOMAIN U /\ ROOT_ID \in DOMAIN S
  /\ \A b \in DOMAIN S : S[b] = U[b] /\ Len(S[b].keys) <= MaxKeys
  /\ OnPath(U, s, c.stack) /\ Fresh(S, c.stack)
  /\ \A j \in DOMAIN c.stack : c.stack[j].id \in DOMAIN S
  /\ c.pc = "clear" => c.at = Target(c.stack) /\ c.at \in DOMAIN S
  /\ \A b \in DOMAIN U : \A i \in DOMAIN U[b].child_ids :
       U[b].child_ids[i] \in DOMAIN S <=> b \in DOMAIN S /\ Ahead(c, b, i)

Place(c, exists, S, s, U) ==
  /\ c.pc \notin {"rollback", "rolled_back"}
  /\ c.pc \in Resting => AtRest(c, exists, S, s)
  /\ c.pc \notin Resting => exists
  /\ c.pc = "descend" => Searching(c, S, s)
  /\ c.pc = "scan" => Scanning(c, S, s)
  /\ c.pc = "insert_up" => Inserting(c, S, s, U)
  /\ c.pc = "delete_up" => Deleting(c, S, s)
  /\ c.pc = "reload" => Rebalanced(c, S, s)
  /\ c.pc = "root_underflow" => Counted(c, S, s)
  /\ c.pc \in {"clear", "clear_up"} => Clearing(c, S, s, U)

Exists == IF call.pc = "closed" THEN header.root_exists ELSE tree.root_exists

InPlace == \E s, U : Place(call, Exists, Settled, s, U)

(* No node with at most max_keys_per_node keys is longer than a block:     *)
(* what estimate_max_keys is for, and achieves where no entry is encoded   *)
(* in more than its share (FullNodeFits).                                  *)
FullFits == \A id \in BlockId, n \in WellShaped : Len(n.keys) <= MaxKeys => Fits(id, n)

Intact == NoFaults => Ready /\ Accounted /\ HeaderFollows /\ InPlace
=============================================================================
