--------------------------- MODULE BPTreeRefinement ---------------------------
(***************************************************************************)
(* The tree of BPTree implements the map of OrderedMap.  A call takes      *)
(* effect when its last storage call is made; until then the map is the    *)
(* one the tree held when the call began, remembered in the history        *)
(* variable before.                                                        *)
(***************************************************************************)
EXTENDS BPTreeProperties

VARIABLES
  before,     \* the contents when the running, or interrupted, call began
  last        \* that call, until it returns

Holds(exists) ==
  IF exists THEN [ k \in { x \in Key : Found(x) # None } |-> Found(k) ]
            ELSE [ k \in {} |-> None ]

(* What a client sees: through its handle or, without one, after opening.  *)
Visible == Holds(IF call.pc \in {"closed", "opening"} THEN header.root_exists
                                                      ELSE tree.root_exists)

Nothing == [ k \in {} |-> None ]

Begins  == call.pc = "idle" /\ call'.pc = "start"
Returns == call.pc = "return" /\ todo = <<>> /\ call'.pc = "idle"

HistoryInit == before = Nothing /\ last = NoRequest

HistoryNext ==
  /\ before' = IF Begins THEN Visible ELSE IF Returns THEN Nothing ELSE before
  /\ last' = IF Begins THEN call'.req ELSE IF Returns THEN NoRequest ELSE last

allvars == <<vars, before, last>>

HistorySpec == Init /\ HistoryInit /\ [][Next /\ HistoryNext]_allvars

-----------------------------------------------------------------------------
Effective == call.pc = "return" /\ todo = <<>>

Map == INSTANCE OrderedMap WITH
         pending <- call.req,
         done    <- Effective,
         kv      <- IF call.req = NoRequest \/ Effective THEN Visible ELSE before,
         answer  <- IF Effective THEN call.answer ELSE None

(* Every call answers what the map answers and leaves what the map leaves, *)
(* whatever splitting, borrowing, merging and closing went on.             *)
ActsAsOrderedMap == Map!SafeSpec

(* So it does, and every call that is awaited takes effect and returns.    *)
ImplementsOrderedMap == Map!Spec

-----------------------------------------------------------------------------
(* What a call makes of the value stored under a key.                      *)
ValueAfter(m, r, k) ==
  LET old == IF k \in DOMAIN m THEN m[k] ELSE None
  IN IF r.op = "clear" THEN None
     ELSE IF r.op \in {"get", "range", "none"} THEN old
     ELSE IF r.key # k THEN old
     ELSE IF r.op \in {"delete", "delete_safe"} THEN None
     ELSE IF r.op = "update" /\ old = None THEN None
     ELSE r.val

After(m, r) ==
  [ k \in { x \in Key : ValueAfter(m, r, x) # None } |-> ValueAfter(m, r, k) ]

(* A call that was interrupted has had all of its effect or none: what is  *)
(* found afterwards, in this handle or by opening the tree again, is what  *)
(* the tree held before the call or what the call makes of it.  It is said *)
(* of one failure: a second one finds a tree the first may have damaged.   *)
Durable ==
  call.pc \in {"idle", "closed"} /\ last # NoRequest /\ errors + crashes <= 1 =>
    Visible \in {before, After(before, last)}

(* That is so as long as the tree has never had but one leaf.              *)
OneLeafDurable == saved.next_block_id = 2 => Durable
=============================================================================
