------------------------------ MODULE OrderedMap ------------------------------
(***************************************************************************)
(* What the tree promises its caller: a map from keys to values, on which  *)
(* every call takes effect at one instant between its invocation and its   *)
(* return.  It is the BTreeMap that src/src/bin/madsim_test.rs keeps       *)
(* beside the tree, with the answers of the public methods of BPTree.      *)
(***************************************************************************)
EXTENDS Integers, Sequences, FiniteSets

CONSTANTS Key, Val, None,
          Requests      \* the calls a client may make, see BPTree

NoRequest == [ op |-> "none" ]

VARIABLES
  kv,         \* the map: a function whose domain is the set of stored keys
  pending,    \* the call being executed, or NoRequest
  done,       \* has it taken effect?
  answer      \* what it will return

vars == <<kv, pending, done, answer>>

-----------------------------------------------------------------------------
Lookup(k) == IF k \in DOMAIN kv THEN kv[k] ELSE None

Put(k, v) == [ x \in DOMAIN kv \cup {k} |-> IF x = k THEN v ELSE kv[x] ]

(* RangeBounds::contains *)
InRange(k, r) ==
  /\ CASE r.start.kind = "Included" -> r.start.key <= k
       [] r.start.kind = "Excluded" -> r.start.key < k
       [] OTHER -> TRUE
  /\ CASE r.end.kind = "Included" -> k <= r.end.key
       [] r.end.kind = "Excluded" -> k < r.end.key
       [] OTHER -> TRUE

(* The ways, there is one, to put the elements of a set in order.          *)
Ascending(S) ==
  { s \in [1..Cardinality(S) -> S] : \A i, j \in DOMAIN s : i < j => s[i] < s[j] }

Init ==
  /\ kv = [ k \in {} |-> None ]
  /\ pending = NoRequest
  /\ done = FALSE
  /\ answer = None

Invoke(r) ==
  /\ pending = NoRequest
  /\ pending' = r
  /\ UNCHANGED <<kv, done, answer>>

(* The instant at which the pending call takes effect.                     *)
Perform ==
  /\ pending # NoRequest /\ ~done
  /\ done' = TRUE
  /\ UNCHANGED pending
  /\ \/ /\ pending.op = "upsert"
        /\ answer' = Lookup(pending.key)
        /\ kv' = Put(pending.key, pending.val)
     \/ /\ pending.op = "update"
        /\ answer' = Lookup(pending.key)
        /\ kv' = IF pending.key \in DOMAIN kv THEN Put(pending.key, pending.val) ELSE kv
     \/ /\ pending.op \in {"delete", "delete_safe"}
        /\ answer' = Lookup(pending.key)
        /\ kv' = [ k \in DOMAIN kv \ {pending.key} |-> kv[k] ]
     \/ /\ pending.op = "clear"
        /\ answer' = None
        /\ kv' = [ k \in {} |-> None ]
     \/ /\ pending.op = "get"
        /\ answer' = Lookup(pending.key)
        /\ UNCHANGED kv
     \/ /\ pending.op = "range"
        /\ \E ks \in Ascending({ k \in DOMAIN kv : InRange(k, pending) }) :
             answer' = [ i \in DOMAIN ks |-> <<ks[i], kv[ks[i]]>> ]
        /\ UNCHANGED kv

Return ==
  /\ done
  /\ pending' = NoRequest /\ done' = FALSE /\ answer' = None
  /\ UNCHANGED kv

Next == (\E r \in Requests : Invoke(r)) \/ Perform \/ Return

SafeSpec == Init /\ [][Next]_vars

Spec == SafeSpec /\ WF_vars(Perform) /\ WF_vars(Return)
=============================================================================
