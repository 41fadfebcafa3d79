------------------------------ MODULE MCScripted ------------------------------
(***************************************************************************)
(* Trees for TLC that a client reaches by the calls of a script.  It makes *)
(* them first, then calls of its own choice, of those the script allows.   *)
(* Every behaviour is one of MCBPTree's specification.                     *)
(***************************************************************************)
EXTENDS MCBPTree

CONSTANTS Scripts      \* one of which is followed

VARIABLES
  script,       \* the one of this behaviour
  calls         \* how many calls were made, as far as they are counted

Upserts(keys) == [ i \in DOMAIN keys |-> [ op |-> "upsert", key |-> keys[i], val |-> keys[i] ] ]
Deletes(keys) == [ i \in DOMAIN keys |-> [ op |-> "delete", key |-> keys[i] ] ]
UpTo(n)       == [ i \in 1..n |-> i ]

(* After the calls of a script, at most "more" calls out of "then"; any    *)
(* number when they are not counted.  The first "calm" calls do not fail.  *)
Script(first, then, more) ==
  [ first |-> first, calm |-> 0, then |-> then, more |-> more, counted |-> TRUE ]
Endless(then) == [ first |-> <<>>, calm |-> 0, then |-> then, more |-> 0, counted |-> FALSE ]
Shaken(calm, one, first) ==
  [ first |-> calm \o one \o first, calm |-> Len(calm), then |-> {}, more |-> 0,
    counted |-> TRUE ]

ClearShaken(n, first) == Shaken(Upserts(UpTo(n)), << [ op |-> "clear" ] >>, first)

(* Requests whose values are light, and on the keys up to n.               *)
Light(n) == { r \in Requests : /\ r.op # "clear" => r.key \in 1..n
                               /\ r.op \in {"upsert", "update"} => ~IsHeavy(r.val) }

OnKeys(n) == { r \in Requests : r.op # "clear" => r.key \in 1..n }

(* For MaxKeys = 3.  Two leaves of one key each, which a delete will       *)
(* merge.                                                                  *)
TwoThinLeaves == Upserts(UpTo(4)) \o Deletes(<<4, 3>>)

(* Three levels.  The left inner node is down to one key, so that the two  *)
(* inner nodes can merge.                                                  *)
TallThin == Upserts(UpTo(10)) \o Deletes(<<1, 2, 3>>)

(* Three levels, and the right inner node has keys to lend to the left.    *)
TallRight == Upserts(UpTo(12)) \o Deletes(<<1, 2, 3, 5>>)

(* When a crash cuts the clear short, blocks it has freed are still in the *)
(* tree, and come back as other nodes.                                     *)
TornClear == Upserts(UpTo(8)) \o << [ op |-> "clear" ] >>
             \o Upserts(<<9, 10, 3>>) \o Deletes(<<9, 10, 6, 3>>)

(* The same, so that an underflowing leaf lies beside an inner node that   *)
(* has keys to lend: on its left, where the borrow goes wrong quietly, or  *)
(* on its right, where it panics.                                          *)
TornClearBorrow == Upserts(<<9, 10, 11, 12, 3>>) \o Deletes(<<9, 10, 3>>)
TornClearPanic  == Upserts(<<12, 11>>) \o Deletes(<<12>>)
                   \o Upserts(<<6>>) \o Deletes(<<11, 6>>)

(* The same, so that two leaves end up as each other's successors.         *)
TornClearScan == Upserts(UpTo(8)) \o << [ op |-> "clear" ] >>
                 \o Upserts(<<9, 10>>) \o Deletes(<<10, 5, 6>>)

(* Four levels.  The delete in the middle merges two inner nodes above the *)
(* leaves; if it fails before their parent is saved, the parent leads to a *)
(* block that is free, and the calls after it make that block the parent's *)
(* own right half.                                                         *)
FourLevels ==
  Upserts(<<21, 31, 13, 17, 26, 1, 11, 33, 22, 5, 25, 18, 3, 28, 24, 34, 23, 6, 27, 30, 2,
            32, 9, 8, 29, 15, 12, 10, 7>>)
  \o Deletes(<<22, 28>>) \o Upserts(<<4>>) \o Deletes(<<4, 25, 7, 2, 23>>)

Entangled ==
  Deletes(<<26, 3, 1, 6>>) \o Upserts(<<19, 16, 14, 20>>) \o Deletes(<<5, 19, 20>>)

(* For MaxKeys = 5: two leaves of three keys.                              *)
TwoLeaves == Upserts(UpTo(6))

Tall      == { Script(s, Requests, 3) : s \in {TallThin, TallRight} }
Faulty    == { Script(TwoThinLeaves, { r \in Light(5) : r.op \in {"upsert", "delete_safe"} }, 3),
               Script(TwoThinLeaves, { r \in Light(3) : r.op \in {"upsert", "delete", "clear"} }, 4),
               Script(TornClear, {}, 0),
               ClearShaken(8, TornClearBorrow), ClearShaken(10, TornClearPanic),
               Endless(OnKeys(3)) }
Deep      == { Shaken(FourLevels, << [ op |-> "delete_safe", key |-> 24 ] >>, Entangled) }
TornChain == { Script(TornClearScan, {}, 0) }
TornKinds == { ClearShaken(8, TornClearBorrow) }
Wide      == { Script(TwoLeaves, Requests, 4) }

scriptvars == <<allvars, script, calls>>

ScriptInit == MCInit /\ script \in Scripts /\ calls = 0

Chosen(r) ==
  IF calls < Len(script.first) THEN r = script.first[calls + 1] ELSE r \in script.then

ScriptNext ==
  /\ MCNext
  /\ Begins => Chosen(call'.req)
  /\ calls' = IF Begins /\ script.counted THEN calls + 1 ELSE calls
  /\ calls' <= Len(script.first) + script.more
  /\ errors' + crashes' > errors + crashes => calls > script.calm \/ script.calm = 0
  /\ UNCHANGED script

ScriptSpec == ScriptInit /\ [][ScriptNext]_scriptvars

ScriptFairSpec == ScriptSpec /\ WF_scriptvars(ScriptNext /\ CallStep)
=============================================================================
