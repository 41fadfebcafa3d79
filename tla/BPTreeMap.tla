------------------------------- MODULE BPTreeMap -------------------------------
(***************************************************************************)
(* The invariant that makes the tree an ordered map, as long as nothing    *)
(* fails.  The entries of all leaves, with the outstanding storage calls   *)
(* taken as made, are at any time those of one map: the map that the call  *)
(* has found until the step that changes a leaf, and what the call makes   *)
(* of it from that step on.                                                *)
(***************************************************************************)
EXTENDS BPTreeIntact, BPTreeRefinement

IsMap(m) == DOMAIN m \subseteq Key /\ m \in [ DOMAIN m -> Val ]

(* The entries of the blocks B, which have a root or not, are those of m.  *)
Agrees(m, B, exists) ==
  IF exists THEN \A k \in Key, v \in Val : Stores(B, k, v) <=> k \in DOMAIN m /\ m[k] = v
  ELSE m = Nothing

ValueOf(m, k) == IF k \in DOMAIN m THEN m[k] ELSE None

(* The entries of m with keys in P that the range r asks for, in the order *)
(* of the keys.                                                            *)
Asked(r, k) == Map!InRange(k, r)

Lists(r, entries, m, P) ==
  /\ ToSet(entries) = { <<k, m[k]>> : k \in { x \in DOMAIN m \cap P : Asked(r, x) } }
  /\ \A i, j \in DOMAIN entries : i < j => entries[i][1] < entries[j][1]

-----------------------------------------------------------------------------
(* What is so of the call c, which found the map m, when the blocks are B  *)
(* and have a root or not.                                                 *)
Outside  == {"closed", "opening", "idle"}
Searches == {"start", "descend", "scan"}
Clears   == {"clear", "clear_up"}
Deletes  == {"delete_up", "reload", "root_underflow"}
Results  == Deletes \cup {"insert_up", "return"}

(* Which calls come where.                                                 *)
Asking(c) ==
  /\ c.req = NoRequest <=> c.pc \in Outside
  /\ c.pc = "scan" => c.req.op = "range"
  /\ c.pc = "insert_up" => c.req.op \in {"upsert", "update"}
  /\ c.pc \in Deletes => c.req.op \in {"delete", "delete_safe"}
  /\ c.pc \in Clears => c.req.op = "clear"

Contents(c, m, B, exists) ==
  /\ c.pc \notin Outside => IsMap(m)
  /\ c.pc \in Searches => Agrees(m, B, exists)
  /\ c.pc \in Results => Agrees(After(m, c.req), B, exists)

(* A range begins at the leaf where its first key would be, and has listed *)
(* all keys below the ones that the leaf it has come to may have.          *)
Begun(c, B, s) ==
  /\ Tree(B, s, ROOT_ID) /\ c.at \in DOMAIN B
  /\ IF c.req.start.kind = "Unbounded" THEN s.lo[c.at] = {}
     ELSE AtLeast(s.lo[c.at], c.req.start.key)

Before(lo) == { k \in Key : ~AtLeast(lo, k) }

Listed(c, m, B, s) ==
  /\ Tree(B, s, ROOT_ID) /\ c.at \in DOMAIN B /\ s.ht[c.at] = 0
  /\ Lists(c.req, c.answer, m, Before(s.lo[c.at]))

RightAnswer(r, a, m) ==
  /\ r.op \in ByKey => a = ValueOf(m, r.key)
  /\ r.op = "range" => a \in Entries /\ Lists(r, a, m, Key)
  /\ r.op = "clear" => a = None

Answers(c, m, B) ==
  /\ c.pc \in {"start", "descend"} => c.answer = IF c.req.op = "range" THEN <<>> ELSE None
  /\ c.pc = "descend" /\ c.req.op = "range" => \E s : Begun(c, B, s)
  /\ c.pc = "scan" => \E s : Listed(c, m, B, s)
  /\ c.pc = "delete_up" /\ c.outcome = "NoChange" => c.answer = None
  /\ c.pc \in Results => RightAnswer(c.req, c.answer, m)

(* A directory without a tree says so.                                     *)
Unopened == call.pc = "opening" => ~header.root_exists /\ ~tree.root_exists

Kept ==
  /\ Asking(call)
  /\ Contents(call, before, Settled, tree.root_exists)
  /\ Answers(call, before, Settled)
  /\ Unopened

MapKept == NoFaults => Kept

-----------------------------------------------------------------------------
(* The count of the entries.  It is that of the map that the call found    *)
(* until the call has counted what it put in or took out, which is after   *)
(* the leaf and its ancestors have been changed.                           *)
Tallied ==
  IF call.pc \in Outside THEN Visible
  ELSE IF call.pc \in {"root_underflow", "return"} THEN After(before, call.req)
  ELSE before

Tally == IF call.pc = "closed" THEN header.entry_count ELSE tree.entry_count

SizeIs(m, n) == IsFiniteSet(DOMAIN m) /\ n = Cardinality(DOMAIN m) % CountWidth

CountKept ==
  /\ call.pc \notin Clears => SizeIs(Tallied, Tally)
  /\ call.pc = "reload" \/ (call.pc = "delete_up" /\ call.outcome # "NoChange") =>
       call.answer # None

TallyKept == NoFaults => CountKept

(* As long as no node but the root may be empty, a tree has entries, but   *)
(* for the instant before its root is dropped.                             *)
Occupied ==
  Exists /\ call.pc \notin Clears \cup {"root_underflow"} => DOMAIN Tallied # {}

RootedKept == NoFaults /\ MinKeys > 0 => Occupied

(* Fewer entries than the count can tell, so that it is not 0 by having    *)
(* wrapped around.                                                         *)
FewEntries == Cardinality(DOMAIN Visible) < CountWidth
=============================================================================
