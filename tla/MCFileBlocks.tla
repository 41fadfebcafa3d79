----------------------------- MODULE MCFileBlocks -----------------------------
(***************************************************************************)
(* The storage's steps for TLC: the client writes leaves of one entry, the *)
(* largest of which does not fit in a block.                               *)
(***************************************************************************)
EXTENDS FileBlocksRefinement

LeafOf(v)   == InsertLeaf(NewLeaf, 1, v)
MCContents  == { LeafOf(v) : v \in Val }
MCFreeLists == { ids \in [ 1..2 -> Ids ] : IsInjective(ids) }
MCOversized == { LeafOf(v) : v \in { x \in Val : x > 16 } }
=============================================================================
