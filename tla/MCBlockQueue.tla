---------------------------- MODULE MCBlockQueue ----------------------------
(* u1 keeps up to three blocks in its queue; u2 only has a block of its own *)
(* from the same allocator.                                                 *)
EXTENDS BlockQueue

CONSTANTS u1, u2

MCUsers == {u1, u2}
MCMaxBlocks == [u \in MCUsers |-> IF u = u1 THEN 3 ELSE 0]
=============================================================================
