----------------------------- MODULE MCBootUtil -----------------------------
(* Instances of BootUtil: areas of two units, headers of one.  An image of an *)
(* odd size fills whole areas together with its header; one of an even size  *)
(* needs, for its header, an area more than its size alone does.             *)
EXTENDS BootUtil

MCAligned == {<<a, b>> : a \in {1, 3, 5}, b \in {1, 3, 5}}
MCTwoAreas == {<<3, 3>>}
MCBoth == {{0, 1}}
MCAnyLayout == SUBSET (0..1)
=============================================================================
