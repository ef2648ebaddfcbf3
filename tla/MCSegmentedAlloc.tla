-------------------------- MODULE MCSegmentedAlloc --------------------------
(***************************************************************************)
(* Two size classes and slabs of two blocks; requests of the small class,  *)
(* below the threshold of four bytes, at it and above it.                  *)
(***************************************************************************)
EXTENDS SegmentedAlloc, TLC

CONSTANTS c1, c2, c3

ThreeCarriers == {c1, c2, c3}
TwoClasses == <<2, 4>>
FirstSlabs == <<c1, c2>>
Symmetric == Permutations(Thread) \cup Permutations(Region)
=============================================================================
