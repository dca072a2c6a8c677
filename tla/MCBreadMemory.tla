---------------------------- MODULE MCBreadMemory ----------------------------
(* BreadMemory with two chunks of two blocks, two malloc'd addresses and     *)
(* object sizes on both sides of the block size.                             *)
EXTENDS BreadMemory, TLC

CONSTANTS h1, h2

MCHeapAddrs  == {h1, h2}
MCThresholds == {-1, 1, 12}

Symmetry == Permutations(MCHeapAddrs)
=============================================================================
