---------------------------- MODULE MCBreadBlocks ----------------------------
(* BreadBlocks with two names, two values that are no loop counter, and up   *)
(* to two blocks, loops or calls open inside the program.                    *)
EXTENDS BreadBlocks, TLC

CONSTANTS x, y

MCNames  == {x, y}
MCTypes  == {"Int"}
MCValues == {Number("Int", 10), Number("Int", 12)}

Symmetry == Permutations(MCNames)
=============================================================================
