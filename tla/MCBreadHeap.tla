----------------------------- MODULE MCBreadHeap -----------------------------
(* BreadHeap with two containers, a string, one variable and two             *)
(* temporaries.                                                              *)
EXTENDS BreadHeap, TLC

CONSTANTS o1, o2, s1, v1, t1, t2

MCContainers == {o1, o2}
MCStrings    == {s1}
MCObjs       == MCContainers \cup MCStrings
MCVars       == {v1}
MCTemps      == {t1, t2}

Symmetry == Permutations(MCContainers) \cup Permutations(MCTemps)
=============================================================================
