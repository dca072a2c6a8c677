---------------------------- MODULE MCBreadScopes ----------------------------
(* BreadScopes with two names, two scopes of up to two variables, and        *)
(* values of three types.  The Double is one and a half.                     *)
EXTENDS BreadScopes, TLC

CONSTANTS x, y, instance

MCNames  == {x, y}
MCTypes  == {"Nil", "Int", "Optional", "Struct"}
MCValues == {Number("Int", 2), Number("Double", 3), Object("Class", instance)}

Symmetry == Permutations(MCNames)
=============================================================================
