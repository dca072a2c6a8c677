----------------------------- MODULE MCBreadDict -----------------------------
(* BreadDict with three string keys and one integer key, and values of two   *)
(* types.  A table that starts with two slots and cannot be grown gets full. *)
(* Under the first of the hashes no table of four or more slots has a        *)
(* collision; under the other the keys k1, k2, k4 have the same home slot,   *)
(* the last one of a table of four, and k3 the one behind it.                *)
EXTENDS BreadDict, TLC

CONSTANTS k1, k2, k3, k4, a, b, c

MCKeys      == {k1, k2, k3, k4}
MCValues    == {a, b, c}
MCKeyType   == k1 :> "String" @@ k2 :> "String" @@ k3 :> "String" @@ k4 :> "Int"
MCValueType == a :> "Bool" @@ b :> "Bool" @@ c :> "String"

MCHashes == {k1 :> 0 @@ k2 :> 1 @@ k3 :> 2 @@ k4 :> 3,
             k1 :> 3 @@ k2 :> 43 @@ k3 :> 4 @@ k4 :> 43}

MCLiterals == {<<>>,
               <<Entry(k1, a), Entry(k2, b)>>,
               <<Entry(k2, a), Entry(k3, a), Entry(k1, b)>>}
=============================================================================
