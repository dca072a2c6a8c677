------------------------------- MODULE BreadMap -------------------------------
(***************************************************************************)
(* What a BreadLang dictionary promises its callers: a map from keys to    *)
(* values whose key and value types are fixed by its first entry           *)
(* (docs/collections.md, and the dictionary properties of                  *)
(* tests/property/integration/collection_properties.c).                    *)
(* BreadDict implements it with an open-addressing table.                  *)
(***************************************************************************)
EXTENDS Integers, FiniteSets, Functions

CONSTANTS
  Keys, Values,
  KeyType, ValueType,  \* the type of each key and of each value
  Untyped,             \* TYPE_NIL: no entry has fixed the type yet
  Null, Done, Failed   \* results: no value, success, refusal

VARIABLES
  map,        \* what the dictionary holds
  keyType,    \* BreadDict.key_type
  valueType,  \* BreadDict.value_type
  call,       \* the last call
  result      \* what it returned

vars == <<map, keyType, valueType, call, result>>

Fits(k, v) == keyType \in {Untyped, KeyType[k]} /\ valueType \in {Untyped, ValueType[v]}

\* The first entry of an empty dictionary fixes the types it has not got.
Fixed(type, of) == IF type = Untyped /\ map = <<>> THEN of ELSE type

FixTypes(k, v) == /\ keyType'   = Fixed(keyType, KeyType[k])
                  /\ valueType' = Fixed(valueType, ValueType[v])

Lookup(k) == IF k \in DOMAIN map THEN map[k] ELSE Null

Init ==
  /\ map \in UNION {[K -> Values] : K \in SUBSET Keys}
  /\ keyType \in Range(KeyType) \cup {Untyped}
  /\ valueType \in Range(ValueType) \cup {Untyped}
  /\ call = <<"new">>
  /\ result = Done

Set(k, v) ==
  /\ Fits(k, v)
  /\ FixTypes(k, v)
  /\ map'    = [x \in DOMAIN map \cup {k} |-> IF x = k THEN v ELSE map[x]]
  /\ result' = Done

SetRefused(k, v) ==
  /\ ~Fits(k, v)
  /\ result' = Failed
  /\ UNCHANGED <<map, keyType, valueType>>

\* Memory for a new entry ran out; nothing but the types may have changed.
SetFails(k, v) ==
  /\ Fits(k, v)
  /\ k \notin DOMAIN map
  /\ FixTypes(k, v)
  /\ result' = Failed
  /\ UNCHANGED map

Get(k) == result' = Lookup(k) /\ UNCHANGED <<map, keyType, valueType>>

Contains(k) == result' = (k \in DOMAIN map) /\ UNCHANGED <<map, keyType, valueType>>

Remove(k) ==
  /\ map'    = Restrict(map, DOMAIN map \ {k})
  /\ result' = Lookup(k)
  /\ UNCHANGED <<keyType, valueType>>

Clear ==
  /\ map' = <<>>
  /\ UNCHANGED <<keyType, valueType, result>>

Next ==
  \/ \E k \in Keys, v \in Values : /\ Set(k, v) \/ SetRefused(k, v) \/ SetFails(k, v)
                                   /\ call' = <<"set", k, v>>
  \/ \E k \in Keys : \/ Get(k)      /\ call' = <<"get", k>>
                     \/ Contains(k) /\ call' = <<"contains", k>>
                     \/ Remove(k)   /\ call' = <<"remove", k>>
  \/ Clear /\ call' = <<"clear">>

Spec == Init /\ [][Next]_vars
=============================================================================
