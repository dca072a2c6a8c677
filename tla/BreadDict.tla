------------------------------ MODULE BreadDict ------------------------------
(***************************************************************************)
(* The dictionary of BreadLang (src/core/value_dict.c): a table with       *)
(* linear probing and tombstones.  Two sets of functions work on it.       *)
(* Those that take a key as a value (bread_dict_get_safe, _set_safe,       *)
(* _remove, ...) find its slot by hash; those that take a C string         *)
(* (bread_dict_set, bread_dict_get), which compiled programs call, scan    *)
(* the table and fill it from the front.                                   *)
(***************************************************************************)
EXTENDS Integers, FiniteSets, FiniteSetsExt, Sequences, SequencesExt, Functions

CONSTANTS
  Keys, Values,
  KeyType, ValueType,    \* the type of each key and of each value
  Untyped, StringType,   \* TYPE_NIL and TYPE_STRING
  Hashes,                \* what bread_dict_hash_key may make of the keys
  FirstCapacity,         \* the capacity a table first gets (8)
  Literals,              \* entry lists given to bread_dict_from_literal
  MaxCapacity,           \* bound: tables are not grown beyond
  Null, Done, Failed

ASSUME DictAssumption ==
  /\ DOMAIN KeyType = Keys
  /\ DOMAIN ValueType = Values
  /\ Untyped \notin Range(KeyType) \cup Range(ValueType)
  /\ Hashes \subseteq [Keys -> Nat]
  /\ FirstCapacity \in Nat \ {0}
  /\ Null \notin Values

\* What bread_dict_from_literal accepts, without the literals that repeat a key:
\* it would count both entries (value_dict.c:167), and its caller has none
\* (collection_properties.c:1491).
ASSUME LiteralsAssumption ==
  /\ Literals \subseteq Seq([state : {"live"}, key : Keys, val : Values])
  /\ \A l \in Literals : \A i, j \in DOMAIN l :
       /\ KeyType[l[i].key] = KeyType[l[j].key]
       /\ ValueType[l[i].val] = ValueType[l[j].val]
       /\ l[i].key = l[j].key => i = j

VARIABLES
  table,      \* BreadDict.entries, indexed from 0
  count,      \* BreadDict.count
  keyType,    \* BreadDict.key_type
  valueType,  \* BreadDict.value_type
  call,       \* the last call
  result,     \* what it returned
  stopped,    \* the last call ended in a fatal error
  hash,       \* the hash of every key: no call changes it
  byName      \* whether the calls made on this dictionary take C strings

vars == <<table, count, keyType, valueType, call, result, stopped, hash, byName>>

-----------------------------------------------------------------------------
(* Tables.                                                                 *)

Free    == [state |-> "free"]
Deleted == [state |-> "deleted"]
Entry(k, v) == [state |-> "live", key |-> k, val |-> v]

EmptyTable(capacity) == [s \in 0 .. (capacity - 1) |-> Free]
Capacity(t)  == Cardinality(DOMAIN t)
Live(t)      == {s \in DOMAIN t : t[s].state = "live"}
Find(t, k)   == {s \in Live(t) : t[s].key = k}

\* Where a probe for k stops: at a slot that is free or deleted, or at k.
Stops(t, k, s) == t[s].state = "live" => t[s].key = k

Probe(t, k, d) == (hash[k] + d) % Capacity(t)

\* bread_dict_find_slot; -1 when every slot holds another key.
FindSlot(t, k) ==
  LET ds == {d \in 0 .. (Capacity(t) - 1) : Stops(t, k, Probe(t, k, d))}
  IN  IF ds = {} THEN -1 ELSE Probe(t, k, Min(ds))

\* The first slot bread_dict_set may use.
FirstUnused(t) ==
  LET unused == DOMAIN t \ Live(t) IN IF unused = {} THEN -1 ELSE Min(unused)

Put(t, s, e) == IF s = -1 THEN t ELSE [t EXCEPT ![s] = e]

\* A table with the live ones of a sequence of entries, each of them placed by
\* hash or from the front.
PlacedIn(t, e, inOrder) ==
  IF e.state = "live" THEN Put(t, IF inOrder THEN FirstUnused(t) ELSE FindSlot(t, e.key), e)
                      ELSE t

Placed(es, capacity, inOrder) ==
  LET after[n \in 0 .. Len(es)] ==
        IF n = 0 THEN EmptyTable(capacity) ELSE PlacedIn(after[n - 1], es[n], inOrder)
  IN  after[Len(es)]

Entries(t) == [i \in 1 .. Capacity(t) |-> t[i - 1]]

\* Slip: growing packs the entries although they will be looked up by hash.
RehashedInOrder(t, capacity) == Placed(Entries(t), capacity, TRUE)

\* bread_dict_resize places the live entries by hash, and the growth in
\* bread_dict_set from the front.
Rehashed(t, capacity) == Placed(Entries(t), capacity, FALSE)
Packed(t, capacity)   == Placed(Entries(t), capacity, TRUE)

GrownCapacity(t) == IF Capacity(t) = 0 THEN FirstCapacity ELSE 2 * Capacity(t)

\* (count + 1) / capacity > 0.75, and count >= capacity * 0.75.
FullByHash  == Capacity(table) = 0 \/ 4 * (count + 1) > 3 * Capacity(table)
FullInOrder == 4 * count >= 3 * Capacity(table)

\* The tables a call may work on when it needs a larger one: that one, or the
\* old one when calloc fails.
TablesFor(full, larger) == IF full THEN {table, larger} ELSE {table}

-----------------------------------------------------------------------------
(* Construction.                                                           *)

LiteralCapacity(n) ==
  Max({FirstCapacity, IF n > 0 THEN (4 * n) \div 3 + 1 ELSE FirstCapacity})

New ==
  /\ table   = EmptyTable(0)
  /\ keyType = Untyped
  /\ valueType = Untyped
  /\ count   = 0

\* bread_dict_new_typed.
NewTyped ==
  /\ table   = EmptyTable(0)
  /\ keyType \in Range(KeyType)
  /\ valueType \in Range(ValueType)
  /\ count   = 0

\* bread_dict_from_literal counts every entry it is given a slot for.
FromLiteral(l) ==
  /\ table     = Placed(l, LiteralCapacity(Len(l)), FALSE)
  /\ keyType   = IF l = <<>> THEN Untyped ELSE KeyType[l[1].key]
  /\ valueType = IF l = <<>> THEN Untyped ELSE ValueType[l[1].val]
  /\ count     = Len(l)

Init ==
  /\ hash \in Hashes
  /\ byName \in BOOLEAN
  /\ New \/ NewTyped \/ \E l \in Literals : FromLiteral(l)
  /\ call    = <<"new">>
  /\ result  = Done
  /\ stopped = FALSE

-----------------------------------------------------------------------------
(* Calls that take a key as a value.                                       *)

KeyFits(k) == keyType \in {Untyped, KeyType[k]}
Fits(k, v) == KeyFits(k) /\ valueType \in {Untyped, ValueType[v]}

FixTypes(k, v) ==
  /\ keyType'   = IF keyType = Untyped /\ count = 0 THEN KeyType[k] ELSE keyType
  /\ valueType' = IF valueType = Untyped /\ count = 0 THEN ValueType[v] ELSE valueType

Answer(r) == /\ ~stopped
             /\ result' = r
             /\ UNCHANGED <<table, count, keyType, valueType, stopped>>

Refuse(k, v) == ~Fits(k, v) /\ Answer(Failed)

\* bread_dict_set_safe; a table without a slot for the key is a fatal error.
SetSafe(k, v) ==
  /\ ~stopped
  /\ Fits(k, v)
  /\ FullByHash => GrownCapacity(table) <= MaxCapacity
  /\ FixTypes(k, v)
  /\ \E t \in TablesFor(FullByHash, Rehashed(table, GrownCapacity(table))) :
       LET s == FindSlot(t, k)
           n == IF t = table THEN count ELSE Cardinality(Live(t))
       IN  /\ table'   = Put(t, s, Entry(k, v))
           /\ count'   = IF s # -1 /\ s \notin Live(t) THEN n + 1 ELSE n
           /\ result'  = IF s = -1 THEN Failed ELSE Done
           /\ stopped' = (s = -1)

Resolved(k) ==
  LET s == FindSlot(table, k) IN IF s \in Live(table) THEN table[s].val ELSE Null

\* bread_dict_get_safe, and bread_dict_get_with_default with Null as default.
GetSafe(k) == Answer(IF KeyFits(k) THEN Resolved(k) ELSE Null)

\* bread_dict_contains_key.
ContainsKey(k) == Answer(KeyFits(k) /\ Resolved(k) # Null)

\* Slip: the slot is given up whether it holds the key or not.
RemoveKeyUnchecked(k) ==
  /\ KeyFits(k) /\ FindSlot(table, k) # -1 /\ ~stopped
  /\ table'  = [table EXCEPT ![FindSlot(table, k)] = Deleted]
  /\ count'  = count - 1
  /\ result' = Resolved(k)
  /\ UNCHANGED <<keyType, valueType, stopped>>

\* bread_dict_remove leaves a tombstone.
RemoveKey(k) ==
  /\ KeyFits(k)
  /\ Resolved(k) # Null
  /\ ~stopped
  /\ table'  = [table EXCEPT ![FindSlot(table, k)] = Deleted]
  /\ count'  = count - 1
  /\ result' = Resolved(k)
  /\ UNCHANGED <<keyType, valueType, stopped>>

RemoveMissing(k) == (KeyFits(k) => Resolved(k) = Null) /\ Answer(Null)

\* bread_dict_clear keeps the capacity and the types.
Clear ==
  /\ ~stopped
  /\ table' = EmptyTable(Capacity(table))
  /\ count' = 0
  /\ UNCHANGED <<keyType, valueType, result, stopped>>

-----------------------------------------------------------------------------
(* Calls that take a C string.                                             *)

StringKeys == {k \in Keys : KeyType[k] = StringType}

\* Slip: the old value stays.
SetKeep(k, v) ==
  /\ ~stopped
  /\ Fits(k, v)
  /\ Find(table, k) # {}
  /\ FixTypes(k, v)
  /\ result' = Done
  /\ UNCHANGED <<table, count, stopped>>

\* bread_dict_set of a key that a scan of the table finds.
SetReplace(k, v) ==
  /\ ~stopped
  /\ Fits(k, v)
  /\ Find(table, k) # {}
  /\ FixTypes(k, v)
  /\ table'  = [table EXCEPT ![Min(Find(table, k))] = Entry(k, v)]
  /\ result' = Done
  /\ UNCHANGED <<count, stopped>>

\* Slip: the key is not looked for before it is added.
SetDuplicate(k, v) ==
  /\ ~stopped
  /\ Fits(k, v)
  /\ ~FullInOrder
  /\ FixTypes(k, v)
  /\ table'  = Put(table, FirstUnused(table), Entry(k, v))
  /\ count'  = count + 1
  /\ result' = Done
  /\ UNCHANGED stopped

\* bread_dict_set of another key; it returns 0 when calloc fails.
SetInsert(k, v) ==
  /\ ~stopped
  /\ Fits(k, v)
  /\ Find(table, k) = {}
  /\ FullInOrder => GrownCapacity(table) <= MaxCapacity
  /\ FixTypes(k, v)
  /\ \/ LET t == IF FullInOrder THEN Packed(table, GrownCapacity(table)) ELSE table
            n == IF FullInOrder THEN Cardinality(Live(t)) ELSE count
        IN  /\ FirstUnused(t) # -1
            /\ table'  = Put(t, FirstUnused(t), Entry(k, v))
            /\ count'  = n + 1
            /\ result' = Done
     \/ /\ FullInOrder
        /\ result' = Failed
        /\ UNCHANGED <<table, count>>
  /\ UNCHANGED stopped

\* bread_dict_get.
GetByName(k) ==
  Answer(IF Find(table, k) = {} THEN Null ELSE table[Min(Find(table, k))].val)

-----------------------------------------------------------------------------
NextByName ==
  \/ \E k \in StringKeys, v \in Values : /\ SetReplace(k, v) \/ SetInsert(k, v) \/ Refuse(k, v)
                                         /\ call' = <<"set", k, v>>
  \/ \E k \in StringKeys : GetByName(k) /\ call' = <<"get", k>>

NextByValue ==
  \/ \E k \in Keys, v \in Values : (SetSafe(k, v) \/ Refuse(k, v)) /\ call' = <<"set", k, v>>
  \/ \E k \in Keys : \/ GetSafe(k)     /\ call' = <<"get", k>>
                     \/ ContainsKey(k) /\ call' = <<"contains", k>>
  \/ Clear /\ call' = <<"clear">>

Removal ==
  \E k \in Keys : (RemoveKey(k) \/ RemoveMissing(k)) /\ call' = <<"remove", k>>

\* A program calls the one set of functions or the other.
Use(next) == next /\ UNCHANGED <<hash, byName>>

\* No two keys have the same home slot in the table.
Separate(t) == \A k, m \in Keys : k # m => Probe(t, k, 0) # Probe(t, m, 0)

CollisionFree == Capacity(table) > 0 => Separate(table)

\* Programs that remove a key only where no keys collide.
Next ==
  \/ byName /\ Use(NextByName)
  \/ ~byName /\ Use(NextByValue)
  \/ ~byName /\ CollisionFree /\ Use(Removal)

Spec == Init /\ [][Next]_vars

\* Programs that remove any key.
NextRemoving == ~byName /\ Use(NextByValue \/ Removal)

SpecRemoving == Init /\ [][NextRemoving]_vars

-----------------------------------------------------------------------------
(* Properties.                                                             *)

Slot == {Free, Deleted} \cup {Entry(k, v) : k \in Keys, v \in Values}

\* Every variable keeps its type.
TypeOK ==
  /\ Capacity(table) \in Nat
  /\ table \in [0 .. (Capacity(table) - 1) -> Slot]
  /\ count \in Nat
  /\ keyType \in Range(KeyType) \cup {Untyped}
  /\ valueType \in Range(ValueType) \cup {Untyped}
  /\ Head(call) \in {"new", "set", "get", "contains", "remove", "clear"}
  /\ result \in Values \cup BOOLEAN \cup {Null, Done, Failed}
  /\ stopped \in BOOLEAN
  /\ hash \in Hashes
  /\ byName \in BOOLEAN

\* The count kept with the table is the number of live slots, and no key has two
\* of them: bread_dict_keys relies on it ("the arrays returned by dictionary.keys
\* and dictionary.values should have the same length as dictionary.count",
\* collection_properties.c, property 14).  It also decides when the table grows:
\* one that either load limit calls large enough has a slot for a new key, so that
\* only a table that calloc could not grow ends in "Dictionary is full and cannot
\* be resized".
CountIsLive ==
  /\ count = Cardinality(Live(table))
  /\ \A k \in Keys : Cardinality(Find(table, k)) <= 1
  /\ ~FullByHash \/ ~FullInOrder => Live(table) # DOMAIN table

\* In a dictionary that is used by value, every key that bread_dict_keys lists is
\* found by bread_dict_get_safe, with the value that bread_dict_values lists for
\* it ("each key should map to the corresponding value at the same index",
\* collection_properties.c, property 14).  It fails when an entry can no longer
\* be reached from its home slot.
KeysResolve ==
  ~byName => \A s \in Live(table) : Resolved(table[s].key) = table[s].val

Dict == [k \in {table[s].key : s \in Live(table)} |-> table[Min(Find(table, k))].val]

\* The table implements the map that callers are promised: whatever the hashes,
\* collisions, growth and failed allocations, each call returns what the map
\* would.
Promise == INSTANCE BreadMap WITH map <- Dict
MapSpec == Promise!Spec
=============================================================================
