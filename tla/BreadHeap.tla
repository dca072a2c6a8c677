------------------------------ MODULE BreadHeap ------------------------------
(***************************************************************************)
(* The reference-counted values of a running BreadLang program: which      *)
(* object holds a reference to which, who owns each count, and what        *)
(* releasing the last one frees (src/core/value_*.c, src/runtime/          *)
(* value_ops.c, operators.c, runtime.c, and the code the compiler emits).  *)
(*                                                                         *)
(* Strings, arrays, dictionaries, optionals, structs and class instances   *)
(* are objects that hold a sequence of references; a string holds none.    *)
(* Values without an object (Int, Bool, ...) are None.  A variable is a    *)
(* slot of the runtime's scopes, a temporary one of the stack slots that   *)
(* compiled code allocates for the result of an expression.                *)
(***************************************************************************)
EXTENDS Integers, FiniteSets, FiniteSetsExt, Sequences, SequencesExt

CONSTANTS
  Objs,      \* addresses of objects
  Strings,   \* those of them that hold strings
  Vars,      \* variables of the program
  Temps,     \* expression temporaries
  None,      \* a value without an object
  MaxItems,  \* bound: references held by all objects together
  MaxLost    \* bound: references dropped without a release

Slots == Vars \cup Temps

ASSUME HeapAssumption ==
  /\ IsFiniteSet(Objs)
  /\ IsFiniteSet(Vars)
  /\ IsFiniteSet(Temps)
  /\ Strings \subseteq Objs
  /\ Vars \cap Temps = {}
  /\ None \notin Objs
  /\ MaxItems \in Nat
  /\ MaxLost \in Nat

VARIABLES
  alive,  \* the objects that are allocated
  rc,     \* BreadObjHeader.refcount
  items,  \* the references an object holds, in order
  slot,   \* what each variable and temporary holds
  raw,    \* per object, references held by a plain C pointer
  lost,   \* per object, references nobody will ever release
  swept   \* the last step was a collection

vars == <<alive, rc, items, slot, raw, lost, swept>>

-----------------------------------------------------------------------------
(* Counting references.                                                    *)

\* The places in the containers of `holders` that refer to o.
References(o, holders, contents) ==
  {r \in UNION {{h} \X DOMAIN contents[h] : h \in holders} : contents[r[1]][r[2]] = o}

HeldBy(o, holders, contents) == Cardinality(References(o, holders, contents))

SlotsOn(o) == Cardinality({s \in Slots : slot[s] = o})

Graph == [alive |-> alive, rc |-> rc, items |-> items]

Keep(g) == alive' = g.alive /\ rc' = g.rc /\ items' = g.items /\ swept' = FALSE

-----------------------------------------------------------------------------
(* Retain and release.                                                     *)

\* bread_*_retain; a value without an object has nothing to count.
Retain(g, o) == IF o = None THEN g ELSE [g EXCEPT !.rc[o] = @ + 1]

\* References to x that go when o loses one and the objects of S are freed.
Dropped(g, o, S, x) == (IF x = o THEN 1 ELSE 0) + HeldBy(x, S, g.items)

\* Slip: a count that reaches zero frees nothing.
DeadNever(g, o) == {}

\* Slip: the object is freed and what it holds is not released.
DeadAlone(g, o) == {x \in g.alive : x = o /\ g.rc[x] = 1}

\* The objects whose count reaches zero when o loses a reference: freeing an
\* object releases what it holds, so the set is the least one closed under that.
Dead(g, o) ==
  LET Closed(S) == \A x \in g.alive : g.rc[x] > 0 /\ Dropped(g, o, S, x) >= g.rc[x] => x \in S
  IN  {x \in g.alive : \A S \in SUBSET g.alive : Closed(S) => x \in S}

\* bread_array_release, bread_dict_release, ...: a release of an object whose
\* count is zero does nothing.
Release(g, o) ==
  IF o = None THEN g
  ELSE IF g.rc[o] = 0 THEN g
  ELSE LET dead == Dead(g, o)
       IN  [alive |-> g.alive \ dead,
            rc    |-> [x \in Objs |-> IF x \in dead THEN 0
                                      ELSE IF x \in g.alive THEN g.rc[x] - Dropped(g, o, dead, x)
                                      ELSE g.rc[x]],
            items |-> [x \in Objs |-> IF x \in dead THEN <<>> ELSE g.items[x]]]

\* bread_value_release of what slot s holds, then a clone of o in its place.
Replace(g, old, o) == Retain(Release(g, old), o)

\* bread_value_assign and the String case of coerce_and_assign take the new
\* reference before they drop the old one.
ReplaceNewFirst(g, old, o) == Release(Retain(g, o), old)

-----------------------------------------------------------------------------
Init ==
  /\ alive = {}
  /\ rc    = [o \in Objs |-> 0]
  /\ items = [o \in Objs |-> <<>>]
  /\ slot  = [s \in Slots |-> None]
  /\ raw   = [o \in Objs |-> 0]
  /\ lost  = [o \in Objs |-> 0]
  /\ swept = FALSE

LostSoFar  == MapThenSumSet(LAMBDA o : lost[o], Objs)
ItemsSoFar == MapThenSumSet(LAMBDA o : Len(items[o]), Objs)

\* An operation can reach an object that a slot or a C pointer holds.
InHand(o) == o \in alive /\ (SlotsOn(o) > 0 \/ raw[o] > 0)

Born(o) ==
  /\ o \notin alive
  /\ alive' = alive \cup {o}
  /\ rc'    = [rc EXCEPT ![o] = 1]
  /\ items' = [items EXCEPT ![o] = <<>>]
  /\ swept' = FALSE

\* bread_value_set_string: the temporary takes over the creator's reference.
NewString(t, o) ==
  /\ o \in Strings
  /\ slot[t] = None
  /\ Born(o)
  /\ slot' = [slot EXCEPT ![t] = o]
  /\ UNCHANGED <<raw, lost>>

\* bread_array_new, bread_dict_new, ...: the caller owns the reference.
NewObject(o) ==
  /\ o \notin Strings
  /\ Born(o)
  /\ raw' = [raw EXCEPT ![o] = 1]
  /\ UNCHANGED <<slot, lost>>

\* Slip: the box takes over a reference its creator still releases.
BoxUnretained(t, o) ==
  /\ slot[t] = None
  /\ raw[o] > 0
  /\ slot' = [slot EXCEPT ![t] = o]
  /\ swept' = FALSE
  /\ UNCHANGED <<alive, rc, items, raw, lost>>

\* bread_value_set_array and its kin retain the object they box.
Box(t, o) ==
  /\ slot[t] = None
  /\ raw[o] > 0
  /\ Keep(Retain(Graph, o))
  /\ slot' = [slot EXCEPT ![t] = o]
  /\ UNCHANGED <<raw, lost>>

\* A C caller releases the object it created.
DropRaw(o) ==
  /\ raw[o] > 0
  /\ Keep(Release(Graph, o))
  /\ raw' = [raw EXCEPT ![o] = 0]
  /\ UNCHANGED <<slot, lost>>

\* The code emitted for a literal boxes the object and forgets the pointer.
ForgetRaw(o) ==
  /\ raw[o] > 0
  /\ \E t \in Temps : slot[t] = o
  /\ LostSoFar < MaxLost
  /\ raw'  = [raw EXCEPT ![o] = 0]
  /\ lost' = [lost EXCEPT ![o] = @ + 1]
  /\ swept' = FALSE
  /\ UNCHANGED <<alive, rc, items, slot>>

\* bread_array_append, bread_dict_set of a new key, a struct's first set: the
\* container keeps a clone of what slot s holds.
AppendTo(o, s) ==
  /\ InHand(o) /\ o \notin Strings
  /\ slot[s] # None
  /\ ItemsSoFar < MaxItems
  /\ Keep(Retain([Graph EXCEPT !.items[o] = Append(@, slot[s])], slot[s]))
  /\ UNCHANGED <<slot, raw, lost>>

\* bread_array_set, bread_dict_set of a key it has, bread_class_set_field...:
\* the old reference is released before the new one is cloned.
SetItem(o, i, s) ==
  /\ InHand(o)
  /\ i \in DOMAIN items[o]
  /\ slot[s] # None
  /\ LET old     == items[o][i]
         without == [Graph EXCEPT !.items[o][i] = None]
         freed   == Release(without, old)
     IN  Keep(Retain([freed EXCEPT !.items[o][i] = slot[s]], slot[s]))
  /\ UNCHANGED <<slot, raw, lost>>

\* bread_array_remove_at: the caller gets a clone, the container's goes.
RemoveItem(o, i, t) ==
  /\ InHand(o)
  /\ i \in DOMAIN items[o]
  /\ slot[t] = None
  /\ LET old     == items[o][i]
         without == [Graph EXCEPT !.items[o] = RemoveAt(@, i)]
     IN  /\ Keep(Release(Retain(without, old), old))
         /\ slot' = [slot EXCEPT ![t] = old]
  /\ UNCHANGED <<raw, lost>>

\* Slip: the element is handed out without a reference of its own.
IndexBorrowed(o, i, t) ==
  /\ InHand(o)
  /\ i \in DOMAIN items[o]
  /\ slot[t] = None
  /\ slot' = [slot EXCEPT ![t] = items[o][i]]
  /\ swept' = FALSE
  /\ UNCHANGED <<alive, rc, items, raw, lost>>

\* bread_index_op, bread_member_op: the result is a clone of the element.
Index(o, i, t) ==
  /\ InHand(o)
  /\ i \in DOMAIN items[o]
  /\ slot[t] = None
  /\ Keep(Retain(Graph, items[o][i]))
  /\ slot' = [slot EXCEPT ![t] = items[o][i]]
  /\ UNCHANGED <<raw, lost>>

\* bread_var_load: the temporary gets a clone of the variable.
Load(v, t) ==
  /\ slot[t] = None
  /\ slot[v] # None
  /\ Keep(Retain(Graph, slot[v]))
  /\ slot' = [slot EXCEPT ![t] = slot[v]]
  /\ UNCHANGED <<raw, lost>>

\* bread_var_assign, bread_value_copy and bread_value_assign: one slot takes
\* what another one holds.
Assign(to, from, newFirst) ==
  /\ to # from
  /\ Keep(IF newFirst THEN ReplaceNewFirst(Graph, slot[to], slot[from])
                      ELSE Replace(Graph, slot[to], slot[from]))
  /\ slot' = [slot EXCEPT ![to] = slot[from]]
  /\ UNCHANGED <<raw, lost>>

\* release_variable when a scope is popped; bread_value_release of a C local.
ReleaseSlot(s) ==
  /\ slot[s] # None
  /\ Keep(Release(Graph, slot[s]))
  /\ slot' = [slot EXCEPT ![s] = None]
  /\ UNCHANGED <<raw, lost>>

\* cg_alloc_value: compiled code sets a temporary to nil whenever it is about
\* to use it, and never releases what an earlier use left there.
ForgetTemp(t) ==
  /\ slot[t] # None
  /\ LostSoFar < MaxLost
  /\ lost' = [lost EXCEPT ![slot[t]] = @ + 1]
  /\ slot' = [slot EXCEPT ![t] = None]
  /\ swept' = FALSE
  /\ UNCHANGED <<alive, rc, items, raw>>

-----------------------------------------------------------------------------
(* The collector.                                                          *)

\* The living objects that `from` and what `refs` leads to include.
ReachBy(from, refs) ==
  LET Closed(S) == from \subseteq S /\ \A x \in S : refs[x] \subseteq S
  IN  {x \in alive : \A S \in SUBSET alive : Closed(S) => x \in S}

\* The objects that can be reached from those of `from`, and they themselves.
Reach(from) == ReachBy(from, [x \in Objs |-> ToSet(items[x])])

\* Slip: an object with one reference is neither a root nor spared.
CollectShared ==
  /\ alive' = Reach({o \in alive : rc[o] > 1})
  /\ swept' = TRUE
  /\ UNCHANGED <<rc, items, slot, raw, lost>>

\* bread_memory_collect_cycles: every object with a count is a root, and an
\* object that is not marked goes when its count is zero.
CollectCycles ==
  LET marked == Reach({o \in alive : rc[o] > 0})
  IN  /\ alive' = {o \in alive : o \in marked \/ rc[o] > 0}
      /\ swept' = TRUE
      /\ UNCHANGED <<rc, items, slot, raw, lost>>

Next ==
  \/ \E o \in Objs : NewObject(o) \/ DropRaw(o) \/ ForgetRaw(o)
  \/ \E o \in Objs, t \in Temps : NewString(t, o) \/ Box(t, o)
  \/ \E o \in Objs, s \in Slots : AppendTo(o, s)
  \/ \E o \in Objs, i \in 1 .. MaxItems, s \in Slots : SetItem(o, i, s)
  \/ \E o \in Objs, i \in 1 .. MaxItems, t \in Temps : RemoveItem(o, i, t) \/ Index(o, i, t)
  \/ \E v \in Vars, t \in Temps : Load(v, t)
  \/ \E to, from \in Slots, newFirst \in BOOLEAN : Assign(to, from, newFirst)
  \/ \E s \in Slots : ReleaseSlot(s)
  \/ \E t \in Temps : ForgetTemp(t)
  \/ CollectCycles

Spec == Init /\ [][Next]_vars

-----------------------------------------------------------------------------
(* Properties.                                                             *)

\* Every variable keeps its type; an object is allocated exactly while its count
\* is positive, and a freed object or a string holds nothing.
TypeOK ==
  /\ rc \in [Objs -> Nat]
  /\ alive = {o \in Objs : rc[o] > 0}
  /\ items \in [Objs -> Seq(Objs)]
  /\ \A o \in Objs : o \notin alive \/ o \in Strings => items[o] = <<>>
  /\ slot \in [Slots -> Objs \cup {None}]
  /\ raw \in [Objs -> 0 .. 1]
  /\ lost \in [Objs -> Nat]
  /\ swept \in BOOLEAN

\* A reference count is the number of references there are: one for each slot,
\* each element of a living container and each C pointer that refers to the
\* object, and one for each that was dropped without a release.  It is what
\* makes the order of release and clone in every operation harmless.
RefsExact ==
  \A o \in Objs :
    rc[o] = SlotsOn(o) + HeldBy(o, alive, items) + raw[o] + lost[o]

\* Nothing refers to a freed object: neither a variable, nor a temporary, nor an
\* element of a living container, nor the creator's pointer.
NoDangling ==
  /\ \A s \in Slots : slot[s] # None => slot[s] \in alive
  /\ \A o \in alive : ToSet(items[o]) \subseteq alive
  /\ \A o \in Objs : raw[o] > 0 => o \in alive

Holders == {o \in alive : SlotsOn(o) > 0 \/ raw[o] > 0}
Leaked  == {o \in alive : lost[o] > 0}
Cyclic  == {o \in alive : \E x \in ToSet(items[o]) : o \in Reach({x})}

\* An object that outlives its last holder is explained by a lost reference or by
\* a cycle: releasing the last reference to an acyclic structure frees all of
\* it, however it is shared and in whatever order its holders go.
GarbageExplained == alive \subseteq Reach(Holders \cup Leaked \cup Cyclic)

\* What a variable, a temporary or a C pointer reaches through references that a
\* step leaves alone is not freed by it, whatever else it releases and replaces.
\* A collection frees nothing at all.
FreesOnlyGarbage ==
  [][/\ ReachBy(Holders \cap Holders',
                [x \in Objs |-> ToSet(items[x]) \cap ToSet(items'[x])]) \subseteq alive'
     /\ swept' => alive' = alive]_vars

\* "the memory management system should prevent memory leaks through cycle
\* detection" (memory_properties.c, property 19): what a collection leaves is
\* reachable, or was leaked by a lost reference.
CyclesCollected == swept => alive \subseteq Reach(Holders \cup Leaked)
=============================================================================
