# A formal model of BreadLang

BreadLang is a small typed language. Its compiler (`src/src/compiler`,
`src/src/codegen`, `src/src/backends`) parses a program, checks it, and emits
LLVM code; the emitted code calls a C runtime (`src/src/runtime`,
`src/src/core`) for everything that is not arithmetic on unboxed numbers:
memory, reference counts, containers, variables, scopes. This directory models
the parts in which the correctness of a running program is decided, checks the
models with TLC on small instances, and proves theorems about them with TLAPS.

Paths below are relative to the repository (`src/` here means the checkout's
root, so the runtime is `src/src/runtime`).

## The system

| Component | State it keeps | Operations | What makes it correct |
|---|---|---|---|
| Memory manager, `runtime/memory.c` | pool of 64-byte blocks, list of objects, a count in each header, statistics, collector counters | alloc, realloc, retain, release, collect, thresholds, cleanup | list, bitmaps, counts and statistics agree; nothing in use is handed out or freed |
| Values, `core/value_*.c`, `runtime/value_ops.c`, `operators.c` | references from containers, variables, temporaries | box, clone, copy, append, set, remove, index, release | every count is the number of references; no dangling reference; garbage goes |
| Dictionaries, `core/value_dict.c` | open-addressing table with tombstones, type locks | set, get, remove, clear, keys, from a literal | it behaves as a typed map |
| Scopes, `core/var.c`, `runtime/runtime.c` | stack of scopes, each with its variables | push, pop, declare, assign, load | innermost binding, constants, stable types |
| Generated code, `codegen/codegen_stmt.c`, `codegen_scope.c`, `llvm_backend_codegen.c` | which blocks, loops and calls are open; slots of locals | what each statement calls | scopes are balanced; a name means what the semantic analysis says |
| Semantic analysis, `codegen/codegen_semantic.c` | lexical scopes, classes, functions | declare, resolve, type | as above |
| Modules, `core/module.c` | registry of modules, exports, qualified names | load, compile, preprocess, splice | each module once, dependencies first, each statement owned once |
| Classes, `core/value_class.c`, `codegen_semantic.c`, `codegen_stmt.c`, `llvm_backend_emit.c` | classes of the compiler, registry of definitions, objects | define, resolve parents, construct, call, set a field | a call runs the nearest method; fields of all ancestors, each with what was last assigned |
| Parser, `compiler/ast/*.c` | position, error flag, the tree so far | parse a statement, an expression, a type | the tree says what the source says; each node has one owner; it ends |
| Types and operators, `type_descriptor.c`, `codegen_expr.c`, `codegen_unboxing.c`, `value_ops.c` | types of variables, slots with and without boxes | analyse, evaluate, declare, assign | values have the types the analysis gave; boxes make no difference |
| Strings, functions, built-ins, errors | intern table, function table, current error | intern, register, call, set, clear | limits, defaults, sticky flags |
| Optimiser, its analyses, LLVM emission | LLVM values | | mostly pure, or I/O |

There is one thread. What is hard is not concurrency but long sequences of
legal calls over shared structures: objects that are shared and freed in any
order, a collector that runs in the middle of an allocation, tables that grow
and keep tombstones, scopes that are left by break, continue and return, names
that are resolved twice, once by the compiler and once by the runtime, numbers
that are computed in two ways, classes that two backends register differently,
and a parser that finds the ends of things by scanning for them.
`PROJECT.json` lists the hazards one by one, each at its line.

## The modules

**BreadMemory** models `runtime/memory.c` function by function: `Alloc`,
`AllocFails`, `Realloc`, `ReallocFails`, `Retain`, `Release`, `RetainForgotten`,
`ReleaseForgotten`, `CollectCycles`, `SetThreshold`, `SetByteThreshold`, `EnableAutoGc`, `Cleanup`. An address is a
pool block or a malloc'd address. The pool keeps, as the code does, a bitmap
and a count for each chunk and looks only at the head of the chunk list. `Alloc`
includes the collection it may start. A fatal error (`abort()`, see
`bread_error_set_with_context`) stops the model. What objects contain is left to
BreadHeap, and the collector may mark any set of objects that includes those
with a positive count. The malloc of a list node is taken to succeed.
`bread_memory_cleanup` frees the list and the pool but no malloc'd object: `Cleanup`
leaves such objects their memory and the count in their header, and the history
variable `forgotten` remembers them, since the code has no record of them. They can
still be retained and released (`RetainForgotten`, `ReleaseForgotten`), which
touches neither the list nor the statistics.

**BreadHeap** models what refers to what: objects hold sequences of references,
variables and temporaries hold one, and a C pointer returned by a constructor
holds one until its caller lets go. A release that brings a count to zero frees
the object and all that it alone held, which the model states as a least fixed
point (`Dead`). Actions are the operations of arrays, dictionaries, structs,
classes and optionals as far as references go, in the order of release and clone
that the code has; a Boolean of `Assign` tells the two orders apart. `ForgetRaw`
and `ForgetTemp` are the two places where generated code drops a reference
without releasing it.

**BreadMap** is the abstract dictionary: a partial function from keys to values
whose key and value types are fixed by the first entry, and whose insertions may
fail for want of memory. **BreadDict** is the table of `core/value_dict.c`, and
implements BreadMap under the mapping `Dict`. The code has two sets of functions
on one table: those that take a key as a value probe by hash
(`bread_dict_get_safe`, `bread_dict_set_safe`, `bread_dict_remove`, used by C
callers and the tests), and those that take a C string scan and fill the table in
order (`bread_dict_set`, `bread_dict_get`, used by compiled programs). The
variable `byName` says which set a dictionary is used through. Keys stand for
strings and integers, the types that callers use (`docs/collections.md` promises
strings only): `FindSlot` takes equal keys as equal, while the code's comparison
never matches a Float or a container, whatever it holds (`value_dict.c:121`).

**BreadScopes** models `core/var.c` and the variable functions of
`runtime/runtime.c`. A number counts halves, so that a cast to Int shows.

**BreadBlocks** extends BreadScopes with the statements of a program: each
action is a statement, and does to the runtime's scopes what the emitted code
does, and to `blocks[..].vars` what the language means (the scopes of
`codegen_semantic.c`). Locals of functions are in `slots`, one flat list for each
call. `plain` remembers whether the program has used a for loop or a call.

**BreadModules** models `core/module.c`: the program's statements are walked by
`ImportInProgram`, `Include`, `Move` and `Finish` (`module_preprocess_program`),
and the recursion of `module_preprocess_module` through
`module_preprocess_stmt_list` is an explicit stack, on which `ImportInModule`,
`ExportInModule`, `DeclareInModule` and `Return` each process one statement. The
contents of the files, and which cannot be read, are chosen in `Init`. A
statement is known by the list it was parsed into and its place there, so that
its owner can be followed as lists are spliced. `MaxDepth` calls fit the C stack,
and one more is a crash. The message about a circular dependency in
`module_compile` cannot appear, because `is_loading` is set only while a file is
read and parsed: modules that import each other recurse until another error or
the end of the stack, which is why `Terminates` asks for an acyclic set of files.

**BreadSyntax** and **BreadStatements** are the parser's functions over a
sequence of tokens. BreadSyntax has `ast_expr_parser.c`: one operator for each
level of precedence, primaries, postfix operators, literals, and interpolated
strings, whose parts become sums. BreadStatements has `ast_stmt_parser.c`: every
form of statement, the scan that finds the end of an expression, the scan that
decides whether a line is an assignment, and on each way out what is freed and
what is handed on. A parser's result is a record of a tree, the position, the
error flag and the number of nodes that are alive (`live`), so that a leak is
visible. Where the code returns NULL without an error the tree is `NoTree`.
**BreadParser** is the loop of `ast_parse_program` as a state machine:
`SkipSeparator`, `ParseStatement`, `Finish`. A source is either a program that was
written out from a tree (`Written`), so that what is meant is known, or any
sequence of tokens. Tokens are words: the characters of a name are not modelled.

**BreadEvaluation** follows a piece of straight-line code from the analysis to its
execution. An expression is the list of its nodes in the order in which they are
evaluated, each with the places of its parts; a type is the list of its levels,
outermost first. `TypesOf`, `CanUnbox` and `Unboxed` are functions on the nodes: the
type of each, whether it can do without a box, and the slot that it computes, from
those of its parts. `TypeOf` is the typing of expressions in `codegen_semantic.c`,
`Compatible` that of `type_descriptor.c`, `Accepted` what declarations and
assignments ask for. `Build` is what the generated code computes: through the
operators of the runtime (`BinaryOp`, `IndexOp`, `MemberOp`, ...), or, for
numbers of functions, without boxes (`InSlot`). `LetRaw`, `LetBoxed`, `AssignRaw`
and `AssignBoxed` are the statements by the way their variable is kept. A double
is an exact fraction or an infinity. A mismatch of types in an operator of the runtime sets the
error and gives nil; other runtime errors end the process.

**BreadClasses** follows classes from their declarations to their objects:
`Compile` (the analysis), `Register`, `Hang` and `Resolve` (the registry,
once as an executable fills it and once as the JIT does), then a program that
constructs objects, calls methods and assigns to fields from outside
(`Construct`, `Call`, `Write`), and the bodies that this runs (`Set`, `Bare`,
`SuperInit`, `SelfCall`, `Return`). `meant` records, for every field
of every object, the last that was assigned to it, read as the documentation reads
assignments, or that nothing was.

MC modules give the constants their values for TLC.

## Runs

| Run | Module, configuration | Bounds | Shows |
|---|---|---|---|
| memory | MCBreadMemory, BreadMemory.cfg | 2 chunks of 2 blocks, 2 malloc'd addresses, sizes on both sides of the block size, 4 allocations, 8 bytes, counts to 2 | accounting, counts and triggers, before and after clean-ups, over 2.2 million states |
| heap | MCBreadHeap, BreadHeap.cfg | 2 containers, 1 string, 1 variable, 2 temporaries, 3 elements, 1 lost reference of each object | exact counts, no dangling reference, no unexplained garbage |
| heap_cycles | MCBreadHeap, BreadHeapCycles.cfg | same | the collector leaves cycles (violated) |
| dict | MCBreadDict, BreadDict.cfg | 4 keys of 2 types, 3 values of 2 types, a collision-free hash and one with three keys at one home slot, first capacity 2, growth twice or refused | table implements map; one below its load limit has room |
| dict_remove | MCBreadDict, BreadDictRemove.cfg | same, any key may be removed | keys behind a tombstone are hidden (violated) |
| scopes | MCBreadScopes, BreadScopes.cfg | 2 names, 2 scopes, values of 3 types, 4 declared types | constants, bindings, types |
| blocks | MCBreadBlocks, BreadBlocks.cfg | 2 names, 2 values, 2 blocks or calls open, 2 iterations | balanced scopes, lexical reads of plain programs |
| blocks_loops | MCBreadBlocks, BreadBlocksLoops.cfg | same, no calls | loop variables overwrite outer ones (violated) |
| modules | MCBreadModules, BreadModules.cfg | 3 modules, 2 names, 12 possible files for each module or none, 4 programs, 4 nested calls | statements owned once, dependencies first, aliases after what they read, preprocessing ends |
| parser | MCBreadParser, BreadParser.cfg | programs of one statement with expressions two operators deep, or with blocks nested twice, and of two statements; with and without lines of comment; token sequences of 2 to 4 free tokens after ten beginnings | programs are read as meant; nothing of a source is lost, nodes have one owner, the parser ends |
| evaluation | MCBreadEvaluation, BreadEvaluation.cfg | a first variable of 16 types and values, then a declaration or an assignment with up to three operators over 7 atoms, in the program and in a function | accepted code has its types; boxes make no difference |
| classes | MCBreadClasses, BreadClasses.cfg | 1 to 3 classes in three orders, an unknown parent, a cycle, overridden and repeated methods, colliding names, both backends, 1 object, 4 nested calls | dispatch; contents of fields |

Why the bounds are enough: a pool fault needs a full head chunk with an older
chunk that has room, and two chunks of two blocks give that; sharing and cycles
need two containers, and a shared leaf one more object; a lost key needs three
keys with one home, and a full table three keys of one type and two slots that
calloc does not replace; shadowing needs two scopes, and a name in both; a jump that
leaves several blocks needs a loop and a block in it; three modules give chains,
diamonds, cycles of one, two and three, and a module imported again by the program. In the
parser, an operator under an operator shows precedence, and a third level would
only repeat it; the ten beginnings put the free tokens where the scans and the
ways out are. In the evaluation, the result of one operator must meet every other
one. Three classes give a parent that has a parent, and one object is enough
because objects share nothing that changes. Symmetry is used over
addresses, containers, temporaries and names, none of which the code orders (the
pool picks the lowest bit of a bitmap, so that blocks are not symmetric).

Deadlock is checked for `heap` and its variant, whose programs can always go on,
and for `parser`, `evaluation` and `classes`, in which a step `Done` or `Ended`
stands for the ends that the code has: nothing may stop anywhere else. The other
models stop when a bound is reached or the process has aborted.

Fairness: BreadModules assumes weak fairness of its next-state relation, and that
justifies `Terminates`: preprocessing is one loop of one thread that waits for
nothing, so that it goes on as long as a statement is left. The other modules
assume none, and their properties are safety properties: the program that calls
the runtime may stop at any time, and nothing in them waits.

### What the violated runs show

* `dict_remove`: `bread_dict_find_slot` stops at a tombstone
  (`core/value_dict.c:82-135`). After `remove(k1)`, a key that collided with
  `k1` and was put behind it is listed by `keys` and not found by `get`. Property
  14 of `tests/property/integration/collection_properties.c` says that each key
  maps to the value at its index. `dict` shows that nothing else is wrong with
  the table: with no collision among the keys, removal is harmless.
* `blocks_loops`: `docs/variables-constants.md:32` says that variables are
  block-scoped; the variable of a for loop is declared only if no scope has its
  name, and assigned by name (`codegen/codegen_stmt.c:683-768`).
* `heap_cycles`: property 19 of `tests/property/runtime/memory_properties.c`
  promises that cycle detection prevents leaks. The collector's roots are all
  objects with a positive count, and the members of a cycle have one.
  `CollectionReclaimsNothing` says the same of the memory manager, and is proved.

### What the passing runs except

Some properties of the parser, the evaluation and the classes hold but for cases
that the code gets wrong or leaves open. Each case is an operator of the module,
named in the property; without it TLC finds a counterexample.

* `NothingDropped` (BreadParser): `Hole`, a statement that fails just before the
  closing brace makes its block vanish without an error
  (`ast_stmt_parser.c:1320`); `MixedBracket`, a bracket whose first colon follows
  an element without one loses elements; `Constructors`, a second `init`
  replaces the first. `OwnsItsNodes` names the parts that no destructor reaches:
  those of struct literals, classes and parameters of a refused program.
* A comment behind a statement, as in `docs/built-in-functions.md:104`, is read
  as part of the expression (`ast_expr_parser.c:438`). BreadParser puts comments
  on lines of their own.
* `TypeSound` (BreadEvaluation): `BoxedMinus`, minus on a boxed number gives nil;
  `Incomparable`, a comparison of different types, of optionals or of the order
  of containers is typed Bool and gives nil; `Remainder` of doubles; `OddKeys`,
  dictionaries whose keys are not strings; `LengthOfNone`; `OtherFields`, a
  struct literal with a value of another type than its field; `UnknownParts`, a
  container with a nil in it; `Untold`, the result of a method, or a field that no
  declaration has, is of the unknown type, and so is nil, so that it is accepted
  where an optional is wanted. `Meaningless` are compound assignments that the
  operator has no meaning for.
* `BoxingIsTransparent`: `BoxedMinus` again, and `ByZero`: dividing doubles by
  zero is infinity without a box and ends the process with one.
* `DispatchIsLexical` (BreadClasses): `super.m()` calls `self.m()`
  (`codegen_expr.c:1166`); a variable whose name contains that of a class is
  taken for the class (`namesake`, `codegen_expr.c:482`); `Replaced`, in an
  executable a function or method with the joined name `Class_method` takes the
  method's place (`llvm_backend_emit.c:266`), under the JIT the last method of a
  name does.
* `ObjectsRemember`: `BareWrites`, an assignment to the bare name of a field
  makes a local (`codegen_stmt.c:22`), while `docs/object-oriented.md:136` calls it
  "Direct field access". It counts in every body that may run on the object: those
  of its class and ancestors, and those of `Strays`, classes whose name a variable
  has in its own or one of whose functions has the symbol of another's (`Guests`
  are all of these). `Skipped`: a constructor of more than three parameters, like that of
  `docs/object-oriented.md:237`, is not called (`value_class.c:452`); one that is
  `Replaced`; a body that ends without an error at the first statement that cannot
  be generated (`codegen_stmt.c:1040`).
* Classes that extend each other make the compiler walk up for ever
  (`codegen_semantic.c:436`); the model has this as the end `Hang`.

## Proofs

`BreadMemory_proofs` proves, for every pool geometry, set of sizes, thresholds
and bound:

| Theorem | Statement |
|---|---|
| Inductive | `Spec => []IInv` |
| TypeCorrect | `Spec => []TypeOK` |
| MemoryAccountingHolds | `Spec => []MemoryAccounting` |
| CountAccountingHolds | `Spec => []CountAccounting` |
| ReferencedIffTrackedHolds | `Spec => []ReferencedIffTracked` |
| CollectionReclaimsNothingHolds | `Spec => CollectionReclaimsNothing` |
| ByteAccountingHolds | `Spec => []ByteAccounting` |
| NoPendingCollectionHolds | `Spec => NoPendingCollection` |

Assumptions: `PoolAssumption` and `GcAssumption` of BreadMemory (constants are
of their types, malloc'd addresses are not inside chunks and are finitely many).

The argument. No property is inductive alone. `MemoryAccounting` needs that
`free_count` is positive only if a bit is set (else `LowestBit` picks anything)
and that blocks of chunks not yet pushed are not on the list; decreasing
`current_objects` exactly once for each object needs that only tracked objects
are freed; that a collection frees nothing needs that every tracked object has a
count; and that an untracked object has one only if a cleanup left it needs that
what is malloc'd is what is on the list or `forgotten`, because that is what a
cleanup leaves. `IInv` is the conjunction of the typed state, the pool's agreement with
the list, and counts; one lemma for each helper on manager records (`TakeOK`,
`PutOK`, `AllocatedOK`, `FreedOK`, `MovedOK`, `CollectedOK`, ...) shows that it
keeps a record well-formed, and `StepOK` has one step for each action.

The sum of `ByteAccounting` is a fold over a set. That the sum of a set is that of
the set without any one of its members, in whatever order the fold takes them,
is proved from a least counterexample by cardinality (`LeastIs`, `BytesOfOK`); an
allocation, a release and a move then add or take away one term. For
`NoPendingCollection`, `Armed` says that a collector that is on has no threshold
of zero: the setter of zero turns it off, and the adaptive threshold after a
collection stays positive.

`BreadModules_proofs` proves, for any set of modules and files and any depth of
calls (`FilesAssumption`, `DepthAssumption`: files are lists of statements, and
the C stack has room for one call):

| Theorem | Statement |
|---|---|
| Inductive | `Spec => []IInv` |
| TypeCorrect | `Spec => []TypeOK` |
| DependenciesFirstHolds | `Spec => []DependenciesFirst` |
| ListsHold | `Spec => []ListsOK` |
| OneOwnerHolds | `Spec => []OneOwner` |
| AliasAfterModuleHolds | `Spec => []AliasAfterModule` |

The argument. That a call has only stepped over imports of preprocessed modules
is not inductive: when a call returns, the one below steps over its import, and
nothing in the property says that this was the import of the module that
returned. `IInv` adds that each call on the stack waits, at an import, for the
module of the next call (`WaitsFor`), and that the program waits for the first.
The lemmas `CallsAdvance`, `CallsPush` and `CallsReturn` say so of a stack that is
stepped, pushed and popped, and there is one lemma for each action.

`OneOwner` is not inductive either, because it does not say which statements have
been taken out of their lists so far. `ListsOK` does: the rebuilt program and the
freed statements are disjoint, and together they are what the program has been
walked over and what the included modules held (`Gone`). The next statement, or
the module that is included next, is in neither, so that moving it makes no
second owner. For aliases it adds that the statements of an included module are
in the rebuilt program, after which an alias of that module can only follow.
`OwnersAssumption` says that no resolved path is one of the two words that the
model uses for the owners of other statements.

`BreadHeap_proofs` proves, for any finite sets of objects, variables and
temporaries (`HeapAssumption`) and any bounds:

| Theorem | Statement |
|---|---|
| HeapInvHolds | `Spec => []HeapInv` |
| TypesHold | `Spec => []TypeOK` |
| RefsExactHolds | `Spec => []RefsExact` |
| NoDanglingHolds | `Spec => []NoDangling` |
| GarbageExplainedHolds | `Spec => []GarbageExplained` |
| FreesOnlyGarbageHolds | `Spec => FreesOnlyGarbage` |

The argument. An operation is a sequence of primitives, and between two of them
the counts are not those of `RefsExact`: a value that has been retained for a
container is not in it yet. `HeapOK(g, owed)` therefore says of a heap `g` that
each count is what containers hold plus what is *owed*. Retaining raises what is
owed by one, releasing lowers it, putting a reference into a container or taking
it out moves one between the two (`RetainOK`, `ReleaseOK`, `FillOK`, `HoleOK`,
`AppendOK`, `RemoveOK`), and at the end of each operation what is owed is what
slots, C pointers and losses account for, which is `HeapInv`. The hard primitive
is a release that frees a whole graph (`Dead`, a least fixed point): nothing
outside it refers to what it frees (`DeadIs`, `DeadLoseAll`), so that the counts
of what survives fall by just what the freed objects held. `NoDangling` follows
from counts that are positive, `GarbageExplained` from the fact that a garbage
object with an accounted count has a garbage holder, and that walking from holder
to holder in a finite heap meets a cycle.

`BreadDict_proofs` proves, for any keys, hashes, literals and capacities:

| Theorem | Statement |
|---|---|
| DictInvHolds | `Spec => []DictInv` |
| TypesHold | `Spec => []TypeOK` |
| CountIsLiveHolds | `Spec => []CountIsLive` |
| KeysResolveHolds | `Spec => []KeysResolve` |
| MapSpecHolds | `Spec => MapSpec` |

`MapSpec` is the specification of BreadMap under the mapping `Dict`: the table's
initial states are the map's, and each step of the table is a step of the map or
changes nothing that the map has (`SetMaps`, `LookupMaps`, `NameMaps`,
`RemoveKeyMaps`, ..., `StepMaps`). Assumptions: `DictAssumption` (types of the
constants) and `LiteralsAssumption`, what `bread_dict_from_literal` accepts. The
second excludes literals that repeat a key. The code takes them and counts both
entries (`value_dict.c:167`); its only caller checks the count
(`collection_properties.c:1491`) and passes none.

The argument. `DictInv` says that no two live slots have one key, that the count
is that of the live slots, and, of a table that is probed, that the probe for
each stored key ends at its entry (`Reachable`) and, if no two keys collide
(`Separate`), that this entry is where the probe begins (`AtHome`). Inserting keeps other probes as they
were because it fills a slot that was free and not before any entry on its path
(`WrittenReachable`); growing puts the entries one after another into an empty
table, each of which has room left (`PlacedInOK`, `RoomLeft`); a probe of all
slots comes to each of them once (`ProbesCover`). Keys are removed only where none
collide (`CollisionFree`), and then `AtHome` is what makes a tombstone harmless; the
run `dict_remove` shows what happens without it.

`BreadBlocks_proofs` proves, for any names, integers, nesting and number of
iterations, about `ProgramSpec`:

| Theorem | Statement |
|---|---|
| BlocksInvHolds | `ProgramSpec => []BlocksInv` |
| DepthBalancedHolds | `ProgramSpec => []DepthBalanced` |
| CallerKeepsScopesHolds | `ProgramSpec => CallerKeepsScopes` |
| PlainProgramsAreLexicalHolds | `ProgramSpec => []PlainProgramsAreLexical` |

Assumptions: `BlocksAssumption` (the runtime's limit on scopes is not reached),
`IntegersAssumption` (variables are integers, and a scope has room for all names)
and that of BreadScopes, whose lemmas about declaring, assigning, pushing and
popping are used here.

The argument. `Shape` says which blocks have pushed a scope: all outside of calls,
and none but the call itself in a function. `Depths` says that the height of the
runtime's stack is one more than their number and that each remembers the height
it found. What a break, continue or return pops is then the blocks above the
one it goes to, whatever they are (`CutOK`). For plain programs `Lexical` adds that
scopes and blocks correspond one to one, with the same names and values; a block
that is left takes its scope with it, so that resolving a name from the innermost
scope and from the innermost block come to the same (`SameMeaning`).

`BreadScopes_proofs` proves, for any names, types, values and limits
(`ScopesAssumption`: names are finitely many, and there is room for one scope):

| Theorem | Statement |
|---|---|
| Inductive | `Spec => []IInv` |
| TypeCorrect | `Spec => []TypeOK` |
| ConstantsFixedHolds | `Spec => ConstantsFixed` |
| TypesSettleHolds | `Spec => TypesSettle` |
| OneBindingChangesHolds | `Spec => OneBindingChanges` |

The argument. That a variable holds a value of its type is kept only if the type
is one a value of which can be told: `IInv` says of every variable that its type is
a declared, numeric, optional or assigned one (`HeldTypes`), and of its value that
it is a zero or a coerced value (`Held`). `CoercedOK` and `StoredOK` say what
`coerce_and_assign` makes of a variable, and from what type to what type. A call
closes scopes, opens one, adds a variable or changes one (`PoppedOK`, `PushedOK`,
`DeclaredOK`, `AssignedOK`), so that each step keeps every variable of the scopes
that stay open or is one assignment (`StepOK`); the three action properties
follow from `ChangedOK`. `InnermostOK`, that the search from the innermost scope
ends in the scope it should, rests on the well-foundedness of the order of the
natural numbers, as nothing can be proved by induction.

`BreadClasses_proofs` proves, for any programs, names and bounds and for both
backends:

| Theorem | Statement |
|---|---|
| Inductive | `Spec => []IInv` |
| TypeCorrect | `Spec => []TypeOK` |
| DispatchIsLexicalHolds | `Spec => []DispatchIsLexical` |
| ObjectsRememberHolds | `Spec => []ObjectsRemember` |

Assumptions: `ProgramsAssumption` (programs are what the parser makes: a class has a
name, and one `init`, the first of its methods) and `BoundsAssumption` (arguments are
a list, bounds are numbers).

The argument. While classes are registered, the registry holds `Definition` of
each and what is left is in `todo`, in the order of `cg->classes`; after `Resolve`
it holds `Linked`, the definition with its parent (`RegistryDone`). The walk of the
runtime over `parent_class` is then the walk of the compiler over the declarations
(`DefinitionsAre`), both being the one chain of declared parents from a class
(`SameChain`), and so the first definition with the method is the nearest
declaration (`FindMethodIs`), and the fields of an instance, which come from the
registry, are those that the compiler counted (`InstanceFields`). A program
that runs changes neither (`RunKeeps`), so that each step only has to keep the
objects (`AssignedOK`, `ObjectAdded`) and the calls (`EnterOK`, `FramesKept`).

`ObjectsRemember` speaks of two things that a step can disturb, what a field holds
and whether its assignment has been reached, and needs an invariant of its own
beside `IInv`, `RInv`. For the first it says that the body of every call on an object is of a
class in its `Guests`, and that, where none of them assigns to a bare name, the
locals of a call are its parameters, so that the meaning of an expression is its
value. For the second it says that a constructor on the stack has assigned the
fields of all statements it has passed, and that what it has passed of
`super.init()` is settled (all its fields assigned) or is the call right above it;
an object is settled or its constructor is the first call. Once no constructor of
the object runs, only settled is left. `Links` comes in because it rules out that
`super.init()` is given more arguments than are passed on. Proving it corrected the property: its
first exceptions looked at the object's own class only, and a nil that was assigned
counted as nothing, so it held of the bounded programs and not of all.

`BreadEvaluation_proofs` proves, for any code, in the program and in a function,
any structs, number tokens and functions of one argument:

| Theorem | Statement |
|---|---|
| ScopedHolds | `Spec => []Scoped` |
| TypeCorrect | `Spec => []TypeOK` |
| TypeSoundHolds | `Spec => []TypeSound` |
| BoxingIsTransparentHolds | `Spec => []BoxingIsTransparent` |

Assumptions: `CodesAssumption` (a code is a list of statements whose expressions have
their parts before them, as many as the parser gives them), `MeaningAssumption` (a
number token is an Int or a Double), `FunctionsAssumption` (a function returns a
value of its type that holds nothing) and `StructsAssumption` (fields have types).

The argument. The values at the nodes of an expression are a function that is
defined by what it is at the parts of each node. `Climb`, a least counterexample,
is what there is in place of an induction: if each place of a list follows from
those before it, all do. `TypesOfIs`, `CanUnboxIs` and `UnboxedIs` turn the three
functions on nodes into equations by it, and everything about expressions is then
said of one node whose parts have it.

`Scoped` says that what a statement names has been declared before it, that the
analysis of all statements still holds when they run (types are only added, and an
expression depends on the types of its variables: `TypesStay`), and that a slot
without a box has a value of its declared type. This gives `TypeOK`. For
`BoxingIsTransparent` each slot is matched with the one that is computed when all
variables are in boxes (`Matches`, `BoxesMatch`): a slot without a box holds what
the box would, and an operator without boxes does what that of the runtime does,
but for the cases that the property names.

`TypeSound` is not inductive, because `HasType` looks at the levels of a type one
after another and says nothing of how an operator of the runtime makes one value of others. `Typed`
says the same of a value and the lists of what it holds (`Fold`, `Unfold`,
`TypedHasType`), and more, so that it is kept: an empty container is of any element
type that nobody told, keys are strings, the fields of a struct are of the types
that were declared. A value of a type is of each type that this is compatible with
(`CompatibleTyped`); each operator gives a value of the type that the analysis gives
(`BinaryTyped`, `UnaryTyped`, `ArrayFromTyped`, `DictFromTyped`, `IndexTyped`,
`MemberTyped`, `StructFromTyped`), and so does each kind of node (`BinaryNode`, ...,
`TreeComputes`). `WellTyped` is the invariant: variables hold values of their types,
an optional variable of the program an optional, and the last statement stored what
it computed. A store keeps it (`RawFits`, `KeptFits`, `StoresTyped`), and what the
variables hold does not change which earlier statements are excepted
(`SoundBefore`), because it is only for minus on a box that the slots
count, and their kinds stay.

Only model-checked: BreadParser, whose operators recurse over tokens
(`RECURSIVE` declarations cost the prover its arithmetic, and what a
recursive definition computes for every input would need induction);
the liveness property `Terminates` of BreadModules, and `ENABLED`, which
are out of the prover's reach. That `Dead`, `Reach` and the sums are fixed points and
folds, and `TypesOf` and `Unboxed` functions on a finite list, and none of them a
recursion, is what allows the proofs above.

## Not modelled

The characters of tokens, printing and dumping, LLVM emission, linking and the
set-up of the JIT (calls into libraries), conversions in `builtins.c`;
`parser/expr.c` and `parser/expr_ops.c`, an interpreter that compiled programs do
not use; the escape analysis and the optimiser. Calls of functions with default
arguments, for-in loops, slices and ranges are missing from BreadEvaluation, static
types of variables of classes from BreadClasses. `bread_memory_realloc` of an object that a
cleanup left, or that was never tracked, is missing from BreadMemory. Integers are unbounded and
doubles exact in BreadEvaluation, so that overflow and rounding are not seen.
`PROJECT.json` lists every component with its status.

## Plan

In order of what matters to a running program:

1. BreadModules: aliases inside import lists, the search for a path, who owns
   the statements after an import has failed half-way.
2. **BreadLifecycle** (`main.c`, `llvm_backend_codegen.c`, `string_ops.c`,
   `error.c`): order of initialisation and clean-up over the intern table, the
   variables and the pool.
3. BreadEvaluation: integer width, functions and their default arguments
   (`function.c`), slices and ranges.
4. **BreadAnalyses** (`escape_analysis.c`, `type_stability.c`,
   `optimization.c`): soundness of the facts the optimiser acts on.
5. BreadBlocks: for-in loops, unset slots; BreadMemory: objects whose list node
   could not be allocated.
6. BreadClasses: variables of a static type, references to parents.

The syntax modules recurse over tokens, which puts them out of the prover's
reach; they stay with TLC.
