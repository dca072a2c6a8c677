---------------------------- MODULE BreadModules ----------------------------
(***************************************************************************)
(* Imports of a BreadLang program (src/core/module.c): loading the modules *)
(* a program names, preprocessing each of them and, first, those that it   *)
(* imports, and splicing them into the statement list that is compiled.    *)
(*                                                                         *)
(* A module is a resolved path.  The recursion of module_preprocess_module *)
(* and module_preprocess_stmt_list is an explicit stack, and a step is one *)
(* statement.  module_compile sets is_loading and clears it again before   *)
(* it returns, and calls nothing that comes back to this file: its test    *)
(* for a circular dependency never succeeds, and is_loading is left out.   *)
(***************************************************************************)
EXTENDS Integers, FiniteSets, Sequences, SequencesExt

CONSTANTS
  Modules,     \* resolved paths
  Names,       \* names of variables and functions
  Bodies,      \* statement lists a module file may hold
  Programs,    \* statement lists of the program
  Unreadable,  \* instead of a body: the file cannot be read or parsed
  None,        \* no name
  MaxDepth     \* calls that the C stack has room for

VARIABLES
  body,          \* Module.ast: the statements of each module, or Unreadable
  program,       \* the statements of the program
  at,            \* the statement of the program that is looked at
  returned,      \* its import has preprocessed the module it names
  stack,         \* the calls of module_preprocess_stmt_list, outermost first
  loaded,        \* the modules in the registry
  preprocessed,  \* Module.is_preprocessed
  included,      \* Module.is_included
  exports,       \* Module.exports
  default,       \* Module.default_export_name
  qualified,     \* g_qualified_symbols, as pairs of module and name
  vars,          \* variables declared at compile time
  funcs,         \* functions registered
  out,           \* the list that the program is rebuilt in
  freed,         \* statements freed on the way
  phase          \* "running", "done", "failed", or "crashed"

files == <<body, program>>
names == <<exports, default, qualified, vars, funcs>>
lists == <<included, out, freed>>
all   == <<files, at, returned, stack, loaded, preprocessed, names, lists, phase>>

-----------------------------------------------------------------------------
(* Statements.                                                             *)

Import(m, alias)   == [kind |-> "import", of |-> m, as |-> alias]
Selective(m, some) == [kind |-> "selective", of |-> m, names |-> some]
Export(n, isDefault) == [kind |-> "export", name |-> n, default |-> isDefault]
Var(n)  == [kind |-> "var", name |-> n]
Func(n) == [kind |-> "func", name |-> n]
Other   == [kind |-> "other"]

Statements ==
  [kind : {"import"}, of : Modules, as : Names \cup {None}]
    \cup [kind : {"selective"}, of : Modules, names : SUBSET Names]
    \cup [kind : {"export"}, name : Names, default : BOOLEAN]
    \cup [kind : {"var", "func"}, name : Names] \cup [kind : {"other"}]

IsImport(s) == s.kind \in {"import", "selective"}
Kept(s)     == ~IsImport(s) /\ s.kind # "export"

\* A statement is identified by the list it was parsed into and its place there.
Places(owner, list) == [i \in DOMAIN list |-> <<owner, i>>]
Main == "program"
AliasDecl(m, n) == <<"alias", m, n>>

Imports(m) ==
  IF body[m] = Unreadable THEN {} ELSE {s.of : s \in {x \in ToSet(body[m]) : IsImport(x)}}

\* What the parser makes of a file, and a stack that has room for a call.
ASSUME FilesAssumption ==
  /\ Bodies \subseteq Seq(Statements) /\ Programs \subseteq Seq(Statements)
  /\ Unreadable \notin Bodies
\* A resolved path is neither of the words that tell other statements apart.
ASSUME OwnersAssumption == {Main, "alias"} \cap Modules = {}
ASSUME DepthAssumption == MaxDepth \in Nat \ {0}

-----------------------------------------------------------------------------
Init ==
  /\ body \in [Modules -> Bodies \cup {Unreadable}]
  /\ program \in Programs
  /\ at = 1
  /\ returned = FALSE
  /\ stack = <<>>
  /\ loaded = {} /\ preprocessed = {} /\ included = {}
  /\ exports = [m \in Modules |-> {}]
  /\ default = [m \in Modules |-> None]
  /\ qualified = {} /\ vars = {} /\ funcs = {}
  /\ out = <<>> /\ freed = {}
  /\ phase = "running"

\* Every caller returns 0 at once, up to main, which compiles nothing: what the
\* failing call had already changed is left out.
Fail == /\ phase' = "failed"
        /\ UNCHANGED <<files, at, returned, stack, loaded, preprocessed, names, lists>>

Top       == Last(stack)
Statement == body[Top.of][Top.at]
AtStatement == phase = "running" /\ stack # <<>> /\ Top.at <= Len(body[Top.of])
Advanced(st) == [st EXCEPT ![Len(st)].at = @ + 1]

\* module_load and module_compile: a module enters the registry once, and its
\* file is read and parsed once.
Load(m)     == loaded' = loaded \cup {m}
Compiles(m) == body[m] # Unreadable

\* module_preprocess_module of a module that is not preprocessed yet, called
\* from the state in which the caller left the stack.
Call(m) ==
  IF Len(stack) = MaxDepth
  THEN phase' = "crashed" /\ UNCHANGED stack
  ELSE stack' = Append(stack, [of |-> m, at |-> 1]) /\ UNCHANGED phase

\* The body of a module has been processed.
Return ==
  /\ phase = "running" /\ stack # <<>>
  /\ Top.at > Len(body[Top.of])
  /\ preprocessed' = preprocessed \cup {Top.of}
  /\ stack' = IF Len(stack) = 1 THEN <<>> ELSE Advanced(Front(stack))
  /\ returned' = (Len(stack) = 1)
  /\ UNCHANGED <<files, at, loaded, names, lists, phase>>

-----------------------------------------------------------------------------
(* Statements of a module.                                                 *)

\* The names that process_import_statement registers for an import: those that
\* are asked for, or all that the module has exported so far.
Registered(s) ==
  IF s.kind = "selective" THEN {s.of} \X s.names
  ELSE {IF s.as = None THEN s.of ELSE s.as} \X exports[s.of]

\* module_register_qualified_symbol refuses a name that is registered.
CanQualify(new) == new \cap qualified = {}

CanRegister(s) ==
  /\ s.kind = "selective" => s.names \subseteq exports[s.of]
  /\ CanQualify(Registered(s))

\* Slip: a module that has been compiled is taken for preprocessed.
ImportCompiled ==
  /\ AtStatement
  /\ IsImport(Statement)
  /\ LET s == Statement
     IN  IF ~Compiles(s.of) \/ ~CanRegister(s) THEN Fail
         ELSE /\ Load(s.of)
              /\ qualified' = qualified \cup Registered(s)
              /\ IF s.of \in loaded
                 THEN stack' = Advanced(stack) /\ UNCHANGED phase
                 ELSE Call(s.of)
              /\ UNCHANGED <<files, at, returned, preprocessed, exports, default,
                             vars, funcs, lists>>

\* process_import_statement, then module_preprocess_module.
ImportInModule ==
  /\ AtStatement
  /\ IsImport(Statement)
  /\ LET s == Statement
     IN  IF ~Compiles(s.of) \/ ~CanRegister(s) THEN Fail
         ELSE /\ Load(s.of)
              /\ qualified' = qualified \cup Registered(s)
              /\ IF s.of \in preprocessed
                 THEN stack' = Advanced(stack) /\ UNCHANGED phase
                 ELSE Call(s.of)
              /\ UNCHANGED <<files, at, returned, preprocessed, exports, default,
                             vars, funcs, lists>>

\* module_add_export: each name once, and one default.
CanAdd(m, s) ==
  /\ s.name \notin exports[m]
  /\ s.default => default[m] = None

\* Slip: any name can be exported.
CanExportUnknown(m, s) == CanAdd(m, s)

\* A variable or a function that has been declared, a variable for the default.
CanExport(m, s) ==
  /\ s.name \in vars \cup funcs
  /\ s.default => s.name \in vars
  /\ CanAdd(m, s)

\* process_export_statement, and the default export's variable.
ExportInModule ==
  /\ AtStatement
  /\ Statement.kind = "export"
  /\ LET s == Statement
         m == Top.of
     IN  IF ~CanExport(m, s) THEN Fail
         ELSE /\ exports' = [exports EXCEPT ![m] = @ \cup {s.name}]
              /\ default' = IF s.default THEN [default EXCEPT ![m] = s.name] ELSE default
              /\ stack' = Advanced(stack)
              /\ UNCHANGED <<files, at, returned, loaded, preprocessed, qualified,
                             vars, funcs, lists, phase>>

\* A function is registered once, whatever module declares it; a variable is
\* declared unless there is one of its name.
DeclareInModule ==
  /\ AtStatement
  /\ Statement.kind \in {"func", "var", "other"}
  /\ IF Statement.kind = "func" /\ Statement.name \in funcs THEN Fail
     ELSE /\ funcs' = IF Statement.kind = "func" THEN funcs \cup {Statement.name} ELSE funcs
          /\ vars'  = IF Statement.kind = "var" THEN vars \cup {Statement.name} ELSE vars
          /\ stack' = Advanced(stack)
          /\ UNCHANGED <<files, at, returned, loaded, preprocessed, exports, default,
                         qualified, lists, phase>>

-----------------------------------------------------------------------------
(* Statements of the program: module_preprocess_program.                   *)

AtProgram == phase = "running" /\ stack = <<>> /\ at <= Len(program)

\* module_load, then module_preprocess_module.
ImportInProgram ==
  /\ AtProgram /\ ~returned
  /\ IsImport(program[at])
  /\ LET m == program[at].of
     IN  IF ~Compiles(m) THEN Fail
         ELSE /\ Load(m)
              /\ IF m \in preprocessed
                 THEN returned' = TRUE /\ UNCHANGED <<stack, phase>>
                 ELSE Call(m) /\ UNCHANGED returned
              /\ UNCHANGED <<files, at, preprocessed, names, lists>>

\* The places of the statements of a list that are compiled, in their order.
KeptPlaces(owner, list) ==
  LET kept[n \in 0 .. Len(list)] ==
        IF n = 0 THEN <<>>
        ELSE IF Kept(list[n]) THEN Append(kept[n - 1], <<owner, n>>) ELSE kept[n - 1]
  IN  kept[Len(list)]

\* A module is spliced in by its first import in the program.
Spliced(m) == KeptPlaces(m, body[m])
Dropped(m) == ToSet(Places(m, body[m])) \ ToSet(Spliced(m))

AliasFor(s) ==
  IF s.kind = "import" /\ s.as # None THEN <<AliasDecl(s.of, default[s.of])>> ELSE <<>>

\* Slip: a module is spliced in by each of its imports.
IncludeAgain ==
  /\ AtProgram /\ returned
  /\ LET s == program[at]
     IN  IF default[s.of] = None THEN Fail
         ELSE /\ out' = out \o Spliced(s.of) \o AliasFor(s)
              /\ freed' = freed \cup {<<Main, at>>} \cup Dropped(s.of)
              /\ included' = included \cup {s.of}
              /\ at' = at + 1
              /\ returned' = FALSE
              /\ UNCHANGED <<files, stack, loaded, preprocessed, names, phase>>

\* Slip: the alias is declared before the module's statements.
IncludeAliasFirst ==
  /\ AtProgram /\ returned
  /\ LET s == program[at]
         new == s.of \notin included
     IN  IF default[s.of] = None THEN Fail
         ELSE /\ out' = out \o AliasFor(s) \o IF new THEN Spliced(s.of) ELSE <<>>
              /\ freed' = freed \cup {<<Main, at>>} \cup IF new THEN Dropped(s.of) ELSE {}
              /\ included' = included \cup {s.of}
              /\ at' = at + 1
              /\ returned' = FALSE
              /\ UNCHANGED <<files, stack, loaded, preprocessed, names, phase>>

\* The imported module has been preprocessed: its statements move into the
\* program, its imports and exports are freed, and so is the import.
Include ==
  /\ AtProgram /\ returned
  /\ LET s == program[at]
         new == s.of \notin included
     IN  IF default[s.of] = None THEN Fail
         ELSE /\ out' = out \o (IF new THEN Spliced(s.of) ELSE <<>>) \o AliasFor(s)
              /\ freed' = freed \cup {<<Main, at>>} \cup IF new THEN Dropped(s.of) ELSE {}
              /\ included' = included \cup {s.of}
              /\ at' = at + 1
              /\ returned' = FALSE
              /\ UNCHANGED <<files, stack, loaded, preprocessed, names, phase>>

\* Slip: an export is freed and not stepped over.
MoveOnlyStatements ==
  /\ AtProgram
  /\ ~IsImport(program[at])
  /\ out'   = IF Kept(program[at]) THEN Append(out, <<Main, at>>) ELSE out
  /\ freed' = IF Kept(program[at]) THEN freed ELSE freed \cup {<<Main, at>>}
  /\ at' = IF Kept(program[at]) THEN at + 1 ELSE at
  /\ UNCHANGED <<files, returned, stack, loaded, preprocessed, names, included, phase>>

\* Any other statement: an export is freed, the rest moves.
Move ==
  /\ AtProgram
  /\ ~IsImport(program[at])
  /\ out'   = IF Kept(program[at]) THEN Append(out, <<Main, at>>) ELSE out
  /\ freed' = IF Kept(program[at]) THEN freed ELSE freed \cup {<<Main, at>>}
  /\ at' = at + 1
  /\ UNCHANGED <<files, returned, stack, loaded, preprocessed, names, included, phase>>

Finish ==
  /\ phase = "running" /\ stack = <<>> /\ at > Len(program)
  /\ phase' = "done"
  /\ UNCHANGED <<files, at, returned, stack, loaded, preprocessed, names, lists>>

Next ==
  \/ ImportInModule \/ ExportInModule \/ DeclareInModule \/ Return
  \/ ImportInProgram \/ Include \/ Move \/ Finish

\* The compiler keeps running until it is done.
Spec == Init /\ [][Next]_all /\ WF_all(Next)

-----------------------------------------------------------------------------
(* Properties.                                                             *)

\* Every variable keeps its type.
TypeOK ==
  /\ at \in 1 .. (Len(program) + 1)
  /\ returned \in BOOLEAN
  /\ \A f \in ToSet(stack) : f.of \in loaded /\ f.at \in 1 .. (Len(body[f.of]) + 1)
  /\ Len(stack) <= MaxDepth
  /\ preprocessed \subseteq loaded /\ included \subseteq preprocessed
  /\ loaded \subseteq {m \in Modules : body[m] # Unreadable}
  /\ \A m \in Modules : exports[m] \subseteq vars \cup funcs
  /\ \A m \in Modules : default[m] \in exports[m] \cup {None}
  /\ phase \in {"running", "done", "failed", "crashed"}

\* Until an import fails, every statement that was parsed has exactly one owner:
\* it is still in its list, or it is in the rebuilt program once, or it has been
\* freed, and never two of these, in whatever order modules are imported and
\* imported again.
OneOwner ==
  LET Settled(owner) == {p \in ToSet(out) \cup freed : p[1] = owner}
  IN  /\ ToSet(out) \cap freed = {}
      /\ \A i, j \in DOMAIN out : out[i] = out[j] /\ out[i][1] # "alias" => i = j
      /\ Settled(Main) = {<<Main, i>> : i \in 1 .. (at - 1)}
      /\ \A m \in Modules :
           Settled(m) = IF m \in included THEN ToSet(Places(m, body[m])) ELSE {}

\* A module is preprocessed after all that it imports, directly or not: what it
\* exports and declares may rest on them.  Modules that import each other are
\* never taken for preprocessed.
DependenciesFirst ==
  /\ \A m \in preprocessed : Imports(m) \subseteq preprocessed
  /\ \A f \in ToSet(stack) :
       \A i \in 1 .. (f.at - 1) : IsImport(body[f.of][i]) => body[f.of][i].of \in preprocessed

\* An alias is declared where the statements of its module already stand, so that
\* its initial value, the module's default export, is read after it was set.
AliasAfterModule ==
  \A i \in DOMAIN out :
    out[i][1] = "alias" => ToSet(Spliced(out[i][2])) \subseteq ToSet(SubSeq(out, 1, i))

\* No module imports itself, be it through others.
Acyclic ==
  \A S \in SUBSET Modules : S # {} => \E m \in S : Imports(m) \cap S = {}

\* Preprocessing ends, with a program or with an error, unless modules import
\* each other.
Terminates == Acyclic => <>(phase \in {"done", "failed"})
=============================================================================
