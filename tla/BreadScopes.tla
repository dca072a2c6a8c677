----------------------------- MODULE BreadScopes -----------------------------
(***************************************************************************)
(* The variables of a running BreadLang program: the stack of scopes in    *)
(* src/core/var.c and the functions of src/runtime/runtime.c that compiled *)
(* code calls to declare, assign and load a variable by its name.          *)
(*                                                                         *)
(* A value is a record of its type and its payload.  A number counts       *)
(* halves, so that a Double or a Float may have a fraction; an Optional    *)
(* holds a set of at most one value; any other value refers to an object.  *)
(***************************************************************************)
EXTENDS Integers, FiniteSets, FiniteSetsExt, Sequences, SequencesExt

CONSTANTS
  Names,      \* names of variables
  Types,      \* types a declaration names
  Values,     \* values that are assigned
  NoValue,    \* a declaration without an initial value
  Null,       \* a null pointer to an object
  MaxScopes,  \* MAX_SCOPES
  MaxVars     \* MAX_VARS, for each scope

ASSUME ScopesAssumption ==
  /\ IsFiniteSet(Names)
  /\ NoValue \notin Values
  /\ MaxScopes \in Nat \ {0}
  /\ MaxVars \in Nat

VARIABLES
  scopes,  \* the open scopes, outermost first: each maps a name to a variable
  aborted  \* a fatal error has stopped the process

vars == <<scopes, aborted>>

-----------------------------------------------------------------------------
(* Coercion.                                                               *)

Numeric == {"Int", "Float", "Double"}

Nil             == [type |-> "Nil"]
Number(type, h) == [type |-> type, halves |-> h]
Optional(some)  == [type |-> "Optional", some |-> some]
Object(type, o) == [type |-> type, of |-> o]

Zero(type) ==
  CASE type = "Nil"      -> Nil
    [] type \in Numeric  -> Number(type, 0)
    [] type = "Optional" -> Optional({})
    [] OTHER             -> Object(type, Null)

\* A cast to int drops the fraction.
Truncated(halves) ==
  IF halves >= 0 THEN 2 * (halves \div 2) ELSE -(2 * (-halves \div 2))

\* Slip: a struct variable takes any object or number.
AcceptsForStruct(type, v) ==
  \/ type \in {"Nil", v.type, "Optional", "Struct"}
  \/ {type, v.type} \subseteq Numeric

\* coerce_and_assign accepts the value: a variable without a type takes that of
\* its first value, and a variable declared with a struct type may turn out
\* to hold an instance of a class.
Accepts(type, v) ==
  \/ type \in {"Nil", v.type, "Optional"}
  \/ {type, v.type} \subseteq Numeric
  \/ type = "Struct" /\ v.type = "Class"

Coerced(type, v) ==
  IF type \in Numeric \ {v.type}
  THEN Number(type, IF type = "Int" THEN Truncated(v.halves) ELSE v.halves)
  ELSE IF type = "Optional" /\ v.type # "Optional"
       THEN Optional({v} \ {Nil})
       ELSE v

-----------------------------------------------------------------------------
(* The stack of scopes.                                                    *)

\* get_variable looks from the innermost scope outwards.
Innermost(sc, n) == Max({0} \cup {s \in DOMAIN sc : n \in DOMAIN sc[s]})
Visible(sc, n)   == Innermost(sc, n) # 0
Variable(sc, n)  == sc[Innermost(sc, n)][n]

Bind(scope, n, var) ==
  [m \in DOMAIN scope \cup {n} |-> IF m = n THEN var ELSE scope[m]]

\* Slip: the type the variable was declared with stays.
StoredUntyped(var, v) ==
  IF Accepts(var.type, v) THEN [var EXCEPT !.value = Coerced(var.type, v)] ELSE var

\* coerce_and_assign: the variable takes on the type of what it now holds.
Stored(var, v) ==
  LET held == Coerced(var.type, v)
  IN  IF Accepts(var.type, v) THEN [var EXCEPT !.type = held.type, !.value = held] ELSE var

\* Slip: the search begins with the outermost scope.
AssignedOutermost(sc, n, v) ==
  [sc EXCEPT ![Min({s \in DOMAIN sc : n \in DOMAIN sc[s]})][n] = Stored(@, v)]

Assigned(sc, n, v) == [sc EXCEPT ![Innermost(sc, n)][n] = Stored(@, v)]

CanPush(sc) == Len(sc) < MaxScopes
Pushed(sc)  == Append(sc, <<>>)
CanPop(sc)  == Len(sc) > 1
PoppedTo(sc, depth) == SubSeq(sc, 1, depth)

\* declare_variable_raw stops the program on a second declaration in the scope.
CanDeclare(sc, n) ==
  /\ sc # <<>>
  /\ n \notin DOMAIN Last(sc)
  /\ Cardinality(DOMAIN Last(sc)) < MaxVars

\* bread_var_decl: the variable is there, with a zero value, before its initial
\* value is tried on it.
Declared(sc, n, type, const, v) ==
  LET zero == [type |-> type, const |-> const, value |-> Zero(type)]
  IN  [sc EXCEPT ![Len(sc)] = Bind(@, n, IF v = NoValue THEN zero ELSE Stored(zero, v))]

-----------------------------------------------------------------------------
(* Calls.                                                                  *)

\* init_variables.
Init ==
  /\ scopes  = << <<>> >>
  /\ aborted = FALSE

\* A runtime error ends the process.
Abort == aborted' = TRUE /\ UNCHANGED scopes

Become(sc) == scopes' = sc /\ UNCHANGED aborted

\* push_scope.
Push == /\ ~aborted
        /\ IF CanPush(scopes) THEN Become(Pushed(scopes)) ELSE Abort

\* pop_scope.
Pop == /\ ~aborted
       /\ IF CanPop(scopes) THEN Become(PoppedTo(scopes, Len(scopes) - 1)) ELSE Abort

\* pop_to_scope_depth.
PopTo(depth) ==
  /\ ~aborted
  /\ IF depth \in 1 .. Len(scopes) THEN Become(PoppedTo(scopes, depth)) ELSE Abort

\* bread_var_decl.
Declare(n, type, const, v) ==
  /\ ~aborted
  /\ IF CanDeclare(scopes, n) THEN Become(Declared(scopes, n, type, const, v)) ELSE Abort

\* bread_var_decl_if_missing looks for the name in every scope.
DeclareIfMissing(n, type, const, v) ==
  /\ ~Visible(scopes, n)
  /\ Declare(n, type, const, v)

\* Slip: is_const is not looked at.
AssignAlways(n, v) ==
  /\ ~aborted
  /\ Visible(scopes, n)
  /\ Become(Assigned(scopes, n, v))

\* bread_var_assign; an unknown name or a value of a wrong type changes nothing.
Assign(n, v) ==
  /\ ~aborted
  /\ Visible(scopes, n)
  /\ IF Variable(scopes, n).const THEN Abort ELSE Become(Assigned(scopes, n, v))

\* cleanup_variables leaves no scope at all; pushing one is still possible.
CleanupVariables == ~aborted /\ Become(<<>>)

Next ==
  \/ Push \/ Pop \/ CleanupVariables
  \/ \E depth \in 0 .. (MaxScopes + 1) : PopTo(depth)
  \/ \E n \in Names, type \in Types, const \in BOOLEAN, v \in Values \cup {NoValue} :
       Declare(n, type, const, v) \/ DeclareIfMissing(n, type, const, v)
  \/ \E n \in Names, v \in Values : Assign(n, v)

Spec == Init /\ [][Next]_vars

-----------------------------------------------------------------------------
(* Properties.                                                             *)

\* The stack keeps its shape: at most MaxScopes scopes of at most MaxVars
\* variables, and a variable holds a value of its own type, whatever was
\* assigned to it, coerced or refused.  load, release and retain pick the
\* member of the value union by that type.
TypeOK ==
  /\ Len(scopes) <= MaxScopes
  /\ \A s \in DOMAIN scopes :
       /\ DOMAIN scopes[s] \subseteq Names
       /\ Cardinality(DOMAIN scopes[s]) <= MaxVars
       /\ \A n \in DOMAIN scopes[s] :
            /\ scopes[s][n].const \in BOOLEAN
            /\ scopes[s][n].value.type = scopes[s][n].type
  /\ aborted \in BOOLEAN

\* The variables that are there before and after a step.
Lasting == {x \in (DOMAIN scopes \cap DOMAIN scopes') \X Names :
              x[2] \in DOMAIN scopes[x[1]] \cap DOMAIN scopes'[x[1]]}

Changed == {x \in Lasting : scopes'[x[1]][x[2]] # scopes[x[1]][x[2]]}

\* Once declared, a constant keeps its value as long as its scope is open, also
\* when the name is declared again further in and assigned there.
ConstantsFixed == [][\A x \in Changed : ~scopes[x[1]][x[2]].const]_vars

\* A call changes at most one variable, the innermost of its name, and takes none
\* out of a scope that stays open: what an inner scope does to its own
\* variables is undone by popping it.
OneBindingChanges ==
  [][/\ Cardinality(Changed) <= 1
     /\ \A x \in Changed : x[1] = Innermost(scopes, x[2]) /\ Len(scopes') = Len(scopes)
     /\ \A s \in DOMAIN scopes \cap DOMAIN scopes' : DOMAIN scopes[s] \subseteq DOMAIN scopes'[s]
    ]_vars

\* The type of a variable settles: only a variable without a type takes one, and
\* only a struct becomes a class instance.
TypesSettle ==
  [][\A x \in Changed :
       LET old == scopes[x[1]][x[2]].type
           new == scopes'[x[1]][x[2]].type
       IN  old # new => old = "Nil" \/ <<old, new>> = <<"Struct", "Class">>]_vars
=============================================================================
