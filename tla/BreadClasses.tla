---------------------------- MODULE BreadClasses ----------------------------
(***************************************************************************)
(* Classes from their declarations to their objects: what the compiler     *)
(* keeps of a class (codegen/codegen_semantic.c), the functions that it    *)
(* generates for constructors and methods (codegen/codegen_stmt.c), the    *)
(* registry that is filled with definitions before the program starts      *)
(* (backends/llvm_backend_emit.c in an executable,                         *)
(* codegen/codegen_runtime_bridge.c under the JIT), and the objects, field *)
(* accesses, method calls and constructors of a running program            *)
(* (core/value_class.c, runtime/operators.c, codegen/codegen_expr.c).      *)
(*                                                                         *)
(* Names of classes, methods, functions and variables are sequences of     *)
(* parts, since the code joins them and searches in them.  Only            *)
(* constructors take arguments here: methods are called by the same code.  *)
(* Every class has a constructor, the parser refuses one without           *)
(* (ast_stmt_parser.c:1186), so the default constructors of the runtime    *)
(* are out of reach.  Reference counts are those of BreadHeap.             *)
(***************************************************************************)
EXTENDS Integers, FiniteSets, SequencesExt

CONSTANTS Programs,      \* sequences of declarations of classes and functions
          Calls,         \* names of methods that the program calls
          Variables,     \* names of variables
          Arguments,     \* what constructors are given, as many as any of them takes
          Plain,         \* a value that the program assigns to fields
          MaxObjects, MaxFrames

VARIABLES backend,       \* an executable ("aot") or the JIT ("jit")
          program,       \* the declarations, in the order of the source
          phase,
          todo,          \* cg->classes that have no definition yet, the newest first
          registry,      \* class_registry
          objects,       \* instances, in the order of their creation
          frames,        \* calls of constructors and methods, the innermost last
          meant          \* for each instance, the last that was assigned to its fields,
                         \* <<>> where nothing was

vars == <<backend, program, phase, todo, registry, objects, frames, meant>>
compiled == <<backend, program, todo, registry>>

None == <<>>                                      \* no class
Nil  == "nil"
InitName == <<"init">>
-----------------------------------------------------------------------------
(* What the compiler keeps of the source: cg->classes, which are found by name. *)
Class(name, parent, fields, params, body, methods) ==
    [function |-> FALSE, name |-> name, parent |-> parent, fields |-> fields,
     methods |-> <<[name |-> InitName, params |-> params, body |-> body]>> \o methods]
Method(name, body) == [name |-> name, params |-> <<>>, body |-> body]
Function(name) == [function |-> TRUE, name |-> name, methods |-> <<Method(name, <<>>)>>]

\* What the parser makes of a source: a class has a name, and one constructor, which comes
\* first among its methods.
IsList(s)  == s \in Seq(ToSet(s))
IsClass(d) == /\ d.name # None /\ IsList(d.fields) /\ IsList(d.methods)
              /\ d.methods # <<>> /\ \A j \in DOMAIN d.methods : d.methods[j].name = InitName <=> j = 1
              /\ \A j \in DOMAIN d.methods :
                   /\ IsList(d.methods[j].params) /\ IsList(d.methods[j].body)
                   /\ \A s \in ToSet(d.methods[j].body) : s.do = "super" => IsList(s.args)
ASSUME ProgramsAssumption == \A p \in Programs :
    IsList(p) /\ \A i \in DOMAIN p : p[i].function \in BOOLEAN /\ (~ p[i].function => IsClass(p[i]))
ASSUME BoundsAssumption == IsList(Arguments) /\ MaxObjects \in Nat /\ MaxFrames \in Nat

Classes ==
    LET kept[n \in 0..Len(program)] ==
          IF n = 0 THEN <<>>
          ELSE IF program[n].function THEN kept[n - 1] ELSE Append(kept[n - 1], program[n])
    IN  kept[Len(program)]
Declared(c) == \E i \in DOMAIN Classes : Classes[i].name = c
Decl(c)     == Classes[SelectInSeq(Classes, LAMBDA d : d.name = c)]
Named(names, m) == SelectInSeq(names, LAMBDA n : n.name = m)        \* 0 when there is none

(* The class, its parent and so on, as long as they are declared; longer than
   there are classes when it never ends. *)
Lineage(c) ==
    LET up[n \in 0..Len(Classes)] ==
          IF n = 0 THEN <<c>>
          ELSE LET p == Decl(Last(up[n - 1])).parent
               IN  IF Declared(p) THEN Append(up[n - 1], p) ELSE up[n - 1]
    IN  up[Len(Classes)]
Endless(c)   == Len(Lineage(c)) > Len(Classes)
ParentsFirst(lineage, Of(_)) == FlattenSeq(Reverse([i \in DOMAIN lineage |-> Of(lineage[i])]))
AllFields(c) == ParentsFirst(Lineage(c), LAMBDA k : Decl(k).fields)

(* A generated function: the method of that index, 1 for the constructor.  A function
   of the program has the class None. *)
Code(class, index) == [class |-> class, index |-> index]
NoCode == Code(None, 0)

(* The statements of a body as far as they can be generated: the failure of one, here
   super in a class without a parent, ends the body and nothing else. *)
Builds(d, s) == d.parent # None \/ s.do \notin {"super", "superCall"}
Body(code) ==
    IF code.class = None THEN <<>>
    ELSE LET d == Decl(code.class)
             b == d.methods[code.index].body
             n == SelectInSeq(b, LAMBDA s : ~ Builds(d, s))
         IN  IF n = 0 THEN b ELSE SubSeq(b, 1, n - 1)
Params(code) == IF code.class = None THEN <<>> ELSE Decl(code.class).methods[code.index].params

(* The module's functions by their names, of which the first keeps its name. *)
Symbol(c, m) == c \o <<"_">> \o m
Symbols ==
    LET of(d) == IF d.function THEN <<[name |-> d.name, code |-> Code(None, 1)]>>
                 ELSE [j \in DOMAIN d.methods |->
                          [name |-> Symbol(d.name, d.methods[j].name), code |-> Code(d.name, j)]]
    IN  FlattenSeq([i \in DOMAIN program |-> of(program[i])])
FunctionNamed(s) == Symbols[Named(Symbols, s)].code

(* A method call on a variable whose name contains that of a class is taken for a call
   of that class; of several, the newest. *)
Within(part, name) == \E i, j \in DOMAIN name : SubSeq(name, i, j) = part
NamesakeIn(v, m, classes) ==
    LET n == SelectInSeq(classes, LAMBDA d : Within(d.name, v))
    IN  IF n = 0 \/ m = InitName THEN NoCode
        ELSE LET j == Named(classes[n].methods, m)
             IN  IF j = 0 THEN NoCode ELSE Code(classes[n].name, j)
Namesake(v, m) == NamesakeIn(v, m, Reverse(Classes))

(* More than three arguments of super.init() go through a function that does not exist. *)
Links == \A i \in DOMAIN Classes : \A j \in DOMAIN Classes[i].methods :
           LET b == Body(Code(Classes[i].name, j))
           IN  \A n \in DOMAIN b : b[n].do = "super" => Len(b[n].args) <= 3

-----------------------------------------------------------------------------
(* The registry.  In an executable a definition is an instance with all fields, and its
   functions are looked up by name; under the JIT it has its own fields. *)
Definition(c) ==
    LET d == Decl(c)
        code(j) == IF backend = "aot" THEN FunctionNamed(Symbol(c, d.methods[j].name)) ELSE Code(c, j)
        (* The functions of methods of one name are all put into the first of them. *)
        last(m) == CHOOSE j \in DOMAIN d.methods : /\ d.methods[j].name = m
                                                   /\ \A k \in j + 1..Len(d.methods) : d.methods[k].name # m
    IN  [name |-> c, parentName |-> d.parent, parent |-> None,
         fields |-> IF backend = "aot" THEN AllFields(c) ELSE d.fields,
         methods |-> [j \in DOMAIN d.methods |->
                        [name |-> d.methods[j].name,
                         code |-> IF Named(d.methods, d.methods[j].name) = j THEN code(last(d.methods[j].name))
                                  ELSE NoCode]]]

Find(c) == Named(registry, c)                     \* bread_class_find_definition

(* parent_class by parent_class. *)
Definitions(c) ==
    LET up[n \in 0..Len(registry)] ==
          IF n = 0 THEN <<registry[Find(c)]>>
          ELSE IF Last(up[n - 1]).parent = None THEN up[n - 1]
          ELSE Append(up[n - 1], registry[Find(Last(up[n - 1]).parent)])
    IN  up[Len(registry)]

(* Slip: an instance has the fields that its class declares. *)
InstanceWithoutParents(c) ==
    LET def == registry[Find(c)]
    IN  [class |-> c, parent |-> def.parent,
         slots |-> [i \in DOMAIN Decl(c).fields |-> [name |-> Decl(c).fields[i], value |-> Nil]],
         methods |-> def.methods]

Instance(c) ==
    LET def    == registry[Find(c)]
        fields == ParentsFirst(Definitions(c), LAMBDA k : k.fields)
    IN  [class |-> c, parent |-> def.parent,
         slots |-> [i \in DOMAIN fields |-> [name |-> fields[i], value |-> Nil]],
         methods |-> [j \in DOMAIN def.methods |->
                        [name |-> def.methods[j].name,
                         code |-> def.methods[Named(def.methods, def.methods[j].name)].code]]]

(* Slip: of two slots of one name, the last is set. *)
SetFieldLast(o, f, x) == LET i == SelectLastInSeq(o.slots, LAMBDA n : n.name = f)
                         IN  IF i = 0 THEN o ELSE [o EXCEPT !.slots[i].value = x]

SetField(o, f, x) == LET i == Named(o.slots, f)
                     IN  IF i = 0 THEN o ELSE [o EXCEPT !.slots[i].value = x]

(* Slip: the definitions of ancestors are asked first. *)
FindMethodAbove(o, m) ==
    LET own   == Named(o.methods, m)
        above == IF o.parent = None THEN <<>> ELSE Definitions(o.parent)
        n     == SelectInSeq(above, LAMBDA k : Named(k.methods, m) # 0)
    IN  CASE n # 0             -> above[n].methods[Named(above[n].methods, m)].code
          [] n = 0 /\ own # 0  -> o.methods[own].code
          [] OTHER             -> NoCode

(* bread_class_find_method_defining_class and the function it keeps for the method. *)
FindMethod(o, m) ==
    LET own   == Named(o.methods, m)
        above == IF o.parent = None THEN <<>> ELSE Definitions(o.parent)
        n     == SelectInSeq(above, LAMBDA k : Named(k.methods, m) # 0)
    IN  CASE own # 0           -> o.methods[own].code
          [] own = 0 /\ n # 0  -> above[n].methods[Named(above[n].methods, m)].code
          [] OTHER             -> NoCode

-----------------------------------------------------------------------------
(* A call: via says how it is written, in a body of the class by, of the method asked. *)
Frame(code, self, args, via, by, asked) ==
    [code |-> code, self |-> self, pc |-> 1, via |-> via, by |-> by, asked |-> asked,
     locals |-> [p \in ToSet(Params(code)) |-> args[CHOOSE i \in DOMAIN Params(code) : Params(code)[i] = p]]]

(* bread_class_call_compiled_method: more than three arguments and nothing is called.  What
   a function finds in the place of arguments that it is not given is undefined. *)
Enter(stack, code, self, args, via, by, asked) ==
    CASE Len(args) > 3                   -> frames' = stack /\ UNCHANGED phase
      [] Len(args) <= 3 /\ Len(args) # Len(Params(code)) -> phase' = "undefined" /\ UNCHANGED frames
      [] Len(args) <= 3 /\ Len(args) = Len(Params(code)) /\ Len(stack) = MaxFrames ->
                                            phase' = "overflow" /\ UNCHANGED frames
      [] OTHER -> frames' = Append(stack, Frame(code, self, args, via, by, asked)) /\ UNCHANGED phase

Top  == Last(frames)
Self == objects[Top.self]
At(do) == /\ phase = "run" /\ frames # <<>> /\ Top.pc <= Len(Body(Top.code))
          /\ Body(Top.code)[Top.pc].do = do
Stmt == Body(Top.code)[Top.pc]
Advanced == [frames EXCEPT ![Len(frames)].pc = @ + 1]

(* A bare name is a local, or else a field of the class that the body is in, or else
   a variable of the program, of which there is none. *)
Given(v) == [kind |-> "value", of |-> v]
Name(x)  == [kind |-> "name", of |-> x]
IsField(x, code) == code.class # None /\ x \in ToSet(AllFields(code.class))
Readable(e) == \/ e.kind = "value" \/ e.of \in DOMAIN Top.locals
               \/ IsField(e.of, Top.code) /\ Named(Self.slots, e.of) # 0
Value(e) == CASE e.kind = "value" -> e.of
              [] e.kind # "value" /\ e.of \in DOMAIN Top.locals -> Top.locals[e.of]
              [] OTHER -> Self.slots[Named(Self.slots, e.of)].value
Operands(s) == IF s.do \in {"set", "bare"} THEN <<s.from>>
               ELSE IF s.do = "super" THEN s.args ELSE <<>>

(* The documented meaning: an assignment to a bare name that is not a parameter assigns
   the field. *)
MeantContent(o, f) == IF meant[o][f] = <<>> THEN Nil ELSE meant[o][f][1]
MeantValue(e) == IF e.kind = "value" THEN e.of
                 ELSE IF e.of \in ToSet(Params(Top.code)) THEN Top.locals[e.of]
                 ELSE MeantContent(Top.self, e.of)
MeanField(o, f, x) == meant' = IF f \in DOMAIN meant[o] THEN [meant EXCEPT ![o][f] = <<x>>] ELSE meant

-----------------------------------------------------------------------------
Init == /\ backend \in {"aot", "jit"} /\ program \in Programs
        /\ phase = "analyse" /\ todo = <<>> /\ registry = <<>>
        /\ objects = <<>> /\ frames = <<>> /\ meant = <<>>

(* Classes are declared once, and the module links. *)
Compiles == IsInjective([i \in DOMAIN Classes |-> Classes[i].name]) /\ Links
Compile == /\ phase = "analyse" /\ Compiles
           /\ phase' = "register" /\ todo' = Reverse([i \in DOMAIN Classes |-> Classes[i].name])
           /\ UNCHANGED <<backend, program, registry, objects, frames, meant>>
Refuse == /\ phase = "analyse" /\ ~ Compiles
          /\ phase' = "refused" /\ UNCHANGED <<compiled, objects, frames, meant>>

(* bread_class_register_definition. *)
Register == /\ phase = "register" /\ todo # <<>> /\ ~ (backend = "aot" /\ Endless(Head(todo)))
            /\ registry' = Append(registry, Definition(Head(todo))) /\ todo' = Tail(todo)
            /\ UNCHANGED <<backend, program, phase, objects, frames, meant>>

(* cg_collect_all_fields walks up a class that is its own ancestor without end: for the
   definitions of an executable, and for a constructor call. *)
Hang == /\ \/ phase = "register" /\ backend = "aot" /\ todo # <<>> /\ Endless(Head(todo))
           \/ phase = "register" /\ backend = "jit" /\ \E i \in DOMAIN Classes : Endless(Classes[i].name)
        /\ phase' = "hung" /\ UNCHANGED <<compiled, objects, frames, meant>>

(* bread_class_resolve_inheritance. *)
Resolve == /\ phase = "register" /\ todo = <<>>
           /\ registry' = [i \in DOMAIN registry |->
                [registry[i] EXCEPT !.parent = IF @ = None /\ Find(registry[i].parentName) # 0
                                               THEN registry[i].parentName ELSE @]]
           /\ phase' = "run" /\ UNCHANGED <<backend, program, todo, objects, frames, meant>>

(* The program: C(...), x.m() for an object in a variable x, x.f = value. *)
Idle == phase = "run" /\ frames = <<>>
Construct(c) ==
    /\ Idle /\ Len(objects) < MaxObjects /\ ~ Endless(c)
    /\ LET code == FindMethod(Instance(c), InitName)
       IN  Enter(<<>>, code, Len(objects) + 1, SubSeq(Arguments, 1, Len(Params(Code(c, 1)))), "new", c, InitName)
    /\ objects' = Append(objects, Instance(c))
    /\ meant' = Append(meant, [f \in ToSet(AllFields(c)) |-> <<>>])
    /\ UNCHANGED compiled
Call(o, v, m) ==
    /\ Idle
    /\ LET direct == Namesake(v, m)
           found  == FindMethod(objects[o], m)
       IN  CASE direct # NoCode -> Enter(<<>>, direct, o, <<>>, "namesake", objects[o].class, m)
             [] direct = NoCode /\ found = NoCode -> phase' = "aborted" /\ UNCHANGED frames
             [] OTHER -> Enter(<<>>, found, o, <<>>, "call", objects[o].class, m)
    /\ UNCHANGED <<compiled, objects, meant>>
Write(o, f) ==
    /\ Idle
    /\ objects' = [objects EXCEPT ![o] = SetField(@, f, Plain)]
    /\ MeanField(o, f, Plain)
    /\ UNCHANGED <<compiled, phase, frames>>

(* In a body: self.f = e, f = e, super.init(...), self.m(), super.m(). *)
Set == /\ At("set") /\ Readable(Stmt.from)
       /\ objects' = [objects EXCEPT ![Top.self] = SetField(@, Stmt.field, Value(Stmt.from))]
       /\ MeanField(Top.self, Stmt.field, MeantValue(Stmt.from))
       /\ frames' = Advanced /\ UNCHANGED <<compiled, phase>>
Bare == /\ At("bare") /\ Readable(Stmt.from)
        /\ frames' = [Advanced EXCEPT ![Len(frames)].locals = (Stmt.field :> Value(Stmt.from)) @@ @]
        /\ IF Stmt.field \in ToSet(Params(Top.code)) THEN UNCHANGED meant
           ELSE MeanField(Top.self, Stmt.field, MeantValue(Stmt.from))
        /\ UNCHANGED <<compiled, phase, objects>>
SuperInit ==
    /\ At("super") /\ \A i \in DOMAIN Stmt.args : Readable(Stmt.args[i])
    /\ LET p == Decl(Top.code.class).parent
           n == Find(p)
       IN  IF n = 0 THEN phase' = "aborted" /\ UNCHANGED frames
           ELSE Enter(Advanced, registry[n].methods[1].code, Top.self,
                      [i \in DOMAIN Stmt.args |-> Value(Stmt.args[i])], "super", Top.code.class, InitName)
    /\ UNCHANGED <<compiled, objects, meant>>
SelfCall ==
    /\ At("call") \/ At("superCall")
    /\ LET found == FindMethod(Self, Stmt.method)
       IN  IF found = NoCode THEN phase' = "aborted" /\ UNCHANGED frames
           ELSE Enter(Advanced, found, Top.self, <<>>, Stmt.do, Top.code.class, Stmt.method)
    /\ UNCHANGED <<compiled, objects, meant>>
Unreadable == /\ phase = "run" /\ frames # <<>> /\ Top.pc <= Len(Body(Top.code))
              /\ \E i \in DOMAIN Operands(Stmt) : ~ Readable(Operands(Stmt)[i])
              /\ phase' = "aborted" /\ UNCHANGED <<compiled, objects, frames, meant>>
Return == /\ phase = "run" /\ frames # <<>> /\ Top.pc > Len(Body(Top.code))
          /\ frames' = Front(frames) /\ UNCHANGED <<compiled, phase, objects, meant>>

Exit == Idle /\ phase' = "done" /\ UNCHANGED <<compiled, objects, frames, meant>>
Ended == phase \in {"refused", "hung", "undefined", "overflow", "aborted", "done"} /\ UNCHANGED vars

Next == \/ Compile \/ Refuse \/ Register \/ Hang \/ Resolve
        \/ \E i \in DOMAIN Classes : Construct(Classes[i].name)
        \/ \E o \in DOMAIN objects, v \in Variables, m \in Calls : Call(o, v, m)
        \/ \E o \in DOMAIN objects : \E f \in UNION {DOMAIN meant[k] : k \in DOMAIN meant} : Write(o, f)
        \/ Set \/ Bare \/ SuperInit \/ SelfCall \/ Unreadable \/ Return \/ Exit \/ Ended
Spec == Init /\ [][Next]_vars

-----------------------------------------------------------------------------
(* The shapes of the registry, the objects and the calls; definitions follow the newest
   class first, an object has a slot for each thing that is meant to be remembered, and
   calls are on objects. *)
TypeOK ==
    /\ backend \in {"aot", "jit"}
    /\ phase \in {"analyse", "register", "run", "refused", "hung", "undefined", "overflow", "aborted", "done"}
    /\ phase # "refused" => [i \in DOMAIN registry |-> registry[i].name] \o todo
                              \in {<<>>, Reverse([i \in DOMAIN Classes |-> Classes[i].name])}
    /\ \A i \in DOMAIN registry : registry[i].parent \in {None, registry[i].parentName}
    /\ Len(objects) <= MaxObjects /\ DOMAIN meant = DOMAIN objects
    /\ \A o \in DOMAIN objects : {objects[o].slots[i].name : i \in DOMAIN objects[o].slots} = DOMAIN meant[o]
    /\ Len(frames) <= MaxFrames
    /\ \A n \in DOMAIN frames : frames[n].self \in DOMAIN objects /\ frames[n].pc \in 1..Len(Body(frames[n].code)) + 1

(* What a call should run: the nearest declaration of the method, of its class itself or
   of an ancestor; super looks from the parent of the class that it is written in. *)
Nearest(c, m) == LET l == Lineage(c)
                     k == l[SelectInSeq(l, LAMBDA a : Named(Decl(a).methods, m) # 0)]
                 IN  Code(k, Named(Decl(k).methods, m))
Expected(fr) == CASE fr.via = "super" -> Nearest(Decl(fr.by).parent, fr.asked)
                  [] OTHER -> Nearest(objects[fr.self].class, fr.asked)

(* The executable looks functions up by names, which functions of the program and methods
   of other classes may have taken; under the JIT the last method of a name replaces the others. *)
Replaced(code) ==
    LET m == Decl(code.class).methods[code.index].name
    IN  IF backend = "aot" THEN FunctionNamed(Symbol(code.class, m)) # code
        ELSE \E j \in code.index + 1..Len(Decl(code.class).methods) : Decl(code.class).methods[j].name = m

(* A call runs the method that is nearest to the class of the object, however the classes
   are ordered in the source and whatever the backend, and super.init() the constructor of
   the class above the one it is written in, so that constructors cannot go round in a
   circle.  Not so: super.m(), which is self.m() (AST_EXPR_SUPER builds self), a variable
   with the name of a class in it, and methods that are replaced. *)
DispatchIsLexical == \A n \in DOMAIN frames :
    \/ frames[n].via = "namesake"
    \/ frames[n].code = Expected(frames[n])
    \/ Replaced(Expected(frames[n]))

(* The fields that the constructor of a class assigns, itself and through super.init(). *)
Assigns(c) ==
    LET l == Lineage(c)
        body(k) == Decl(k).methods[1].body
        reached(n) == \A j \in 1..(n - 1) : \E i \in DOMAIN body(l[j]) : body(l[j])[i].do = "super"
    IN  UNION {{body(l[n])[i].field : i \in {i \in DOMAIN body(l[n]) : body(l[n])[i].do = "set"}} :
                 n \in {n \in DOMAIN l : reached(n)}}

Constructed(o) == ~ \E n \in DOMAIN frames : frames[n].self = o /\ frames[n].asked = InitName
Skipped(c) == \/ Len(Params(Code(c, 1))) > 3
              \/ \E k \in ToSet(Lineage(c)) : \/ Replaced(Code(k, 1))
                                             \/ Len(Body(Code(k, 1))) < Len(Decl(k).methods[1].body)

(* Classes whose bodies may run on an object that is not theirs, because a variable has
   their name in its own, or one of their functions the symbol of another's. *)
Strays == {Classes[i].name : i \in {i \in DOMAIN Classes :
             \/ \E v \in Variables, m \in Calls : Namesake(v, m).class = Classes[i].name
             \/ /\ backend = "aot"
                /\ \E k \in DOMAIN Classes \ {i} : \E j \in DOMAIN Classes[k].methods :
                     FunctionNamed(Symbol(Classes[k].name, Classes[k].methods[j].name)).class = Classes[i].name}}
Guests(c) == UNION {ToSet(Lineage(k)) : k \in {c} \cup Strays}
BareWrites(c) == \/ \E k \in Strays : Endless(k)
                 \/ \E k \in Guests(c) : \E j \in DOMAIN Decl(k).methods :
                      \E i \in DOMAIN Body(Code(k, j)) : Body(Code(k, j))[i].do = "bare"
Content(o, f) == objects[o].slots[Named(objects[o].slots, f)].value

(* An object has in every field what was last assigned to it, by the constructors of all its
   ancestors, by methods and from outside; and once it is constructed, every field that its
   constructors assign has been assigned.  Not so: an assignment to a bare name, which makes
   a local (codegen_stmt.c:22), in any body that may run on the object; a constructor of
   more than three parameters, which is not called (value_class.c:452), one that a function of
   its symbol replaces, and the rest of a body that cannot be generated (codegen_stmt.c:1040). *)
ObjectsRemember == phase = "run" => \A o \in DOMAIN objects :
    LET c == objects[o].class
    IN  \A f \in DOMAIN meant[o] :
          /\ Content(o, f) = MeantContent(o, f) \/ BareWrites(c)
          /\ Constructed(o) /\ f \in Assigns(c) => meant[o][f] # <<>> \/ Skipped(c)
=============================================================================
