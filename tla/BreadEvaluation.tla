-------------------------- MODULE BreadEvaluation --------------------------
(***************************************************************************)
(* A run of straight-line code: the types that the semantic analysis gives *)
(* to expressions (codegen/codegen_semantic.c, core/type_descriptor.c),    *)
(* the code that is generated for them and for declarations and            *)
(* assignments, with and without boxes around numbers                      *)
(* (codegen/codegen_expr.c, codegen_unboxing.c, codegen_stmt.c), and the   *)
(* operators of the runtime that this code calls (runtime/value_ops.c,     *)
(* runtime/operators.c).                                                   *)
(*                                                                         *)
(* An expression is the list of its nodes in the order in which they are   *)
(* evaluated, the parts of a node before it, the whole last.  A type is    *)
(* the list of what it is made of, outermost first: [[String: Int?]] is an *)
(* Array of a Dict of an Optional of Int.                                  *)
(*                                                                         *)
(* A mismatch of types at run time is not fatal: the error is set, the     *)
(* operation fails, and its result stays nil.  The other runtime errors    *)
(* end the process.  Doubles are exact fractions with infinities, integers *)
(* are unbounded, a text is a sequence of parts.  Containers inside        *)
(* containers are not compared.  Classes, and methods and functions of the *)
(* runtime other than toString() and str(), are left out.                  *)
(***************************************************************************)
EXTENDS Integers, FiniteSets, SequencesExt

CONSTANTS Meaning,      \* what a number token stands for
          Functions1,   \* functions of one argument: the type and the value they return
          Structs,      \* declared structs: functions from fields to types
          Codes         \* sequences of declarations and assignments

-----------------------------------------------------------------------------
(* Types, type_descriptor.c.  A level is a base and, for a dictionary, the *)
(* type of its keys, for a struct, its name and fields.                    *)
Level(base, of) == [base |-> base, of |-> of]
Primitive(base) == <<Level(base, <<>>)>>
Unknown == Primitive("Nil")                       \* nil, and what no signature tells
None    == Primitive("none")                      \* the analysis refuses
ArrayOf(e)    == <<Level("Array", <<>>)>> \o e
DictOf(k, v)  == <<Level("Dict", k)>> \o v
OptionalOf(w) == <<Level("Optional", <<>>)>> \o w
StructOf(names, types) == <<Level("Struct", <<names, types>>)>>
Base(type)  == type[1].base
Inner(type) == Tail(type)                         \* of elements, of values, of what is wrapped
NameOf(level) == level.of[1][1]
Keys(type)  == type[1].of                         \* of a dictionary
From(type, n) == SubSeq(type, n, Len(type))
Numeric == {"Int", "Double"}

(* What is compatible without a look inside. *)
AtOnce(from, to) ==
    \/ from = to
    \/ Base(from) = "Struct" /\ Base(to) = "Struct" /\ NameOf(from[1]) = NameOf(to[1])
    \/ Base(to) = "Optional" /\ from \in {Unknown, Inner(to)}
(* Arrays, and dictionaries with compatible keys, are compatible when what they hold is.  Keys
   are texts, or nothing at all, so that nobody looks inside the types of keys. *)
Alike(a, b) == a.base = b.base /\ (a.base = "Array" \/ (a.base = "Dict" /\ AtOnce(a.of, b.of)))
Compatible(from, to) ==
    \E n \in DOMAIN from \cap DOMAIN to :
       /\ \A i \in 1..(n - 1) : Alike(from[i], to[i])
       /\ \/ AtOnce(From(from, n), From(to, n))
          \/ from[n].base = "Array" /\ to[n].base = "Array" /\ From(from, n + 1) = Unknown
          \/ from[n].base = "Dict" /\ to[n].base = "Dict" /\ From(from, n) = DictOf(Unknown, Unknown)

(* cg_infer_expr_type_desc_simple. *)
Arithmetic  == {"+", "-", "*", "/", "%"}
Comparisons == {"==", "!=", "<", ">", "<=", ">="}
BinaryType(op, l, r) ==
    CASE None \in {l, r}                  -> None
      [] None \notin {l, r} /\ op \in Comparisons    -> Primitive("Bool")
      [] None \notin {l, r} /\ op \in {"&&", "||"} -> IF Base(l) = "Bool" /\ Base(r) = "Bool" THEN l ELSE None
      [] OTHER -> IF l = r /\ (Base(l) \in Numeric \/ (op = "+" /\ Base(l) = "String")) THEN l ELSE None

UnaryType(op, t) == IF Base(t) \in (IF op = "-" THEN Numeric ELSE {"Bool"}) THEN t ELSE None

SameTypes(ts) == \A j \in DOMAIN ts : ts[j] = ts[1]
ArrayType(ts) == IF ts = <<>> THEN ArrayOf(Unknown)
                 ELSE IF ts[1] # None /\ SameTypes(ts) THEN ArrayOf(ts[1]) ELSE None
Odds(s)  == [j \in 1..(Len(s) \div 2) |-> s[2 * j - 1]]
Evens(s) == [j \in 1..(Len(s) \div 2) |-> s[2 * j]]
DictType(ts) == IF ts = <<>> THEN DictOf(Unknown, Unknown)
                ELSE IF None \notin {ts[1], ts[2]} /\ SameTypes(Odds(ts)) /\ SameTypes(Evens(ts))
                THEN DictOf(ts[1], ts[2]) ELSE None

IndexType(target, index) ==
    CASE None \in {target, index}   -> None
      [] Base(target) = "Dict"      -> IF Compatible(index, Keys(target)) THEN Inner(target) ELSE None
      [] Base(target) = "Array"     -> IF Base(index) = "Int" THEN Inner(target) ELSE None
      [] Base(target) = "String"    -> IF Base(index) = "Int" THEN target ELSE None
      [] OTHER                      -> None

Fields(name) == IF name \in DOMAIN Structs THEN DOMAIN Structs[name] ELSE {}
MemberType(target, member) ==
    CASE target = None             -> None
      [] target # None /\ member = "length" -> Primitive("Int")
      [] member # "length" /\ Base(target) = "Dict"   -> Inner(target)
      [] member # "length" /\ Base(target) = "Struct" ->
             IF member \in Fields(NameOf(target[1])) THEN Structs[NameOf(target[1])][member] ELSE Unknown
      [] OTHER                     -> None

LiteralType(word) == CASE word = "nil"             -> Unknown
                       [] word \in {"true", "false"} -> Primitive("Bool")
                       [] OTHER                    -> Primitive(Meaning[word].t)

-----------------------------------------------------------------------------
(* Expressions.  kids are the places of the parts of a node, all before it. *)
Node(kind, words, kids) == [kind |-> kind, words |-> words, kids |-> kids]
OfParts(node, f) == [j \in DOMAIN node.kids |-> f[node.kids[j]]]

NodeType(node, ts, types) ==
    LET w == node.words
    IN  CASE node.kind = "literal"     -> LiteralType(w[1])
          [] node.kind = "string"      -> Primitive("String")
          [] node.kind = "var"         -> IF w[1] \in DOMAIN types THEN types[w[1]] ELSE None
          [] node.kind = "binary"      -> BinaryType(w[1], ts[1], ts[2])
          [] node.kind = "unary"       -> UnaryType(w[1], ts[1])
          [] node.kind = "array"       -> ArrayType(ts)
          [] node.kind = "dict"        -> DictType(ts)
          [] node.kind = "index"       -> IndexType(ts[1], ts[2])
          [] node.kind = "member"      -> MemberType(ts[1], w[2])
          [] node.kind = "call"        -> IF w[1] = "str" THEN Primitive("String")
                                          ELSE IF w[1] \in DOMAIN Functions1 THEN Functions1[w[1]].type ELSE None
          [] node.kind = "method_call" -> IF ts[1] = None THEN None ELSE Unknown
          [] node.kind = "struct_literal" ->
                IF \E j \in DOMAIN ts : ts[j] = None THEN None ELSE StructOf(w, ts)
          [] OTHER -> None

TypesOf(tree, types) ==
    LET type[k \in DOMAIN tree] == NodeType(tree[k], OfParts(tree[k], type), types)
    IN  type
TypeOf(tree, types) == TypesOf(tree, types)[Len(tree)]

(* cg_analyze_expr: every part is analysed, and calls have one argument. *)
Analysed(tree, types) == \A k \in DOMAIN tree : /\ TypesOf(tree, types)[k] # None
                                                /\ tree[k].kind = "call" => Len(tree[k].kids) = 1

-----------------------------------------------------------------------------
(* Values.  n over d is a number; n is the identity of a container, 0 for  *)
(* a new one; names are the parts of a text, the fields of a struct, or    *)
(* the type that a container's elements are locked to.                     *)
Val(t, n, d, names, kids) == [t |-> t, n |-> n, d |-> d, names |-> names, kids |-> kids]
NilValue   == Val("Nil", 0, 1, <<>>, <<>>)
Abort      == Val("abort", 0, 1, <<>>, <<>>)          \* the process ends
IntV(n)    == Val("Int", n, 1, <<>>, <<>>)
BoolV(b)   == Val("Bool", IF b THEN 1 ELSE 0, 1, <<>>, <<>>)
TextV(w)   == Val("String", 0, 1, w, <<>>)
Divides(k, n) == n % k = 0
Reduced(n, d) == LET a == IF n < 0 THEN -n ELSE n
                     g == CHOOSE k \in 1..(a + d) : /\ Divides(k, a) /\ Divides(k, d)
                                                    /\ \A m \in (k + 1)..(a + d) : ~(Divides(m, a) /\ Divides(m, d))
                 IN  IF a + d = 0 THEN <<0, 0>> ELSE <<(IF n < 0 THEN -(a \div g) ELSE a \div g), d \div g>>
DoubleV(n, d) == LET r == IF d < 0 THEN Reduced(-n, -d) ELSE Reduced(n, d)
                 IN  Val("Double", r[1], r[2], <<>>, <<>>)
NotANumber(v) == v.n = 0 /\ v.d = 0               \* zero has no sign

Quotient(a, b) == LET q == (IF a < 0 THEN -a ELSE a) \div (IF b < 0 THEN -b ELSE b)
                  IN  IF (a < 0) = (b < 0) THEN q ELSE -q

OnInts(op, a, b) == CASE op = "+" -> a + b
                      [] op = "-" -> a - b
                      [] op = "*" -> a * b
                      [] op = "/" -> Quotient(a, b)
                      [] op = "%" -> a - b * Quotient(a, b)
Negated(x)   == DoubleV(-x.n, x.d)
Plus(x, y)   == IF x = y /\ x.d = 0 THEN x ELSE DoubleV(x.n * y.d + y.n * x.d, x.d * y.d)
OnDoubles(op, x, y) == CASE op = "+" -> Plus(x, y)
                         [] op = "-" -> Plus(x, Negated(y))
                         [] op = "*" -> DoubleV(x.n * y.n, x.d * y.d)
                         [] op = "/" -> DoubleV(x.n * y.d, x.d * y.n)
Ordered(op, a, b) == CASE op = "==" -> a = b
                       [] op = "!=" -> a # b
                       [] op = "<"  -> a < b
                       [] op = ">"  -> a > b
                       [] op = "<=" -> a <= b
                       [] op = ">=" -> a >= b
OrderedDoubles(op, x, y) == IF NotANumber(x) \/ NotANumber(y) THEN op = "!=" ELSE Ordered(op, x.n * y.d, y.n * x.d)

(* bread_add, bread_arithmetic_op. *)
Calculated(op, l, r) ==
    IF l.t = "String" /\ r.t = "String" /\ op = "+" THEN TextV(l.names \o r.names)
    ELSE IF ~{l.t, r.t} \subseteq Numeric THEN NilValue
    ELSE IF l.t = "Int" /\ r.t = "Int"
         THEN IF op \in {"/", "%"} /\ r.n = 0 THEN Abort ELSE IntV(OnInts(op, l.n, r.n))
    ELSE IF op = "%" THEN NilValue
    ELSE IF op = "/" /\ r.n = 0 THEN Abort
    ELSE OnDoubles(op, l, r)

(* bread_compare_values: texts are ordered by length here; no property     *)
(* asks which of two comes first.                                          *)
Compared(op, l, r) ==
    CASE l.t # r.t \/ l.t = "Nil"          -> NilValue
      [] l.t = r.t /\ l.t \in {"Int", "Bool"}  -> BoolV(Ordered(op, l.n, r.n))
      [] l.t = r.t /\ l.t = "Double"       -> BoolV(OrderedDoubles(op, l, r))
      [] l.t = r.t /\ l.t = "String"       -> BoolV(IF op \in {"==", "!="} THEN (l.names = r.names) = (op = "==")
                                                    ELSE Ordered(op, Len(l.names), Len(r.names)))
      [] OTHER -> IF op \in {"==", "!="} THEN BoolV((l.n # 0 /\ l.n = r.n) = (op = "==")) ELSE NilValue

(* bread_binary_op: both operands have been evaluated. *)
BinaryOp(op, l, r) ==
    IF Abort \in {l, r} THEN Abort
    ELSE CASE op \in Arithmetic  -> Calculated(op, l, r)
           [] op \in Comparisons -> Compared(op, l, r)
           [] op = "&&" -> IF l.t # "Bool" \/ r.t # "Bool" THEN NilValue ELSE BoolV(l.n = 1 /\ r.n = 1)
           [] op = "||" -> IF l.t # "Bool" \/ r.t # "Bool" THEN NilValue ELSE BoolV(l.n = 1 \/ r.n = 1)

UnaryNot(v) == IF v = Abort THEN Abort ELSE IF v.t # "Bool" THEN NilValue ELSE BoolV(v.n = 0)

-----------------------------------------------------------------------------
(* Containers.  bread_array_append and bread_dict_set: an element of       *)
(* another type than the first is left out.                                *)
Locked(c) == c.names # <<>>
Takes(c, v) == Locked(c) => c.names = <<v.t>>
LockFor(c, v) == IF c.kids = <<>> /\ v.t # "Nil" THEN <<v.t>> ELSE c.names
Appended(a, v) == IF Takes(a, v) THEN [a EXCEPT !.names = LockFor(a, v), !.kids = Append(@, v)] ELSE a

KeyAt(d, key) == {j \in DOMAIN d.kids : j % 2 = 1 /\ d.kids[j].names = key}
DictSet(d, key, v) ==
    IF key.t # "String" \/ ~Takes(d, v) THEN d
    ELSE IF KeyAt(d, key.names) # {}
    THEN [d EXCEPT !.kids[(CHOOSE j \in KeyAt(d, key.names) : TRUE) + 1] = v]
    ELSE [d EXCEPT !.names = LockFor(d, v), !.kids = @ \o <<key, v>>]

Strict(vs, v) == IF \E j \in DOMAIN vs : vs[j] = Abort THEN Abort ELSE v
ArrayFrom(vs) == LET a[n \in 0..Len(vs)] == IF n = 0 THEN Val("Array", 0, 1, <<>>, <<>>) ELSE Appended(a[n - 1], vs[n])
                 IN  a[Len(vs)]
DictFrom(vs)  == LET d[n \in 0..(Len(vs) \div 2)] == IF n = 0 THEN Val("Dict", 0, 1, <<>>, <<>>)
                                                     ELSE DictSet(d[n - 1], vs[2 * n - 1], vs[2 * n])
                 IN  d[Len(vs) \div 2]
NewArray(vs)  == Strict(vs, ArrayFrom(vs))
NewDict(vs)   == Strict(vs, DictFrom(vs))
NewStruct(words, vs) == Strict(vs, Val("Struct", 0, 1, words, vs))

Unwrapped(v) == IF v.t # "Optional" THEN v ELSE IF v.kids = <<>> THEN NilValue ELSE v.kids[1]

(* bread_index_op: an optional is unwrapped, and a missing element is fatal. *)
Place(i, len) == IF i.n < 0 THEN i.n + len + 1 ELSE i.n + 1
IndexOp(target, i) ==
    LET c   == Unwrapped(target)
        all == IF c.t = "String" THEN c.names ELSE c.kids
    IN  IF Abort \in {target, i} THEN Abort
        ELSE IF target.t = "Optional" /\ target.kids = <<>> THEN NilValue
        ELSE CASE c.t \in {"String", "Array"} ->
                     IF i.t # "Int" THEN NilValue
                     ELSE IF Place(i, Len(all)) \notin 1..Len(all) THEN Abort
                     ELSE IF c.t = "String" THEN TextV(<<all[Place(i, Len(all))]>>) ELSE all[Place(i, Len(all))]
               [] c.t = "Dict"   -> IF i.t # "String" THEN NilValue
                                    ELSE IF KeyAt(c, i.names) = {} THEN Abort
                                    ELSE c.kids[(CHOOSE j \in KeyAt(c, i.names) : TRUE) + 1]
               [] OTHER          -> Abort

(* bread_member_op. *)
FieldOf(c, member) == {j \in DOMAIN c.kids : c.names[j + 1] = member}
MemberOp(target, op, member) ==
    LET c == IF op = "?." THEN Unwrapped(target) ELSE target
    IN  IF target = Abort THEN Abort
        ELSE IF op = "?." /\ c.t = "Nil" THEN NilValue
        ELSE IF member = "length"
        THEN CASE c.t = "Array"  -> IntV(Len(c.kids))
               [] c.t = "Dict"   -> IntV(Len(c.kids) \div 2)
               [] c.t = "String" -> IntV(Len(c.names))
               [] OTHER          -> Abort
        ELSE CASE c.t = "Dict"   -> IF KeyAt(c, <<member>>) = {} THEN Abort
                                    ELSE c.kids[(CHOOSE j \in KeyAt(c, <<member>>) : TRUE) + 1]
               [] c.t = "Struct" -> IF FieldOf(c, member) = {} THEN Abort
                                    ELSE c.kids[CHOOSE j \in FieldOf(c, member) : TRUE]
               [] OTHER          -> IF op = "?." THEN NilValue ELSE Abort

(* bread_method_call_op, convert_to_string, bread_builtin_str. *)
Printable == {"String", "Int", "Bool", "Double", "Nil"}
AsText(v) == CASE v.t = "String" -> v.names
               [] v.t = "Int"    -> <<ToString(v.n)>>
               [] v.t = "Bool"   -> <<IF v.n = 1 THEN "true" ELSE "false">>
               [] v.t = "Double" -> <<ToString(v.n), "/", ToString(v.d)>>
               [] OTHER          -> <<v.t>>
MethodCallOp(target, op, name, args) ==
    LET c == IF op = "?." THEN Unwrapped(target) ELSE target
    IN  IF \E v \in {target} \union {args[j] : j \in DOMAIN args} : v = Abort THEN Abort
        ELSE IF op = "?." /\ c.t = "Nil" THEN NilValue
        ELSE IF name = "toString" /\ args = <<>> /\ c.t \in Printable THEN TextV(AsText(c))
        ELSE Abort

-----------------------------------------------------------------------------
(* The code generated for expressions.  A slot is a value and where it is: *)
(* in a box, or raw, as a number or a truth value.  Which of the two is    *)
(* decided when the code is generated.                                     *)
Slot(kind, v) == [kind |-> kind, v |-> v]
Raw(v)   == Slot(v.t, v)
Boxed(v) == Slot("box", v)

(* cg_can_unbox_expr, from what it says of the parts. *)
Unboxable(node, can) == CASE node.kind = "literal" -> node.words[1] # "nil"
                          [] node.kind = "var"     -> TRUE
                          [] node.kind \in {"binary", "unary"} -> \A j \in DOMAIN can : can[j]
                          [] OTHER                 -> FALSE
CanUnbox(tree) == LET can[k \in DOMAIN tree] == Unboxable(tree[k], OfParts(tree[k], can))
                  IN  can

LiteralValue(word) == CASE word = "nil"               -> NilValue
                        [] word \in {"true", "false"} -> BoolV(word = "true")
                        [] OTHER                      -> Meaning[word]

(* cg_build_binary_unboxed.  Division of integers has no check for zero:   *)
(* what it does then is undefined, which is an end of the process here.    *)
BinaryKind(op, l, r) ==
    CASE l = r /\ l \in Numeric /\ op \in {"==", "<", ">"} -> "Bool"
      [] l = r /\ l \in Numeric /\ op \in Arithmetic /\ (l = "Int" \/ op # "%") -> l
      [] OTHER -> "box"
BinaryUnboxedSwapped(op, l, r) ==                       \* Slip: == takes the way of <
    Slot(BinaryKind(op, l.kind, r.kind),
         IF BinaryKind(op, l.kind, r.kind) = "Bool" /\ Abort \notin {l.v, r.v}
         THEN BoolV(OrderedDoubles(IF op = "==" THEN "<" ELSE op, l.v, r.v)) ELSE BinaryOp(op, l.v, r.v))
BinaryUnboxed(op, l, r) ==
    LET kind == BinaryKind(op, l.kind, r.kind)
    IN  Slot(kind, IF Abort \in {l.v, r.v} THEN Abort
                   ELSE CASE kind = "box"    -> BinaryOp(op, l.v, r.v)
                          [] kind = "Int"    -> IF op \in {"/", "%"} /\ r.v.n = 0 THEN Abort ELSE IntV(OnInts(op, l.v.n, r.v.n))
                          [] kind = "Double" -> OnDoubles(op, l.v, r.v)
                          [] kind = "Bool"   -> BoolV(IF l.kind = "Int" THEN Ordered(op, l.v.n, r.v.n)
                                                      ELSE OrderedDoubles(op, l.v, r.v)))

(* cg_build_unary_unboxed: minus is left out when the operand has a box,   *)
(* and the result stays nil.                                               *)
UnaryUnboxed(op, s) ==
    LET kind == IF s.kind \in (IF op = "-" THEN Numeric ELSE {"Bool"}) THEN s.kind ELSE "box"
    IN  Slot(kind, IF s.v = Abort THEN Abort
                   ELSE CASE kind = "Int"    -> IntV(-s.v.n)
                          [] kind = "Double" -> Negated(s.v)
                          [] kind = "Bool"   -> BoolV(s.v.n = 0)
                          [] kind = "box"    -> IF op = "!" THEN UnaryNot(s.v) ELSE NilValue)

(* cg_build_expr: the value in its box, from those of the parts. *)
FromParts(node, v) ==
    LET w == node.words
    IN  CASE node.kind = "literal" -> NilValue
          [] node.kind = "string"  -> TextV(<<"s">>)
          [] node.kind = "binary"  -> BinaryOp(w[1], v[1], v[2])
          [] node.kind = "unary"   -> IF w[1] = "!" THEN UnaryNot(v[1]) ELSE BinaryOp("-", IntV(0), v[1])
          [] node.kind = "array"   -> NewArray(v)
          [] node.kind = "dict"    -> NewDict(v)
          [] node.kind = "index"   -> IndexOp(v[1], v[2])
          [] node.kind = "member"  -> MemberOp(v[1], w[1], w[2])
          [] node.kind = "call"    -> Strict(v, IF w[1] = "str" THEN TextV(AsText(v[1])) ELSE Functions1[w[1]].value)
          [] node.kind = "method_call"    -> MethodCallOp(v[1], w[1], w[2], Tail(v))
          [] node.kind = "struct_literal" -> NewStruct(w, v)

(* cg_build_expr_unboxed, from the slots of the parts. *)
InSlot(node, can, s, env) ==
    IF ~can THEN Boxed(FromParts(node, [j \in DOMAIN s |-> s[j].v]))
    ELSE CASE node.kind = "literal" -> Raw(LiteralValue(node.words[1]))
           [] node.kind = "var"     -> env[node.words[1]]
           [] node.kind = "binary"  -> BinaryUnboxed(node.words[1], s[1], s[2])
           [] node.kind = "unary"   -> UnaryUnboxed(node.words[1], s[1])
Unboxed(tree, env) ==
    LET slot[k \in DOMAIN tree] == InSlot(tree[k], CanUnbox(tree)[k], OfParts(tree[k], slot), env)
    IN  slot
Build(tree, env) == Unboxed(tree, env)[Len(tree)].v

-----------------------------------------------------------------------------
(* Statements: [op, name, type, tree], where op is "let", "=" or the       *)
(* operator of a compound assignment, and type is None when a declaration  *)
(* names none.                                                             *)
Declaration(name, type, tree) == [op |-> "let", name |-> name, type |-> type, tree |-> tree]
Setting(op, name, tree)       == [op |-> op, name |-> name, type |-> None, tree |-> tree]

(* coerce_and_assign, by the base of the declared type. *)
Refusal == Val("refused", 0, 1, <<>>, <<>>)
Truncated(v) == IntV(Quotient(v.n, v.d))
Coerced(base, v) ==
    CASE base \in {"Nil", v.t}               -> v
      [] base = "Int" /\ v.t = "Double"     -> Truncated(v)
      [] base = "Double" /\ v.t = "Int"     -> DoubleV(v.n, 1)
      [] base = "Optional" /\ v.t = "Nil"   -> Val("Optional", 0, 1, <<>>, <<>>)
      [] base = "Optional" /\ v.t \notin {"Nil", "Optional"} -> Val("Optional", 0, 1, <<>>, <<v>>)
      [] OTHER                              -> Refusal

Zero(base) == Val(base, 0, 1, <<>>, <<>>)

(* bread_value_get_int, _double and _bool. *)
UnboxUnchecked(base, v) == v                             \* Slip: the type is not looked at
Unbox(base, v) == CASE base = v.t                     -> v
                    [] base = "Double" /\ v.t = "Int" -> DoubleV(v.n, 1)
                    [] OTHER                          -> Zero(base)

(* A container gets its identity, which is the statement that made it. *)
Numbered(v, id) == IF v.n = 0 /\ v.t \in {"Array", "Dict", "Struct", "Optional"} THEN [v EXCEPT !.n = id] ELSE v

-----------------------------------------------------------------------------
(* What the constants stand for: types end where nothing is held, trees    *)
(* have the parts that the parser gives them, and tokens and functions     *)
(* have the values that they promise.                                      *)
Leaves  == {"Nil", "Int", "Double", "Bool", "String", "Struct"}
Holders == {"Array", "Dict", "Optional"}
IsSequence(s) == s \in Seq(Range(s))
IsType(t)  == /\ IsSequence(t) /\ t # <<>>
              /\ \A i \in DOMAIN t : /\ t[i].base \in (IF i = Len(t) THEN Leaves ELSE Holders)
                                     /\ t[i].base = "Dict" => IsSequence(t[i].of) /\ t[i].of # <<>>
IsValue(v) == v = Val(v.t, v.n, v.d, v.names, v.kids)

Arity(node) == CASE node.kind \in {"literal", "string", "var"}       -> {0}
                 [] node.kind \in {"unary", "member"}                -> {1}
                 [] node.kind \in {"binary", "index"}                -> {2}
                 [] node.kind \in {"array", "call", "method_call"}   -> Nat
                 [] node.kind = "dict"           -> {n \in 0..Len(node.kids) : n % 2 = 0}
                 [] node.kind = "struct_literal" -> {Len(node.words) - 1}
                 [] OTHER -> {}
IsTree(tree) ==
    /\ IsSequence(tree) /\ tree # <<>>
    /\ \A k \in DOMAIN tree :
          LET w == tree[k].words
          IN  /\ IsSequence(w) /\ tree[k].kids \in Seq(1..(k - 1)) /\ Len(tree[k].kids) \in Arity(tree[k])
              /\ tree[k].kind = "literal"     => w[1] \in {"nil", "true", "false"} \union DOMAIN Meaning
              /\ tree[k].kind = "binary"      => w[1] \in Arithmetic \union Comparisons \union {"&&", "||"}
              /\ tree[k].kind = "unary"       => w[1] \in {"-", "!"}
              /\ tree[k].kind = "method_call" => tree[k].kids # <<>>

ASSUME MeaningAssumption == \A w \in DOMAIN Meaning : /\ IsValue(Meaning[w]) /\ Meaning[w].kids = <<>>
                                                      /\ Meaning[w].t \in Numeric
ASSUME FunctionsAssumption == \A f \in DOMAIN Functions1 :
    /\ IsValue(Functions1[f].value) /\ Functions1[f].value.kids = <<>>
    /\ Functions1[f].value.t \in {"Int", "Double", "Bool", "String"}
    /\ Functions1[f].type = Primitive(Functions1[f].value.t)
ASSUME StructsAssumption == \A s \in DOMAIN Structs : \A f \in DOMAIN Structs[s] : IsType(Structs[s][f])
ASSUME CodesAssumption == \A c \in Codes :
    /\ IsSequence(c) /\ c # <<>>
    /\ \A j \in DOMAIN c : /\ c[j].op \in {"let", "="} \union Arithmetic
                           /\ c[j].type = None \/ IsType(c[j].type)
                           /\ IsTree(c[j].tree)

VARIABLES code,         \* the statements
          inFunction,   \* they are the body of a function, not of the program
          pc,           \* the statement that is analysed, or executed
          phase,        \* "analysis", "running", "refused", "finished", "aborted"
          types,        \* what the analysis knows of the variables
          env,          \* what the variables hold
          value         \* what the last statement computed

vars == <<code, inFunction, pc, phase, types, env, value>>

Here == code[pc]
Declared == Base(types[Here.name])

With(f, x, y) == [z \in {x} \union DOMAIN f |-> IF z = x THEN y ELSE f[z]]

Init == /\ code \in Codes /\ inFunction \in BOOLEAN
        /\ pc = 1 /\ phase = "analysis"
        /\ types = <<>> /\ env = <<>> /\ value = NilValue

AcceptedUnchecked ==                                     \* Slip: assignments are not compared
    /\ Analysed(Here.tree, types)
    /\ IF Here.op = "let"
       THEN /\ Here.type # None
            /\ Here.name \notin DOMAIN types
            /\ Compatible(TypeOf(Here.tree, types), Here.type)
       ELSE Here.name \in DOMAIN types

(* cg_analyze_stmt, on a declaration and on an assignment. *)
Accepted ==
    /\ Analysed(Here.tree, types)
    /\ IF Here.op = "let"
       THEN /\ Here.type # None
            /\ Here.name \notin DOMAIN types
            /\ Compatible(TypeOf(Here.tree, types), Here.type)
       ELSE /\ Here.name \in DOMAIN types
            /\ Compatible(TypeOf(Here.tree, types), types[Here.name])

Analyse ==
    /\ phase = "analysis" /\ Accepted
    /\ types' = IF Here.op = "let" THEN With(types, Here.name, Here.type) ELSE types
    /\ IF pc < Len(code) THEN pc' = pc + 1 /\ UNCHANGED phase ELSE pc' = 1 /\ phase' = "running"
    /\ UNCHANGED <<code, inFunction, env, value>>

RefuseCode ==
    /\ phase = "analysis" /\ ~Accepted
    /\ phase' = "refused"
    /\ UNCHANGED <<code, inFunction, pc, types, env, value>>

(* What a statement computes before it stores. *)
Computed ==
    IF Here.op \in {"let", "="} THEN Numbered(Build(Here.tree, env), pc)
    ELSE IF inFunction /\ env[Here.name].kind # "box"
    THEN BinaryUnboxed(Here.op, env[Here.name], Unboxed(Here.tree, env)[Len(Here.tree)]).v
    ELSE BinaryOp(Here.op, env[Here.name].v, Build(Here.tree, env))

Store(v, slot) ==
    /\ v # Abort
    /\ env' = With(env, Here.name, slot)
    /\ value' = v
    /\ IF pc < Len(code) THEN pc' = pc + 1 /\ UNCHANGED phase ELSE pc' = pc /\ phase' = "finished"
    /\ UNCHANGED <<code, inFunction, types>>

Unboxes == inFunction /\ Declared \in {"Int", "Double", "Bool"} /\ CanUnbox(Here.tree)[Len(Here.tree)]

(* handle_unboxed_var_decl. *)
LetRaw == /\ phase = "running" /\ Here.op = "let" /\ Unboxes
          /\ \E v \in {Computed} : Store(v, Slot(Declared, Unbox(Declared, v)))

(* handle_boxed_var_decl: in a function the value goes to the slot as it   *)
(* is; in the program a value that is refused leaves a zero value.         *)
Kept(v, kept, otherwise) == Boxed(IF inFunction THEN v
                                  ELSE IF kept = Refusal THEN otherwise ELSE Numbered(kept, pc))

LetBoxed == /\ phase = "running" /\ Here.op = "let" /\ ~Unboxes
            /\ \E v \in {Computed} : Store(v, Kept(v, Coerced(Declared, v), Zero(Declared)))

(* handle_unboxed_var_assign and handle_unboxed_var_compound_assign. *)
AssignRaw == /\ phase = "running" /\ Here.op # "let" /\ inFunction /\ env[Here.name].kind # "box"
             /\ \E v \in {Computed} : Store(v, Slot(Declared, Unbox(Declared, v)))

(* handle_boxed_var_assign and handle_boxed_var_compound_assign: the type   *)
(* of a variable of the program is that of what it holds (BreadScopes).    *)
AssignBoxed == /\ phase = "running" /\ Here.op # "let" /\ env[Here.name].kind = "box"
               /\ \E v \in {Computed}, held \in {env[Here.name].v} : Store(v, Kept(v, Coerced(held.t, v), held))

End == /\ phase = "running" /\ Computed = Abort
       /\ phase' = "aborted"
       /\ UNCHANGED <<code, inFunction, pc, types, env, value>>

Done == phase \in {"refused", "finished", "aborted"} /\ UNCHANGED vars

Next == Analyse \/ RefuseCode \/ LetRaw \/ LetBoxed \/ AssignRaw \/ AssignBoxed \/ End \/ Done
Spec == Init /\ [][Next]_vars

-----------------------------------------------------------------------------
(* A value is of a type: what it holds at each level fits there.  A slot   *)
(* of a function holds what an optional wraps as it is.                    *)
Held(u, level) == CASE level.base = "Array"    -> Range(u.kids)
                    [] level.base = "Dict"     -> Range(Evens(u.kids))
                    [] level.base = "Optional" -> IF u.t = "Optional" THEN Range(u.kids) ELSE IF u.t = "Nil" THEN {} ELSE {u}
                    [] OTHER                   -> {}
KeyFits(key, t) == \E n \in DOMAIN t : t[n].base = key.t /\ \A i \in 1..(n - 1) : t[i].base = "Optional"
Fits(u, level)  == CASE level.base = "Optional" -> TRUE
                     [] level.base = "Dict"     -> u.t = "Dict" /\ \A key \in Range(Odds(u.kids)) : KeyFits(key, level.of)
                     [] level.base = "Struct"   -> u.t = "Struct" /\ u.names[1] = NameOf(level)
                     [] OTHER                   -> u.t = level.base
HasType(v, type) ==
    LET at[n \in DOMAIN type] == IF n = 1 THEN {v} ELSE UNION {Held(u, type[n - 1]) : u \in at[n - 1]}
    IN  \A n \in DOMAIN type : \A u \in at[n] : Fits(u, type[n])

(* Where the analysis accepts what has no value of the type it gives: at   *)
(* the node k of a tree.                                                   *)
PartTypes(tree, k) == OfParts(tree[k], TypesOf(tree, types))
PartBases(tree, k) == {Base(t) : t \in Range(PartTypes(tree, k))}
BoxedMinus(tree, k, held) == /\ tree[k].kind = "unary" /\ tree[k].words[1] = "-" /\ CanUnbox(tree)[k]
                             /\ Unboxed(tree, held)[tree[k].kids[1]].kind = "box"
Incomparable(tree, k) ==
    /\ tree[k].kind = "binary" /\ tree[k].words[1] \in Comparisons
    /\ \/ \E b, c \in PartBases(tree, k) : b # c
       \/ PartBases(tree, k) \subseteq {"Nil", "Optional"}
       \/ PartBases(tree, k) \subseteq {"Array", "Dict", "Struct"} /\ tree[k].words[1] \notin {"==", "!="}
Remainder(tree, k) == tree[k].kind = "binary" /\ tree[k].words[1] = "%" /\ PartBases(tree, k) = {"Double"}
OddKeys(tree, k) ==
    /\ tree[k].kind \in {"dict", "index"} /\ tree[k].kids # <<>>
    /\ LET d == IF tree[k].kind = "dict" THEN TypesOf(tree, types)[k] ELSE PartTypes(tree, k)[1]
       IN  Base(d) = "Dict" /\ Base(Keys(d)) # "String"
LengthOfNone(tree, k) == tree[k].kind = "member" /\ tree[k].words[1] = "?." /\ tree[k].words[2] = "length"
                           /\ PartBases(tree, k) \subseteq {"Nil", "Optional"}
(* What a method returns, and a field that no declaration has, are of the unknown type: so is nil. *)
Untold(tree, k) == tree[k].kind \in {"method_call", "member"} /\ TypesOf(tree, types)[k] = Unknown
OtherFields(tree, k) ==
    /\ tree[k].kind = "struct_literal"
    /\ \E j \in DOMAIN tree[k].kids :
          /\ tree[k].words[j + 1] \in Fields(tree[k].words[1])
          /\ \/ ~Compatible(PartTypes(tree, k)[j], Structs[tree[k].words[1]][tree[k].words[j + 1]])
             \/ Untold(tree, tree[k].kids[j])
UnknownParts(tree, k) == /\ tree[k].kind \in {"array", "dict"} /\ tree[k].kids # <<>>
                         /\ Unknown \in Range(PartTypes(tree, k))

Unsound(tree, k) == BoxedMinus(tree, k, env) \/ Incomparable(tree, k) \/ Remainder(tree, k) \/ OddKeys(tree, k)
                      \/ LengthOfNone(tree, k) \/ OtherFields(tree, k) \/ UnknownParts(tree, k)
Meaningless(st) == st.op \notin {"let", "="}
                     /\ Base(types[st.name]) \notin (IF st.op = "+" THEN {"Int", "Double", "String"}
                                                     ELSE IF st.op = "%" THEN {"Int"} ELSE Numeric)
SoundSoFar(n) == \A j \in 1..n : /\ ~Meaningless(code[j]) /\ ~Untold(code[j].tree, Len(code[j].tree))
                                 /\ \A k \in DOMAIN code[j].tree : ~Unsound(code[j].tree, k)
Executed == IF phase = "finished" THEN Len(code) ELSE pc - 1

(* The state is well formed: a variable without a box is a number or a     *)
(* truth value of a function and has its declared type.                    *)
TypeOK == /\ pc \in DOMAIN code
          /\ phase \in {"analysis", "running", "refused", "finished", "aborted"}
          /\ phase # "running" \/ DOMAIN env \subseteq DOMAIN types
          /\ \A x \in DOMAIN env : env[x].kind # "box" => /\ inFunction /\ env[x].kind \in {"Int", "Double", "Bool"}
                                                          /\ env[x].kind = Base(types[x])
                                                          /\ env[x].v.t = env[x].kind

(* Accepted code computes values of the types that the analysis gave, in   *)
(* the program and in functions, unless one of the expressions is of those *)
(* that it should not have accepted.  So an initial value is never refused *)
(* by the declaration.                                                     *)
TypeSound ==
    (phase \in {"running", "finished"} /\ Executed > 0 /\ SoundSoFar(Executed)) =>
       LET st == code[Executed]
       IN  /\ HasType(value, IF st.op \in {"let", "="} THEN TypeOf(st.tree, types) ELSE types[st.name])
           /\ \A x \in DOMAIN env : HasType(env[x].v, types[x])
           /\ \/ env[st.name].v = value
              \/ ~inFunction /\ Base(types[st.name]) = "Optional" /\ env[st.name].v.kids \in {<<value>>, <<>>}

(* Whether numbers are kept in boxes cannot be told from what accepted     *)
(* code computes, but for minus, which gives nil on a box, and for the     *)
(* division of doubles by zero, which ends the process only with boxes.    *)
AllBoxed == [x \in DOMAIN env |-> Boxed(env[x].v)]
ByZero(tree, k) == tree[k].kind = "binary" /\ tree[k].words[1] = "/"
                     /\ Unboxed(tree, AllBoxed)[tree[k].kids[2]].v.n = 0
BoxingIsTransparent ==
    (phase = "running" /\ \A k \in DOMAIN Here.tree : ~ByZero(Here.tree, k) /\ ~BoxedMinus(Here.tree, k, AllBoxed))
      => Build(Here.tree, env) = Build(Here.tree, AllBoxed)
=============================================================================
