-------------------------- MODULE BreadStatements --------------------------
(***************************************************************************)
(* The statement parser (compiler/ast/ast_stmt_parser.c) and the parser of *)
(* types (compiler/ast/ast_types.c).  A parser that returns NULL without   *)
(* an error (Refuse) leaves the position where it stopped, and its caller  *)
(* may go on there.                                                        *)
(***************************************************************************)
EXTENDS BreadSyntax

Word(s, i) == At(s, i) \in Idents \union Numbers        \* letters, digits and underscores
EmptyList  == Node("list", <<>>, <<>>)
Adding(list, t) == [list EXCEPT !.kids = Append(@, t)]

-----------------------------------------------------------------------------
(* parse_type_descriptor: where the type ends and its tokens, or none. *)
RECURSIVE TypeAt(_, _), Blanks(_, _)
Blanks(s, i) == IF At(s, i) = "NL" THEN Blanks(s, i + 1) ELSE i    \* comments are not known here

Optional(s, i, words) == LET q == Blanks(s, i)
                         IN  IF At(s, q) = "?" THEN [at |-> q + 1, words |-> Append(words, "?")]
                             ELSE [at |-> q, words |-> words]
NoType(i) == [at |-> i, words |-> <<>>]

DictType(s, key, value, g) ==
    IF value.words = <<>> \/ At(s, g) # "]" THEN NoType(g)
    ELSE Optional(s, g + 1, <<"[">> \o key.words \o <<":">> \o value.words \o <<"]">>)
DictOf(s, key, value) == DictType(s, key, value, Blanks(s, value.at))

ArrayType(s, first, f) ==
    IF first.words = <<>> THEN first
    ELSE IF At(s, f) = "]" THEN Optional(s, f + 1, <<"[">> \o first.words \o <<"]">>)
    ELSE IF At(s, f) # ":" THEN NoType(f)
    ELSE DictOf(s, first, TypeAt(s, f + 1))
BracketOf(s, first) == ArrayType(s, first, Blanks(s, first.at))

TypeAt(s, i) ==
    LET p == Blanks(s, i)
    IN  CASE At(s, p) \in Idents -> Optional(s, p + 1, <<s[p]>>)
          [] At(s, p) = "["      -> BracketOf(s, TypeAt(s, p + 1))
          [] OTHER               -> NoType(p)

-----------------------------------------------------------------------------
RECURSIVE Statement(_, _), BlockFrom(_, _, _), Params(_, _, _, _), Symbols(_, _, _), Fields(_, _, _),
          Members(_, _, _, _), AssignmentSign(_, _, _)

(* parse_block, up to the closing brace or the failure of a statement. *)
NextIn(s, st, got) == IF IsNull(st) THEN Without(st, got)
                      ELSE BlockFrom(s, st.at, Result(st.at, Adding(got.tree, st.tree),
                                                      got.live + st.live, got.err \/ st.err))
BlockFrom(s, i, got) == LET p == Skip(s, i)
                        IN  IF At(s, p) = "}" \/ i > Len(s) THEN [got EXCEPT !.at = p]
                            ELSE NextIn(s, Statement(s, p), got)

(* Only the brace is looked at: when a statement fails just before it, the *)
(* block is NULL.                                                          *)
Closes(s, r) == At(s, r.at) = "}"
Block(s, i)  == BlockFrom(s, i, Result(i, EmptyList, 0, FALSE))

(* import and export: the statement is allocated first, and freed when     *)
(* something is missing.                                                   *)
Symbols(s, i, words) ==
    LET p == Skip(s, i)
        Stop(at, ok) == [at |-> at, words |-> words, ok |-> ok]
        Another(q, more) == Symbols(s, IF At(s, q) = "," THEN q + 1 ELSE q, words \o more)
        Renamed(b) == IF ~Word(s, b) THEN Stop(b, FALSE) ELSE Another(After(s, b), <<s[p], "as", s[b]>>)
        Named(a) == IF Key(s, a, "as") THEN Renamed(After(s, a)) ELSE Another(a, <<s[p]>>)
    IN  IF At(s, p) \in {"}", "END"} THEN Stop(p, At(s, p) = "}")
        ELSE IF ~Word(s, p) THEN Stop(p, FALSE)
        ELSE Named(After(s, p))

Import(s, i) ==
    LET Alias(b) == IF Word(s, b) THEN Leaf(b + 1, "import", <<Text, "as", s[b]>>) ELSE Refuse(b)
        Whole(a) == IF Key(s, a, "as") THEN Alias(After(s, a)) ELSE Leaf(a, "import", <<Text>>)
        From(list, path) == IF At(s, path) # Text THEN Refuse(path)
                            ELSE Leaf(After(s, path), "import", Append(list.words, Text))
        Selected(list, f) == IF ~list.ok THEN Refuse(list.at)
                             ELSE IF ~Key(s, f, "from") THEN Refuse(f)
                             ELSE From(list, After(s, f))
        Listed(list) == Selected(list, After(s, list.at))
        What(p) == IF At(s, p) = "{" THEN Listed(Symbols(s, p + 1, <<>>))
                   ELSE IF At(s, p) # Text THEN Refuse(p)
                   ELSE Whole(After(s, p))
    IN  What(After(s, i))

Export(s, i) ==
    LET Default(d) == IF Word(s, d) THEN Leaf(d + 1, "export", <<"default", s[d]>>) ELSE Refuse(d)
        Listed(list) == IF list.ok THEN Leaf(list.at + 1, "export", list.words) ELSE Refuse(list.at)
        What(p) == IF Key(s, p, "default") THEN Default(After(s, p))
                   ELSE IF At(s, p) # "{" THEN Refuse(p)
                   ELSE Listed(Symbols(s, p + 1, <<>>))
    IN  What(After(s, i))

-----------------------------------------------------------------------------
(* The parameters up to the closing parenthesis.  What was read before is  *)
(* freed only where the code does: when a default value or the parenthesis *)
(* of a def at top level is wrong.  *)
Gone(r, got, frees) == IF frees THEN Without(r, got) ELSE Keeping(r, got)
Ended(got, frees)   == IF frees THEN Drop(got, FALSE) ELSE [got EXCEPT !.tree = NoTree]

NextParam(s, all, frees) == IF At(s, all.at) = "," THEN Params(s, all.at + 1, all, frees)
                            ELSE IF At(s, all.at) = ")" THEN [all EXCEPT !.at = @ + 1]
                            ELSE Ended(all, frees)
ParamWith(s, words, dflt, got, frees) ==
    LET kids == IF dflt.tree = Absent THEN <<>> ELSE <<dflt.tree>>
    IN  IF IsNull(dflt) THEN Gone(dflt, got, frees)
        ELSE NextParam(s, Result(Skip(s, dflt.at), Adding(got.tree, Node("param", words, kids)),
                                 got.live + dflt.live, got.err \/ dflt.err), frees)
Default(s, e) == IF At(s, e) = "=" THEN ExpressionStr(s, After(s, e)) ELSE Result(e, Absent, 0, FALSE)
ParamOf(s, name, type, got, frees) ==
    IF type.words = <<>> THEN Keeping(Refuse(type.at), got)
    ELSE ParamWith(s, <<name>> \o type.words, Default(s, Skip(s, type.at)), got, frees)

Params(s, i, got, frees) ==
    LET p == Skip(s, i)
        c == After(s, p)
    IN  IF At(s, p) = ")" /\ got.tree.kids = <<>> THEN [got EXCEPT !.at = p + 1]
        ELSE IF i > Len(s) THEN Ended(got, frees)
        ELSE IF ~Word(s, p) THEN Keeping(Refuse(p), got)
        ELSE IF At(s, c) # ":" THEN Keeping(Refuse(c), got)
        ELSE ParamOf(s, s[p], TypeAt(s, c + 1), got, frees)

(* A def, a method or a constructor from its parameters on: its name, the  *)
(* type it returns, its parameters and its body.                           *)
FunctionBody(s, name, kind, ps, type, body) ==
    IF IsNull(body) \/ ~Closes(s, body) THEN Gone(Drop(body, FALSE), ps, kind = "def")
    ELSE Result(body.at + 1, Node(kind, <<name>> \o type.words, Append(ps.tree.kids, body.tree)),
                ps.live + body.live + (IF kind = "def" THEN 1 ELSE 0), ps.err \/ body.err)
FunctionOf(s, name, kind, ps, type, b) ==
    IF type.words = <<>> THEN Gone(Refuse(type.at), ps, kind = "def")
    ELSE IF At(s, b) # "{" THEN Gone(Refuse(b), ps, kind = "def")
    ELSE FunctionBody(s, name, kind, ps, type, Block(s, b + 1))
Returning(s, name, kind, ps, type) == FunctionOf(s, name, kind, ps, type, Skip(s, type.at))
WithParams(s, name, kind, returns, ps) ==
    LET p == Skip(s, ps.at)
    IN  IF IsNull(ps) THEN ps
        ELSE Returning(s, name, kind, ps, IF returns /\ At(s, p) = "->" THEN TypeAt(s, p + 1)
                                          ELSE [at |-> p, words |-> <<"Nil">>])
Function(s, i, name, kind, returns) ==
    WithParams(s, name, kind, returns, Params(s, Skip(s, i), Result(i, EmptyList, 0, FALSE), kind = "def"))

(* A def or a method whose name is at n and its parenthesis at p. *)
Called(s, n, p, kind) == IF ~Word(s, n) THEN Refuse(n)
                         ELSE IF At(s, p) # "(" THEN Refuse(p)
                         ELSE Function(s, p + 1, s[n], kind, TRUE)

Def(s, i)         == Called(s, After(s, i), After(s, After(s, i)), "def")
Method(s, i)      == Called(s, After(s, i), After(s, After(s, i)), "method")
Constructor(s, p) == Function(s, p + 2, "init", "method", FALSE)

(* One field of a struct or a class. *)
FieldOf(name, type) == IF type.words = <<>> THEN Refuse(type.at)
                       ELSE Result(type.at, Node("field", <<name>> \o type.words, <<>>), 0, FALSE)
Field(s, i) == IF ~Word(s, i) THEN Refuse(i)
               ELSE IF At(s, After(s, i)) # ":" THEN Refuse(After(s, i))
               ELSE FieldOf(s[i], TypeAt(s, After(s, i) + 1))

NextField(s, f, got) == IF IsNull(f) THEN f ELSE Fields(s, f.at, [got EXCEPT !.tree = Adding(@, f.tree)])
Fields(s, i, got) == LET p == Skip(s, i)
                     IN  IF At(s, p) \in {"}", "END"} THEN [got EXCEPT !.at = p]
                         ELSE NextField(s, Field(s, p), got)

StructOf(s, fs) == IF IsNull(fs) \/ ~Closes(s, fs) THEN Refuse(fs.at) ELSE Made(fs.at + 1, fs.tree, fs)
Struct(s, i) ==
    LET n == After(s, i)
        b == After(s, n)
    IN  IF ~Word(s, n) THEN Refuse(n)
        ELSE IF At(s, b) # "{" THEN Refuse(b)
        ELSE StructOf(s, Fields(s, b + 1, Result(b + 1, Node("struct", <<s[n]>>, <<>>), 0, FALSE)))

IsField(t)  == t.kind = "field"
IsMethod(t) == t.kind = "method"

(* The members of a class.  A constructor written init(...) replaces the   *)
(* one before it; one written def init(...) is refused if there is one.    *)
(* When a member is wrong the members read before it are not freed.        *)
Finished(got, ctor, i) ==
    IF ctor = Absent THEN Result(i, NoTree, got.live, got.err)
    ELSE [got EXCEPT !.at = i, !.tree.kids = SelectSeq(@, IsField) \o SelectSeq(@, IsMethod) \o <<ctor>>]

Lost(r, got)    == [Keeping(r, got) EXCEPT !.tree = NoTree]
With(f, t, got) == [Keeping(f, got) EXCEPT !.tree = t]
Member(s, f, got, ctor, replaces) ==
    IF IsNull(f) THEN Lost(f, got)
    ELSE IF f.tree.kind = "field" \/ f.tree.words[1] # "init"
    THEN Members(s, f.at, With(f, Adding(got.tree, f.tree), got), ctor)
    ELSE IF ctor = Absent \/ replaces THEN Members(s, f.at, With(f, got.tree, got), f.tree)
    ELSE Lost(f, got)

Members(s, i, got, ctor) ==
    LET p      == Skip(s, i)
        isInit == At(s, p) = "init" /\ At(s, p + 1) = "("
    IN  IF At(s, p) = "}" THEN Finished(got, ctor, p + 1)
        ELSE IF At(s, p) = "END" THEN Lost(Refuse(p), got)
        ELSE Member(s, IF isInit THEN Constructor(s, p) ELSE IF Key(s, p, "def") THEN Method(s, p) ELSE Field(s, p),
                    got, ctor, isInit)

ClassOf(ms) == IF IsNull(ms) THEN ms ELSE Made(ms.at, ms.tree, ms)
ClassBody(s, words, b) ==
    IF At(s, b) # "{" THEN Refuse(b)
    ELSE ClassOf(Members(s, b + 1, Result(b + 1, Node("class", words, <<>>), 0, FALSE), Absent))
Class(s, i) ==
    LET n  == After(s, i)
        e  == After(s, n)
        pn == After(s, e)
    IN  IF ~Word(s, n) THEN Refuse(n)
        ELSE IF ~Key(s, e, "extends") THEN ClassBody(s, <<s[n]>>, e)
        ELSE IF ~Word(s, pn) THEN Refuse(pn)
        ELSE ClassBody(s, <<s[n], s[pn]>>, After(s, pn))

-----------------------------------------------------------------------------
(* print and return take the end of their line or a semicolon with them. *)
LineEnd(s, i) == IF At(s, i) \in {"NL", ";"} THEN i + 1 ELSE i
EndsLine(s, i) == At(s, i) \in {"NL", "END", "}", ";"}

ReturnOf(s, e) == IF IsNull(e) THEN e ELSE Made(LineEnd(s, e.at), Node("return", <<"return">>, <<e.tree>>), e)
Return(s, i) == ReturnOf(s, ExpressionStr(s, After(s, i)))

PrintOf(s, e, p) == IF EndsLine(s, p) THEN Made(LineEnd(s, p), Node("print", <<"print">>, <<e.tree>>), e)
                    ELSE Drop([e EXCEPT !.at = p], FALSE)
PrintUpto(s, e) == PrintOf(s, e, IF At(s, e.at) = ")" THEN e.at + 1 ELSE e.at)
Printing(s, i) == PrintUpto(s, ExpressionStr(s, i + 2))

DeclarationOf(sort, words, e) ==
    IF IsNull(e) THEN e
    ELSE Made(e.at, Node(IF sort = "const" THEN "const" ELSE "let", words, <<e.tree>>), e)
Valued(s, sort, words, q) ==
    IF At(s, q) = "=" THEN DeclarationOf(sort, words, ExpressionStr(s, After(s, q))) ELSE Refuse(q)
TypedName(s, sort, name, type) ==
    IF type.words = <<>> THEN Refuse(type.at) ELSE Valued(s, sort, <<name>> \o type.words, Skip(s, type.at))
Declaration(s, i) ==
    LET n == After(s, i)
        c == After(s, n)
    IN  IF ~Word(s, n) THEN Refuse(n)
        ELSE IF At(s, c) = ":" THEN TypedName(s, s[i], s[n], TypeAt(s, c + 1))
        ELSE Valued(s, s[i], <<s[n]>>, c)

(* if: up is what is read so far, with the condition and the body in its   *)
(* tree.                                                                   *)
IfOf(up, r, at, else) == Both(up, r, at, Node("if", <<"if">>, Append(up.tree.kids, else)))
ElseIf(up, chain) == IF IsNull(chain) THEN Without(chain, up)
                     ELSE IfOf(up, chain, chain.at, Adding(EmptyList, chain.tree))
ElseBlock(s, up, other) == IF Closes(s, other) THEN IfOf(up, other, other.at + 1, other.tree)
                           ELSE Without(Drop(other, FALSE), up)
Else(s, up, x) == IF Key(s, x, "if") THEN ElseIf(up, Statement(s, x))
                  ELSE IF At(s, x) # "{" THEN Drop([up EXCEPT !.at = x], FALSE)
                  ELSE ElseBlock(s, up, Block(s, x + 1))
ThenOf(s, up, e) == IF ~Closes(s, up) THEN Drop(up, FALSE)
                  ELSE IF Key(s, e, "else") THEN Else(s, up, After(s, e))
                  ELSE IfOf(up, Refuse(e), e, Absent)
WithThen(s, c, then) == ThenOf(s, Result(then.at, Node("list", <<>>, <<c.tree, then.tree>>),
                                       c.live + then.live, c.err \/ then.err), After(s, then.at))
TestedAt(s, c, b) == IF IsNull(c) THEN c
                     ELSE IF At(s, b) # "{" THEN Drop([c EXCEPT !.at = b], FALSE)
                     ELSE WithThen(s, c, Block(s, b + 1))
Tested(s, c) == TestedAt(s, c, Skip(s, c.at))
If(s, i) == Tested(s, ExpressionStr(s, After(s, i)))

(* while, and for once its variable and the word in are read. *)
LoopOf(s, c, body, kind, words) ==
    IF Closes(s, body) THEN Both(c, body, body.at + 1, Node(kind, words, <<c.tree, body.tree>>))
    ELSE Without(Drop(body, FALSE), c)
LoopOver(s, c, b, kind, words) == IF IsNull(c) THEN c
                                  ELSE IF At(s, b) # "{" THEN Drop([c EXCEPT !.at = b], FALSE)
                                  ELSE LoopOf(s, c, Block(s, b + 1), kind, words)
LoopFrom(s, c, kind, words) == LoopOver(s, c, Skip(s, c.at), kind, words)
Loop(s, i, kind, words) == LoopFrom(s, ExpressionStr(s, i), kind, words)

While(s, i) == Loop(s, After(s, i), "while", <<"while">>)

(* The variable of a for goes up to the next blank. *)
BlankAfter(s, v) == CHOOSE j \in v..(Len(s) + 1) :
                       /\ j > Len(s) \/ (s[j] # "NL" /\ At(s, j + 1) # "NL")
                       /\ \A k \in v..(j - 1) : s[k] = "NL" \/ At(s, k + 1) = "NL"
ForIn(s, v, n, q) == IF Key(s, q, "in") THEN Loop(s, After(s, q), "for", SubSeq(s, v, n)) ELSE Refuse(q)
ForNamed(s, v, n) == ForIn(s, v, n, After(s, n))
For(s, i) == LET v == After(s, i)
             IN  IF At(s, v) = "END" THEN Refuse(v) ELSE ForNamed(s, v, BlankAfter(s, v))

-----------------------------------------------------------------------------
(* The first sign "=" of the line outside of brackets, braces and strings, *)
(* or 0.  The second half of "==", and the "=" of "!=", "<=" and ">=", are *)
(* taken for it: what is before it belongs to the left side.               *)
Compound == {"+=", "-=", "*=", "/=", "%="}
Signs    == {"=", "==", "!=", "<=", ">="} \union Compound
FirstHalf(t) == CASE t = "==" -> <<"=">> [] t = "!=" -> <<"!">> [] t = "<=" -> <<"<">>
                  [] t = ">=" -> <<">">> [] OTHER -> <<>>

AssignmentSign(s, i, d) ==
    LET t == At(s, i)
        Then(e) == IF \/ t = "END"
                      \/ ~d.str /\ t = "}" /\ d.brace = 0
                      \/ e = Closed /\ t \in {"NL", ";"} THEN 0
                   ELSE IF e = Closed /\ t \in Signs THEN i
                   ELSE AssignmentSign(s, i + 1, e)
    IN  Then(Depth(d, t))

(* The left side is parsed only when it has a bracket or a dot; one that   *)
(* is neither an index nor a member is taken as the name of a variable.    *)
Place(left) == IF \E k \in DOMAIN left : left[k] = "[" THEN "index"
               ELSE IF \E k \in DOMAIN left : left[k] \in {".", "?."} THEN "member"
               ELSE "none"
LeftSide(left, place) == IF place = "none" THEN Result(1, Absent, 0, FALSE) ELSE ExpressionStr(left, 1)
AssignTo(kept, target, right) == IF IsNull(right) THEN Without(right, kept)
                                 ELSE Both(kept, right, right.at, Adding(target, right.tree))
AssignmentOf(op, left, place, lhs, right) ==
    IF lhs.tree.kind = place /\ lhs.tree.kids[1] # NoTree
    THEN AssignTo([lhs EXCEPT !.live = @ - 1, !.tree.kind = "list"],
                  Node("assign_" \o place, op \o lhs.tree.words, lhs.tree.kids), right)
    ELSE AssignTo(Drop(lhs, FALSE), Node("assign", op \o left, <<>>), right)
Assignment(s, i, sign) ==
    LET left == SubSeq(s, i, sign - 1) \o FirstHalf(s[sign])
    IN  AssignmentOf(<<IF s[sign] \in Compound THEN s[sign] ELSE "=">>, left, Place(left),
                     LeftSide(left, Place(left)), ExpressionStr(s, After(s, sign)))

ExpressionAlone(e) == IF IsNull(e) THEN e ELSE Made(e.at, Node("expr", <<>>, <<e.tree>>), e)
ExpressionStatement(s, i) == ExpressionAlone(ExpressionStr(s, i))

(* parse_stmt at a token: the first form that fits. *)
Signed(s, i, sign) == IF sign > 0 THEN Assignment(s, i, sign) ELSE ExpressionStatement(s, i)
Statement(s, i) ==
    CASE Key(s, i, "import")   -> Import(s, i)
      [] Key(s, i, "export")   -> Export(s, i)
      [] Key(s, i, "def")      -> Def(s, i)
      [] At(s, i) = "return"   -> Return(s, i)
      [] Key(s, i, "struct")   -> Struct(s, i)
      [] Key(s, i, "class")    -> Class(s, i)
      [] \E k \in {"let", "var", "const"} : Key(s, i, k) -> Declaration(s, i)
      [] At(s, i) = "print" /\ At(s, i + 1) = "(" -> Printing(s, i)
      [] Key(s, i, "if")       -> If(s, i)
      [] Key(s, i, "while")    -> While(s, i)
      [] Key(s, i, "for")      -> For(s, i)
      [] At(s, i) \in {"break", "continue"} -> Leaf(i + 1, s[i], <<s[i]>>)
      [] OTHER -> Signed(s, i, AssignmentSign(s, i, Closed))
=============================================================================
