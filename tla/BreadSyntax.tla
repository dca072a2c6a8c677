---------------------------- MODULE BreadSyntax ----------------------------
(***************************************************************************)
(* The expression parser (compiler/ast/ast_expr_parser.c), and how trees   *)
(* are allocated and freed (compiler/ast/ast_memory.c).                    *)
(*                                                                         *)
(* A source is a sequence of tokens, written with one blank between two    *)
(* tokens and none before the parenthesis of a call.  "NL" is the end of a *)
(* line and "//" starts a comment.  The parser works on characters, so     *)
(* that what it does with a comment's words, or with the second half of    *)
(* "==", is kept.  A string is the token Text, or, with interpolations,    *)
(* Opening, then expressions with a Middle between two, then Closing.      *)
(*                                                                         *)
(* Every parsing function returns where it stopped, the tree (NoTree for   *)
(* NULL), how many nodes it allocated less those it freed, and whether it  *)
(* set an error.  An allocation that fails aborts the process, so that it  *)
(* is no result.                                                           *)
(***************************************************************************)
EXTENDS Naturals, Integers, Sequences, FiniteSets, SequencesExt

CONSTANTS Names, Numbers, Types     \* identifiers, number tokens, names of types

Text     == "\"s\""
Openings == {"\"\\(", "\"s\\("}                  \* an interpolation, after text or not
Middles  == {")\\(", ")s\\("}
Closings == {")\"", ")s\""}
HasText(t) == t \in {"\"s\\(", ")s\\(", ")s\""}

Keywords == {"let", "var", "const", "def", "return", "print", "if", "else", "while", "for", "in",
             "break", "continue", "struct", "class", "extends", "init", "import", "export",
             "default", "as", "from"}
Literals == {"nil", "true", "false"} \union Numbers
Idents   == Names \union Types \union Keywords \union {"nil", "true", "false", "self", "super"}

At(s, i) == IF i \in 1..Len(s) THEN s[i] ELSE "END"

(* A keyword is recognised with the blank that follows it. *)
Key(s, i, k) == At(s, i) = k /\ At(s, i + 1) \notin {"NL", "END"}

EndOfLine(s, i) == CHOOSE j \in i..(Len(s) + 1) :
                      /\ At(s, j) \in {"NL", "END"}
                      /\ \A k \in i..(j - 1) : s[k] # "NL"

RECURSIVE Skip(_, _)
Skip(s, i) == CASE At(s, i) = "NL" -> Skip(s, i + 1)
                [] At(s, i) = "//" -> Skip(s, EndOfLine(s, i))
                [] OTHER           -> i
After(s, i) == Skip(s, i + 1)

-----------------------------------------------------------------------------
(* Trees: the words a node stands for, and its children in order. *)
Node(kind, words, kids) == [kind |-> kind, words |-> words, kids |-> kids]
NoTree == Node("null", <<>>, <<>>)                \* a NULL that should be a tree
Absent == Node("absent", <<>>, <<>>)              \* a NULL that says that there is none
IsNull(r) == r.tree = NoTree
(* Made by neither ast_expr_new nor ast_stmt_new. *)
Uncounted == {"null", "absent", "list", "method", "param", "field"}

RECURSIVE Subtrees(_)
Subtrees(t) == {t} \union UNION {Subtrees(t.kids[j]) : j \in DOMAIN t.kids}

RECURSIVE Size(_), Freed(_)
Size(t)  == (IF t.kind \in Uncounted THEN 0 ELSE 1)
              + FoldLeft(LAMBDA n, k : n + Size(k), 0, t.kids)
(* What ast_free_expr and ast_free_stmt_list free: they do not look into   *)
(* struct literals and class declarations.                                 *)
Freed(t) == IF t.kind \in {"struct_literal", "class"} THEN 1
            ELSE (IF t.kind \in Uncounted THEN 0 ELSE 1)
                   + FoldLeft(LAMBDA n, k : n + Freed(k), 0, t.kids)

Result(at, tree, live, err) == [at |-> at, tree |-> tree, live |-> live, err |-> err]
Fail(at)   == Result(at, NoTree, 0, TRUE)         \* an error is set
Refuse(at) == Result(at, NoTree, 0, FALSE)        \* NULL, and no error is set
Leaf(at, kind, words) == Result(at, Node(kind, words, <<>>), 1, FALSE)
Made(at, tree, r) == Result(at, tree, r.live + 1, r.err)
(* r went wrong: the tree of q, parsed before it, is lost, or freed. *)
Keeping(r, q) == [r EXCEPT !.live = @ + q.live, !.err = @ \/ q.err]
Without(r, q) == [r EXCEPT !.live = @ + q.live - Freed(q.tree), !.err = @ \/ q.err]
(* The tree of r is freed, and NULL is returned. *)
Drop(r, err) == [r EXCEPT !.tree = NoTree, !.live = @ - Freed(r.tree), !.err = @ \/ err]
Both(p, q, at, tree) == Result(at, tree, p.live + q.live + 1, p.err \/ q.err)

-----------------------------------------------------------------------------
Operators == <<{"||"}, {"&&"}, {"==", "!=", "<=", ">=", "<", ">"}, {"+", "-"}, {"*", "/", "%"}>>
Comparison == 3

RECURSIVE Level(_, _, _), More(_, _, _), Unary(_, _), Postfix(_, _), Primary(_, _),
          Interpolate(_, _, _), Items(_, _, _, _)

Expression(s, i) == Level(s, i, 1)
Skipped(s, r) == [r EXCEPT !.at = Skip(s, @)]

(* parse_logical_or, parse_logical_and, parse_comparison, parse_term and   *)
(* parse_factor: each takes its operators from the left, comparisons once. *)
Level(s, i, n) == IF n > Len(Operators) THEN Unary(s, Skip(s, i)) ELSE More(s, Level(s, i, n + 1), n)

CreateBinary(left, op, right) == Both(left, right, right.at, Node("binary", <<op>>, <<left.tree, right.tree>>))

OneMore(left, op, right) == IF IsNull(right) THEN Without(right, left) ELSE CreateBinary(left, op, right)
MoreFromRight(s, left, n) ==                            \* Slip: operators bind to the right
    LET p == Skip(s, left.at)
    IN  IF IsNull(left) THEN left
        ELSE IF At(s, p) \notin Operators[n] THEN [left EXCEPT !.at = p]
        ELSE OneMore(left, s[p], Level(s, p + 1, n))

AndMore(s, left, op, right, n) == IF IsNull(right) \/ n = Comparison THEN OneMore(left, op, right)
                                  ELSE More(s, CreateBinary(left, op, right), n)
More(s, left, n) ==
    LET p == Skip(s, left.at)
    IN  IF IsNull(left) THEN left
        ELSE IF At(s, p) \notin Operators[n] THEN [left EXCEPT !.at = p]
        ELSE AndMore(s, left, s[p], Level(s, p + 1, n + 1), n)

UnaryOf(op, r) == IF IsNull(r) THEN r ELSE Made(r.at, Node("unary", <<op>>, <<r.tree>>), r)
Unary(s, i) == IF At(s, i) \in {"!", "-"} THEN UnaryOf(s[i], Unary(s, Skip(s, i + 1)))
               ELSE Postfix(s, Primary(s, i))

(* The items of a list up to its closing token: arguments, the elements of *)
(* an array or the entries of a dictionary, the fields of a struct literal.*)
(* got is a result whose tree holds the items read so far; an entry puts   *)
(* its key and its value among the kids, a field its name among the words. *)
Closing(form) == CASE form = "args" -> ")" [] form = "fields" -> "}" [] OTHER -> "]"

(* An item that is read: its tree is the last of the kids. *)
Grown(got, r) == [got EXCEPT !.at = r.at, !.tree.kids = Append(@, r.tree), !.live = @ + r.live, !.err = @ \/ r.err]
Complete(got, form) == [got EXCEPT !.at = @ + 1, !.tree.kind = form]

(* After an item, at a token: another one, or the end. *)
Following(s, got, form) ==
    IF At(s, got.at) = "," THEN Items(s, Skip(s, got.at + 1), got, form)
    ELSE IF At(s, got.at) # Closing(form) THEN Drop(got, TRUE)
    ELSE Complete(got, form)

FieldWith(s, name, got, value) ==
    IF IsNull(value) THEN Without(value, got)
    ELSE Following(s, [Grown(got, Skipped(s, value)) EXCEPT !.tree.words = Append(@, name)], "fields")
FieldValue(s, p, got, colon) ==
    IF At(s, p) \notin Idents \/ At(s, colon) # ":" THEN Drop([got EXCEPT !.at = p], TRUE)
    ELSE FieldWith(s, s[p], got, Expression(s, colon + 1))

(* The value of an entry, after its key. *)
EntryOf(s, got, key, value) == IF IsNull(value) THEN Without(Without(value, key), got)
                               ELSE Following(s, Grown(Grown(got, key), Skipped(s, value)), "entries")
Entry(s, got, key) == EntryOf(s, got, key, Expression(s, key.at + 1))

(* The first colon in a bracket makes it a dictionary: the elements read   *)
(* before it are dropped when the literal is finished.                     *)
Item(s, got, form, item) ==
    IF IsNull(item) THEN Without(item, got)
    ELSE IF At(s, item.at) # ":"
    THEN IF form = "entries" THEN Without(Drop(item, TRUE), got) ELSE Following(s, Grown(got, item), form)
    ELSE CASE form = "args"     -> Following(s, Grown(got, item), form)
           [] form = "elements" -> Entry(s, [got EXCEPT !.live = @ - Freed(got.tree), !.tree.kids = <<>>], item)
           [] form = "entries"  -> Entry(s, got, item)

Items(s, i, got, form) ==
    LET p == Skip(s, i)
    IN  IF At(s, p) = "END" THEN Drop([got EXCEPT !.at = p], TRUE)
        ELSE IF At(s, p) = Closing(form) THEN Complete([got EXCEPT !.at = p], form)
        ELSE IF form = "fields" THEN FieldValue(s, p, got, Skip(s, p + 1))
        ELSE Item(s, got, form, Skipped(s, Expression(s, p)))

NoItems(i) == Result(i, Node("list", <<>>, <<>>), 0, FALSE)

(* What is made of items, unless they are wrong. *)
MadeOf(r, kind, words, target) ==
    IF IsNull(r) THEN r ELSE Made(r.at, Node(kind, words \o r.tree.words, target \o r.tree.kids), r)

ArrayOrDict(s, i) ==
    LET p == Skip(s, i + 1)
        Given(r) == MadeOf(r, IF r.tree.kind = "entries" THEN "dict" ELSE "array", <<>>, <<>>)
    IN  IF At(s, p) # ":" THEN Given(Items(s, p, NoItems(p), "elements"))
        ELSE IF At(s, Skip(s, p + 1)) = "]" THEN Leaf(Skip(s, p + 1) + 1, "dict", <<>>)
        ELSE Fail(p + 1)

Call(s, i, words, kind, target) == MadeOf(Items(s, i, NoItems(i), "args"), kind, words, target)

Identifier(s, i) ==
    LET p == Skip(s, i + 1)
    IN  CASE s[i] \in {"self", "super"} -> Leaf(i + 1, s[i], <<s[i]>>)
          [] s[i] \notin {"self", "super"} /\ At(s, p) = "{" ->
                MadeOf(Items(s, p + 1, NoItems(p + 1), "fields"), "struct_literal", <<s[i]>>, <<>>)
          [] s[i] \notin {"self", "super"} /\ At(s, p) = "(" -> Call(s, p + 1, <<s[i]>>, "call", <<>>)
          [] OTHER -> Leaf(p, "var", <<s[i]>>)

(* Each interpolation is a call of str, and the segments are concatenated  *)
(* from the left.  sofar is the result of the segments before position i,  *)
(* at which a delimiter of the string stands.                              *)
ConcatenateFirst(left, right, at) ==                    \* Slip: a later segment is dropped
    IF left.tree = Absent THEN Result(at, right.tree, left.live + right.live, left.err \/ right.err)
    ELSE [left EXCEPT !.at = at, !.live = @ + right.live - Freed(right.tree)]

Concatenate(left, right, at) ==
    IF left.tree = Absent THEN Result(at, right.tree, left.live + right.live, left.err \/ right.err)
    ELSE Both(left, right, at, Node("binary", <<"+">>, <<left.tree, right.tree>>))

CallOfStr(r) == Made(r.at, Node("call", <<"str">>, <<r.tree>>), r)
Interpolated(s, before, inner) ==
    IF IsNull(inner) THEN Without(inner, before)
    ELSE IF At(s, inner.at) \in Middles \union Closings
    THEN Interpolate(s, inner.at, Concatenate(before, CallOfStr(inner), inner.at))
    ELSE Without(Drop(inner, TRUE), before)
WithText(s, i, sofar) == IF HasText(s[i]) THEN Concatenate(sofar, Leaf(i, "string", <<Text>>), i) ELSE sofar
Interpolate(s, i, sofar) ==
    IF s[i] \in Closings THEN [WithText(s, i, sofar) EXCEPT !.at = i + 1]
    ELSE Interpolated(s, WithText(s, i, sofar), Skipped(s, Expression(s, i + 1)))

StringLiteral(s, i) == IF s[i] = Text THEN Leaf(i + 1, "string", <<Text>>)
                       ELSE Interpolate(s, i, Result(i, Absent, 0, FALSE))

Primary(s, i) ==
    LET Given(inner) ==
            IF IsNull(inner) THEN inner
            ELSE IF At(s, Skip(s, inner.at)) # ")" THEN Drop(Skipped(s, inner), TRUE)
            ELSE [Skipped(s, inner) EXCEPT !.at = @ + 1]
    IN  CASE At(s, i) \in Literals -> Leaf(i + 1, "literal", <<s[i]>>)
          [] At(s, i) = "(" -> Given(Expression(s, i + 1))
          [] At(s, i) \in {Text} \union Openings -> StringLiteral(s, i)
          [] At(s, i) = "[" -> ArrayOrDict(s, i)
          [] At(s, i) \in Idents \ Literals -> Identifier(s, i)
          [] OTHER -> Fail(i)

IndexOf(s, base, index) ==
    LET q == Skip(s, index.at)
    IN  IF IsNull(index) THEN Without(index, base)
        ELSE IF At(s, q) # "]" THEN Without(Drop([index EXCEPT !.at = q], TRUE), base)
        ELSE Postfix(s, Both(base, index, q + 1, Node("index", <<>>, <<base.tree, index.tree>>)))

(* The member whose name is at m, after the sign at p. *)
MemberOf(s, base, p, m, a) ==
    LET words == <<s[p], s[m]>>
        Given(call) == IF IsNull(call) THEN Without(call, base)
                       ELSE Postfix(s, Keeping(call, base))
    IN  IF At(s, m) \notin Idents THEN Drop([base EXCEPT !.at = m], TRUE)
        ELSE IF At(s, a) # "(" THEN Postfix(s, Made(a, Node("member", words, <<base.tree>>), base))
        ELSE Given(Call(s, a + 1, words, "method_call", <<base.tree>>))

(* base may be NULL: then an error is set, and what follows is still read. *)
Postfix(s, base) ==
    LET p == Skip(s, base.at)
    IN  CASE At(s, p) = "[" -> IndexOf(s, base, Expression(s, p + 1))
          [] At(s, p) \in {".", "?."} -> MemberOf(s, base, p, Skip(s, p + 1), Skip(s, Skip(s, p + 1) + 1))
          [] OTHER -> [base EXCEPT !.at = p]

-----------------------------------------------------------------------------
(* is_expression_brace: what follows a brace looks like a struct literal.  *)
(* An end of line does not count as a blank.                               *)
IsExpressionBrace(s, i) == \/ At(s, i) = "}"
                           \/ At(s, i) \in Idents \union {Text} /\ At(s, i + 1) = ":"

(* The extent of an expression in a statement.  Comments are not known     *)
(* here: their words count like any others.                                *)
Closed == [paren |-> 0, brace |-> 0, bracket |-> 0, str |-> FALSE]

Depth(d, t) ==
    LET Less(f) == IF d[f] > 0 THEN [d EXCEPT ![f] = @ - 1] ELSE d
    IN  IF d.str THEN [d EXCEPT !.str = t \notin Closings]
        ELSE CASE t \in Openings -> [d EXCEPT !.str = TRUE]
               [] t = "(" -> [d EXCEPT !.paren = @ + 1]   [] t = ")" -> Less("paren")
               [] t = "{" -> [d EXCEPT !.brace = @ + 1]   [] t = "}" -> Less("brace")
               [] t = "[" -> [d EXCEPT !.bracket = @ + 1] [] t = "]" -> Less("bracket")
               [] OTHER   -> d

RECURSIVE ExtentEnd(_, _, _)
ExtentEnd(s, i, d) ==
    LET t == At(s, i)
    IN  IF \/ t = "END"
           \/ ~d.str /\ \/ d = Closed /\ t \in {"NL", ";", ","}
                        \/ d = Closed /\ t = "{" /\ ~IsExpressionBrace(s, i + 1)
                        \/ t = ")" /\ d.paren = 0
                        \/ t = "}" /\ d.brace = 0
        THEN i
        ELSE ExtentEnd(s, i + 1, Depth(d, t))

(* parse_expression_str_as_ast: all of the extent must be the expression. *)
Extent(x, end, r) == IF IsNull(r) \/ Skip(x, r.at) > Len(x) THEN [r EXCEPT !.at = end]
                     ELSE Drop([r EXCEPT !.at = end], TRUE)
ExpressionIn(x, end) == Extent(x, end, Expression(x, 1))
ExpressionUpto(s, i, end) == ExpressionIn(SubSeq(s, i, end - 1), end)
ExpressionStr(s, i) == ExpressionUpto(s, i, ExtentEnd(s, i, Closed))
=============================================================================
