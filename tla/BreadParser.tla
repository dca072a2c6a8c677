---------------------------- MODULE BreadParser ----------------------------
(***************************************************************************)
(* The parser of programs, ast_parse_program (compiler/ast/ast.c): the     *)
(* loop over the statements of a source, over the statement and expression *)
(* parsers.  A source is either a program written out, so that the tree    *)
(* that is meant is known, or any sequence of tokens.                      *)
(*                                                                         *)
(* No string stands inside an interpolation, and the name after "export    *)
(* default" is there: without it the code frees pointers it never set.     *)
(* A comment that follows a statement on its line is left out: it is read  *)
(* as a part of the expression before it (ast_expr_parser.c:438).          *)
(***************************************************************************)
EXTENDS BreadStatements

CONSTANTS Programs,     \* sequences of statement trees
          Layouts,      \* with no comments, or with a line of comment before each statement
          Texts         \* sequences of tokens

ASSUME LayoutsAssumption == Layouts \subseteq {"none", "lines"}

-----------------------------------------------------------------------------
(* Writing a tree out, with no more parentheses than precedence asks for.  *)
Joined(seqs, sep) == FoldLeft(LAMBDA all, s : IF all = <<>> THEN s ELSE all \o sep \o s, <<>>, seqs)

LevelOf(t) == CASE t.kind = "binary" -> CHOOSE n \in DOMAIN Operators : t.words[1] \in Operators[n]
                [] t.kind = "unary"  -> Len(Operators) + 1
                [] OTHER             -> Len(Operators) + 2
Tight == Len(Operators) + 2

RECURSIVE Written(_, _), Line(_, _)

Loosely(ts)  == Joined([j \in DOMAIN ts |-> Written(ts[j], 1)], <<",">>)
Entries(t)   == Joined([j \in 1..(Len(t.kids) \div 2) |->
                           Written(t.kids[2 * j - 1], 1) \o <<":">> \o Written(t.kids[2 * j], 1)], <<",">>)
Settings(t)  == Joined([j \in DOMAIN t.kids |-> <<t.words[j + 1], ":">> \o Written(t.kids[j], 1)], <<",">>)

Written(t, level) ==
    LET k == t.kids
        n == LevelOf(t)
        plain == CASE t.kind = "binary"      -> Written(k[1], IF n = Comparison THEN n + 1 ELSE n)
                                                  \o t.words \o Written(k[2], n + 1)
                   [] t.kind = "unary"       -> t.words \o Written(k[1], n)
                   [] t.kind = "array"       -> <<"[">> \o Loosely(k) \o <<"]">>
                   [] t.kind = "dict"        -> IF k = <<>> THEN <<"[", ":", "]">>
                                                ELSE <<"[">> \o Entries(t) \o <<"]">>
                   [] t.kind = "struct_literal" -> <<t.words[1], "{">> \o Settings(t) \o <<"}">>
                   [] t.kind = "call"        -> t.words \o <<"(">> \o Loosely(k) \o <<")">>
                   [] t.kind = "method_call" -> Written(k[1], Tight) \o t.words
                                                  \o <<"(">> \o Loosely(Tail(k)) \o <<")">>
                   [] t.kind = "index"       -> Written(k[1], Tight) \o <<"[">> \o Written(k[2], 1) \o <<"]">>
                   [] t.kind = "member"      -> Written(k[1], Tight) \o t.words
                   [] OTHER                  -> t.words
    IN  IF n < level THEN <<"(">> \o plain \o <<")">> ELSE plain

Remark == <<"//", "a", ",", "}", ";", "=", "1">>
Typed(words) == <<words[1], ":">> \o Tail(words)
Lines(t, layout) ==
    Joined([j \in DOMAIN t.kids |-> (IF layout = "lines" THEN Remark \o <<"NL">> ELSE <<>>)
                                      \o Line(t.kids[j], layout) \o <<"NL">>], <<>>)
Braced(t, layout) == <<"{", "NL">> \o Lines(t, layout) \o <<"}">>
Parameter(t) == Typed(t.words) \o (IF t.kids = <<>> THEN <<>> ELSE <<"=">> \o Written(t.kids[1], 1))
Header(t)    == <<t.words[1], "(">> \o Joined([j \in 1..(Len(t.kids) - 1) |-> Parameter(t.kids[j])], <<",">>)
                  \o <<")">>
Definition(t, layout) == <<"def">> \o Header(t) \o <<"->">> \o Tail(t.words) \o Braced(Last(t.kids), layout)

Line(t, layout) ==
    LET k == t.kids
        w == t.words
        e == Written(Last(k), 1)
    IN  CASE t.kind \in {"let", "const"} ->
                <<t.kind>> \o (IF Len(w) > 1 THEN Typed(w) ELSE w) \o <<"=">> \o e
          [] t.kind = "assign"        -> Tail(w) \o <<w[1]>> \o e
          [] t.kind = "assign_index"  -> Written(k[1], Tight) \o <<"[">> \o Written(k[2], 1) \o <<"]", w[1]>> \o e
          [] t.kind = "assign_member" -> Written(k[1], Tight) \o Tail(w) \o <<w[1]>> \o e
          [] t.kind = "print"         -> <<"print", "(">> \o e \o <<")">>
          [] t.kind = "return"        -> <<"return">> \o e
          [] t.kind = "expr"          -> e
          [] t.kind = "if" ->
                <<"if">> \o Written(k[1], 1) \o Braced(k[2], layout)
                  \o (IF k[3] = Absent THEN <<>>
                      ELSE IF Len(k[3].kids) = 1 /\ k[3].kids[1].kind = "if"
                      THEN <<"else">> \o Line(k[3].kids[1], layout)
                      ELSE <<"else">> \o Braced(k[3], layout))
          [] t.kind = "while"  -> <<"while">> \o Written(k[1], 1) \o Braced(k[2], layout)
          [] t.kind = "for"    -> <<"for">> \o w \o <<"in">> \o Written(k[1], 1) \o Braced(k[2], layout)
          [] t.kind = "field"  -> Typed(w)
          [] t.kind = "struct" -> <<"struct">> \o w \o Braced(t, layout)
          [] t.kind = "class"  -> <<"class", w[1]>> \o (IF Len(w) = 2 THEN <<"extends", w[2]>> ELSE <<>>)
                                    \o Braced(t, layout)
          [] t.kind = "method" -> IF w[1] = "init" THEN Header(t) \o Braced(Last(k), layout)
                                  ELSE Definition(t, layout)
          [] t.kind = "def"    -> Definition(t, layout)
          [] t.kind = "import" -> IF w[1] = Text THEN <<"import">> \o w
                                  ELSE <<"import", "{">> \o Front(w) \o <<"}", "from", Text>>
          [] t.kind = "export" -> IF w[1] = "default" THEN <<"export">> \o w
                                  ELSE <<"export", "{">> \o w \o <<"}">>
          [] OTHER -> w

-----------------------------------------------------------------------------
VARIABLES source,       \* the tokens
          meant,        \* the program that was written out, or NoTree
          layout,       \* with comments or without
          pos,          \* how far the source is read
          list,         \* the statements so far
          live,         \* nodes allocated and not freed
          status        \* "parsing", "accepted", "refused"

vars == <<source, meant, layout, pos, list, live, status>>

Init == /\ \/ \E p \in Programs : /\ meant = Node("list", <<>>, p)
                                  /\ layout \in Layouts
                                  /\ source = Lines(meant, layout)
           \/ meant = NoTree /\ layout = "none" /\ source \in Texts
        /\ pos = 1 /\ list = EmptyList /\ live = 0 /\ status = "parsing"

Here == Skip(source, pos)

SkipSeparator ==
    /\ status = "parsing" /\ At(source, Here) = ";"
    /\ pos' = Here + 1
    /\ UNCHANGED <<source, meant, layout, list, live, status>>

(* ast_free_stmt_list on the list with the statement just parsed. *)
RefusedKeeping(all, nodes) ==                            \* Slip: the freed list is returned
    status' = "refused" /\ list' = all /\ live' = nodes - Freed(all)
Refused(all, nodes) == /\ status' = "refused"
                       /\ list' = EmptyList
                       /\ live' = nodes - Freed(all)

AfterStatementAgain(at) == Here                           \* Slip: the position is not handed back
AfterStatement(at) == LET p == Skip(source, at) IN IF At(source, p) = ";" THEN p + 1 ELSE p

ParsedUnchecked(st, all) ==                              \* Slip: the error flag is not looked at
    IF IsNull(st)
    THEN /\ pos' = st.at
         /\ Refused(list, live + st.live)
    ELSE /\ pos' = AfterStatement(st.at)
         /\ list' = all /\ live' = live + st.live /\ UNCHANGED status

Parsed(st, all) ==
    IF IsNull(st)
    THEN /\ pos' = st.at
         /\ Refused(list, live + st.live)
    ELSE /\ pos' = AfterStatement(st.at)
         /\ IF st.err THEN Refused(all, live + st.live)
            ELSE list' = all /\ live' = live + st.live /\ UNCHANGED status
ParsedInto(st) == Parsed(st, Adding(list, st.tree))

ParseStatement ==
    /\ status = "parsing" /\ At(source, Here) \notin {";", "END"}
    /\ ParsedInto(Statement(source, Here))
    /\ UNCHANGED <<source, meant, layout>>

Finish ==
    /\ status = "parsing" /\ At(source, Here) = "END"
    /\ status' = "accepted" /\ pos' = Here
    /\ UNCHANGED <<source, meant, layout, list, live>>

Done == status # "parsing" /\ UNCHANGED vars

Next == SkipSeparator \/ ParseStatement \/ Finish \/ Done
Spec == Init /\ [][Next]_vars

-----------------------------------------------------------------------------
RECURSIVE WordsOf(_)
WordsOf(t) == t.words \o FlattenSeq([j \in DOMAIN t.kids |-> WordsOf(t.kids[j])])
Meaningful(words) == [w \in Names \union Numbers \union {Text} |-> Cardinality({j \in DOMAIN words : words[j] = w})]
SaidIn(s) == Meaningful([j \in DOMAIN s |-> IF HasText(s[j]) THEN Text ELSE s[j]])

(* The state is well formed: the loop stops only at the end of the source, *)
(* and a refused program leaves no statement.                              *)
TypeOK == /\ pos \in 1..(Len(source) + 1)
          /\ live \in Nat
          /\ status \in {"parsing", "accepted", "refused"}
          /\ status = "accepted" => Skip(source, pos) > Len(source)
          /\ status = "refused" => list = EmptyList

(* A program that is written out is accepted and read back as it was       *)
(* meant: precedence, associativity, chains of else, the extent of every   *)
(* expression, lines of comment between the statements                     *)
(* (ast_expr_parser.c, ast_stmt_parser.c).                                 *)
RoundTrip == /\ meant # NoTree => status # "refused"
             /\ (meant # NoTree /\ status = "accepted") => list = meant

(* Nothing of an accepted source without comments is dropped on the way to *)
(* the tree: every name, number and text is in the tree as often as in the *)
(* source.  The code has three exceptions, which are named here: a block   *)
(* with a statement that fails just before its brace (a hole), a bracket   *)
(* whose first colon comes after an element without one, and a constructor *)
(* that replaces another.                                                  *)
Hole(t) == \E u \in Subtrees(t) : u = NoTree
MixedBracket(s) == \E i, j, k \in DOMAIN s :
                      /\ i < j /\ j < k /\ s[i] = "[" /\ s[j] = "," /\ s[k] = ":"
                      /\ \A m \in i..j : s[m] # ":"
Constructors(s) == Cardinality({j \in DOMAIN s : s[j] = "init" /\ At(s, j + 1) = "("})
NothingDropped ==
    (status = "accepted" /\ layout = "none") =>
       \/ Hole(list) \/ MixedBracket(source) \/ Constructors(source) > 1
       \/ Meaningful(WordsOf(list)) = SaidIn(source)

(* The holes of an accepted tree are blocks of if, while and for, which    *)
(* the parser leaves NULL without an error; no expression is one, so that  *)
(* the passes after the parser meet none.                                  *)
HolesAreBlocks ==
    status = "accepted" =>
       \A t \in Subtrees(list) : \A j \in DOMAIN t.kids :
          t.kids[j] = NoTree => (t.kind \in {"if", "while", "for"} /\ j > 1)

(* Every node has one owner.  While a program is parsed its nodes are      *)
(* those of the list, and those of constructors that were replaced; a      *)
(* refused program keeps none, unless it has a struct literal, a class, or *)
(* a parameter list, parts of which are never freed (ast_memory.c).        *)
OwnsItsNodes ==
    /\ status # "refused" =>
          \/ live = Size(list)
          \/ live > Size(list) /\ Constructors(source) > 1
    /\ (status = "refused" /\ live > 0) =>
          \E j \in DOMAIN source :
             source[j] \in {"class", "def", "init"} \/ (source[j] \in Idents /\ At(source, j + 1) = "{")

(* Whatever the source is, the parser comes to an end: a step that does    *)
(* not end it takes at least one token with it (ast.c, the loop, and every *)
(* way out of parse_stmt with a tree).                                     *)
Advances == [][status' # status \/ pos' > pos]_vars
=============================================================================
