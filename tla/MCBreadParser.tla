--------------------------- MODULE MCBreadParser ---------------------------
(* Small programs and sequences of tokens for TLC. *)
EXTENDS BreadParser

V == Node("var", <<"a">>, <<>>)
N == Node("literal", <<"1">>, <<>>)
S == Node("string", <<Text>>, <<>>)
Binary(l, op, r) == Node("binary", <<op>>, <<l, r>>)

Simple == {Binary(V, op, N) : op \in {"||", "&&", "==", "<", "+", "-", "*", "%"}}
            \union {Node("unary", <<"-">>, <<V>>), Node("array", <<>>, <<N, V>>), Node("dict", <<>>, <<S, N>>),
                    Node("dict", <<>>, <<>>), Node("struct_literal", <<"P", "a">>, <<N>>),
                    Node("call", <<"f">>, <<V, N>>), Node("method_call", <<".", "f">>, <<V>>),
                    Node("index", <<>>, <<V, N>>), Node("member", <<"?.", "f">>, <<V>>), N}
Deeper == {Binary(l, op, r) : l \in Simple, r \in Simple, op \in {"||", "&&", "==", "+", "-", "*"}}
            \union UNION {{Node("unary", <<"!">>, <<e>>), Node("array", <<>>, <<e>>), Node("dict", <<>>, <<e, V>>),
                           Node("struct_literal", <<"P", "a", "f">>, <<N, e>>), Node("call", <<"f">>, <<e>>),
                           Node("method_call", <<"?.", "f">>, <<V, e>>), Node("method_call", <<".", "f">>, <<e>>),
                           Node("index", <<>>, <<e, V>>), Node("index", <<>>, <<V, e>>),
                           Node("member", <<".", "f">>, <<e>>)} : e \in Simple}

Block1(t) == Node("list", <<>>, <<t>>)
Let(e)    == Node("let", <<"a">>, <<e>>)
Plain     == {Let(N), Node("print", <<"print">>, <<Binary(V, "<", N)>>), Node("break", <<"break">>, <<>>),
              Node("return", <<"return">>, <<V>>), Node("assign", <<"+=", "a">>, <<N>>),
              Node("assign_index", <<"=">>, <<V, N, S>>),
              Node("assign_member", <<"*=", ".", "f">>, <<Node("member", <<".", "f">>, <<V>>), N>>),
              Node("expr", <<>>, <<Node("call", <<"f">>, <<V>>)>>),
              Node("const", <<"a", "[", "Int", ":", "P", "]", "?">>, <<V>>)}
Conditions == {V, Binary(V, "==", N), Node("struct_literal", <<"P", "a">>, <<N>>)}
Compounds(bodies) ==
    {Node("if", <<"if">>, <<c, b, Absent>>) : c \in Conditions, b \in bodies}
      \union {Node("if", <<"if">>, <<V, Block1(Let(N)), d>>) : d \in bodies}
      \union {Node("while", <<"while">>, <<c, b>>) : c \in Conditions, b \in bodies}
      \union {Node("for", <<"a">>, <<V, b>>) : b \in bodies}
Ones    == {Block1(t) : t \in Plain} \union {EmptyList}
Nested  == Compounds(Ones)
Twice   == Compounds({Block1(t) : t \in {u \in Nested : u.kids[1] = V}})
Param(e) == Node("param", <<"a", "Int">>, e)
Fields1 == Node("field", <<"a", "[", "P", "]">>, <<>>)
MethodNode(name, b) == Node("method", <<name, "Nil">>, <<Param(<<>>), b>>)
Tops == {Node("def", <<"f", "Int", "?">>, <<Param(<<>>), Param(<<e>>), b>>) : e \in {N, Binary(V, "+", N)}, b \in Ones}
          \union {Node("class", w, <<Fields1, MethodNode("f", b), MethodNode("init", EmptyList)>>) :
                     w \in {<<"P">>, <<"P", "a">>}, b \in Ones}
          \union {Node("struct", <<"P">>, <<Fields1, Node("field", <<"f", "Int", "?">>, <<>>)>>),
                  Node("import", <<Text>>, <<>>), Node("import", <<Text, "as", "f">>, <<>>),
                  Node("import", <<"a", "as", "f", "P", Text>>, <<>>),
                  Node("export", <<"a", "P", "as", "f">>, <<>>), Node("export", <<"default", "a">>, <<>>)}

MCPrograms == {<<Let(e)>> : e \in Deeper} \union {<<t>> : t \in Nested \union Twice \union Tops}
                \union {<<t, u>> : t \in Plain, u \in Plain \union Nested}

Words(set, n) == UNION {[1..k -> set] : k \in 0..n}
MCTexts ==
    {<<"let", "a", "=">> \o w : w \in Words({"a", "1", "[", "]", "(", ",", ":", "-"}, 3)}
      \union {<<"let", "a", "=", "[">> \o w \o <<"1", "]">> : w \in Words({"1", ",", ":", "["}, 4)}
      \union {<<"let", "a", "=">> \o w : w \in Words({"a", "{", "}", ".", ":", Text, "\"\\(", ")s\""}, 3)}
      \union {<<"if", "a", "{">> \o w : w \in Words({"let", "a", "=", ";", "}", "else", "{"}, 3)}
      \union {<<"if", "a", "{", "a">> \o w : w \in Words({"let", "a", "NL", "==", "}", "if"}, 4)}
      \union {<<"class", "P", "{", "init", "(", ")", "{", "}">> \o w \o <<"}">> :
                 w \in Words({"a", ":", "}", "init", "(", ")", "{"}, 2)}
      \union {<<"a", "=", "1">> \o w : w \in Words({";", "a", "=", "NL"}, 4)}
      \union {<<"print", "(">> \o w : w \in Words({"a", "1", ")", ";", "+", "}"}, 4)}
      \union {<<"class", "P", "{", "init", "(", ")", "{">> \o b \o <<"}", d, "init", "(", ")", "{", "a", "}", "}">> :
                 b \in {<<>>, <<"a">>}, d \in {"def", "NL"}}
      \union {<<"def", "f", "(", "a", ":", "Int", "=", "a">> \o w : w \in Words({",", "a", ":", ")", "{", "}"}, 4)}
=============================================================================
