------------------------- MODULE MCBreadEvaluation -------------------------
(* Short pieces of code for TLC. *)
EXTENDS BreadEvaluation

Integer == Primitive("Int")
Double  == Primitive("Double")
Bool    == Primitive("Bool")
String  == Primitive("String")

MCMeaning == ("0" :> IntV(0)) @@ ("0.0" :> DoubleV(0, 1)) @@ ("2" :> IntV(2)) @@ ("2.5" :> DoubleV(5, 2))
MCStructs == ("P" :> ("a" :> Integer @@ "f" :> ArrayOf(Integer)))
MCFunctions1 == ("f" :> [type |-> Integer, value |-> IntV(7)])

(* A tree from those of its parts. *)
Tree(kind, words, parts) ==
    LET end[j \in 0..Len(parts)] == IF j = 0 THEN 0 ELSE end[j - 1] + Len(parts[j])
        moved(j) == [k \in DOMAIN parts[j] |->
                        [parts[j][k] EXCEPT !.kids = [i \in DOMAIN @ |-> @[i] + end[j - 1]]]]
    IN  Append(FlattenSeq([j \in DOMAIN parts |-> moved(j)]), Node(kind, words, [j \in DOMAIN parts |-> end[j]]))

V      == Tree("var", <<"a">>, <<>>)
L(w)   == Tree("literal", <<w>>, <<>>)
S      == Tree("string", <<"s">>, <<>>)
Arr(k) == Tree("array", <<>>, k)
Dic(k) == Tree("dict", <<>>, k)
Bin(l, op, r) == Tree("binary", <<op>>, <<l, r>>)
Nil    == L("nil")

Seeds == {Declaration("a", x[1], x[2]) : x \in
            {<<Integer, L("0")>>, <<Integer, L("2")>>, <<Double, L("2.5")>>, <<Double, L("0.0")>>, <<Bool, L("true")>>, <<String, S>>,
             <<Integer, Tree("call", <<"f">>, <<S>>)>>, <<OptionalOf(Integer), L("2")>>, <<OptionalOf(String), Nil>>,
             <<ArrayOf(Integer), Arr(<<L("2"), L("0")>>)>>, <<ArrayOf(Integer), Arr(<<Nil>>)>>, <<ArrayOf(Double), Arr(<<>>)>>,
             <<DictOf(String, Integer), Dic(<<S, L("2")>>)>>, <<DictOf(Integer, String), Dic(<<>>)>>,
             <<StructOf(<<"P">>, <<>>), Tree("struct_literal", <<"P", "a">>, <<L("2")>>)>>,
             <<StructOf(<<"P">>, <<>>), Tree("struct_literal", <<"P", "a">>, <<S>>)>>}}

Atoms  == {V, L("0"), L("2"), L("2.5"), L("true"), Nil, S}
Ops    == {"+", "-", "*", "/", "%", "==", "<", ">=", "!=", "&&", "||"}
Simple == {Bin(V, op, r) : op \in Ops, r \in Atoms} \union {Bin(l, op, V) : op \in Ops, l \in Atoms}
            \union UNION {{Tree("unary", <<"-">>, <<e>>), Tree("unary", <<"!">>, <<e>>), Arr(<<e>>),
                           Arr(<<V, e>>), Dic(<<e, V>>), Dic(<<S, e, S, V>>),
                           Tree("struct_literal", <<"P", "a">>, <<e>>), Tree("call", <<"f">>, <<e>>),
                           Tree("call", <<"str">>, <<e>>), Tree("index", <<>>, <<V, e>>),
                           Tree("index", <<>>, <<e, L("0")>>)} : e \in Atoms}
            \union {Tree("member", <<op, w>>, <<V>>) : op \in {".", "?."}, w \in {"length", "a", "f"}}
            \union {Tree("method_call", <<op, "toString">>, <<V>>) : op \in {".", "?."}}
            \union {Arr(<<>>), Dic(<<>>)}
Few    == {Bin(V, op, L("2")) : op \in {"+", "%", "<"}} \union {Bin(L("2.5"), op, V) : op \in {"/", "%", "=="}}
            \union {Tree("unary", <<op>>, <<V>>) : op \in {"-", "!"}} \union {Arr(<<V>>), Dic(<<S, V>>), Dic(<<V, L("2")>>)}
            \union {Tree("call", <<"f">>, <<V>>), Tree("index", <<>>, <<V, L("0")>>), Tree("index", <<>>, <<V, S>>),
                    Tree("member", <<"?.", "length">>, <<V>>), Tree("member", <<".", "f">>, <<V>>), L("2")}
Deeper == UNION {{Bin(e, op, V) : op \in {"+", "*", "==", "%", "&&"}}
                   \union {Bin(L("2"), "-", e), Bin(V, "/", e), Bin(L("2.5"), "<", e), Tree("unary", <<"-">>, <<e>>),
                           Tree("unary", <<"!">>, <<e>>), Arr(<<e, e>>), Tree("index", <<>>, <<e, L("0")>>),
                           Tree("index", <<>>, <<V, e>>), Tree("member", <<"?.", "length">>, <<e>>)} : e \in Few}

(* Declared with the type that the expression has, with that and a question mark, and as Int. *)
Given(s)     == (s.name :> s.type)
Wanted(s, e) == LET t == TypeOf(e, Given(s))
                IN  IF t = None THEN {Integer} ELSE {t, OptionalOf(t), Integer}

MCCodes == UNION {{<<s, Declaration("b", w, e)>> : w \in Wanted(s, e)} : s \in Seeds, e \in Simple \union Deeper}
             \union {<<s, Declaration("b", w, V)>> : s \in Seeds, w \in {ArrayOf(OptionalOf(Integer)), None}}
             \union {<<s, Setting(op, "a", e), Declaration("b", w, V)>> :
                        s \in Seeds, op \in {"=", "+", "%"}, w \in {Integer, Double, Bool}, e \in Atoms \union
                           {Bin(V, o, V) : o \in {"+", "=="}} \union {Tree("unary", <<"-">>, <<V>>)}}
=============================================================================
