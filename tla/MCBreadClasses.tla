--------------------------- MODULE MCBreadClasses ---------------------------
(* Small programs with classes for TLC. *)
EXTENDS BreadClasses

P == <<"P">>
Q == <<"Q">>
R == <<"R">>
PQ == <<"P", "_", "q">>
m == <<"m">>
q == <<"q">>
s == <<"s">>

SetF(f, e)   == [do |-> "set", field |-> f, from |-> e]
BareF(f, e)  == [do |-> "bare", field |-> f, from |-> e]
Super(args)  == [do |-> "super", args |-> args]
SelfM(name)  == [do |-> "call", method |-> name]
SuperM(name) == [do |-> "superCall", method |-> name]

X == Name("x")
New == Given("new")

(* Heads of a line, which set one field and have one method or two of one name. *)
Heads == {Class(P, None, <<"a">>, <<"x">>, <<SetF("a", X)>>, <<Method(m, <<SetF("a", New)>>)>>),
          Class(P, None, <<"a">>, <<"x">>, <<SetF("a", X), SelfM(m)>>, <<Method(m, <<SetF("a", New)>>), Method(m, <<>>)>>),
          Class(P, None, <<"a">>, <<"x">>, <<Super(<<X>>), SetF("a", X)>>, 
                <<Method(m, <<BareF("a", New)>>), Method(s, <<BareF("a", New), SetF("a", Name("a"))>>)>>),
          Class(P, None, <<"a">>, <<"x", "y", "z", "u">>, <<SetF("a", Name("u"))>>, <<Method(<<"q", "_", "m">>, <<SelfM(q)>>)>>),
          Class(P, Q, <<"a">>, <<"x">>, <<SetF("a", X)>>, <<>>)}
(* Their children, with a field of their own. *)
Bodies == {<<Super(<<X>>), SetF("b", Name("a"))>>, <<BareF("b", New), SetF("b", X)>>, <<Super(<<X, New, New, X>>)>>}
Methods == {<<Method(m, <<SetF("b", New), SuperM(m)>>), Method(s, <<SetF("c", Name("c"))>>)>>,
            <<Method(q, <<SetF("a", Name("b"))>>), Method(s, <<SelfM(m)>>)>>}
Children == {Class(Q, P, <<"b">>, <<"x">>, b, ms) : b \in Bodies, ms \in Methods}
              \union {Class(Q, R, <<"b">>, <<"x">>, <<Super(<<X, New>>)>>, <<Method(m, <<>>)>>)}
Grandchildren == {Class(R, Q, <<"c", "a">>, <<"x", "y">>, <<Super(<<Name("y")>>), SetF("c", X)>>, ms) :
                    ms \in {<<>>, <<Method(m, <<SetF("c", Name("b"))>>), Method(q, <<SelfM(m)>>)>>}}
(* What takes the names of generated functions. *)
Others == {Function(<<"P", "_", "m">>), Function(<<"Q", "_", "init">>),
           Class(PQ, None, <<"d">>, <<"x">>, <<SetF("d", X)>>, <<Method(m, <<SetF("d", New)>>)>>)}

MCPrograms == LET three == {<<h, c, g>> : h \in Heads, c \in Children, g \in Grandchildren}
              IN  three \union {<<p[3], p[1], p[2]>> : p \in {p \in three : Len(p[3].methods) = 1}}
                    \union {<<p[2], p[3]>> : p \in three}
                    \union {<<o, p[1], p[2]>> : o \in Others, p \in three}
                    \union {<<h, o, h>> : h \in Heads, o \in Others}
MCCalls     == {m, s}
MCVariables == {<<"x">>, <<"my", "P">>}
MCArguments == <<"1", "2", "3", "4">>
=============================================================================
