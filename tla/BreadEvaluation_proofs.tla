------------------------ MODULE BreadEvaluation_proofs ------------------------
(***************************************************************************)
(* Proofs about BreadEvaluation, for any pieces of code, whatever their    *)
(* expressions and types, in the program and in functions.  What a node of *)
(* an expression is, its type, its slot and its value, depends on what its *)
(* parts are, which come before it: the proofs are inductions over nodes.  *)
(***************************************************************************)
EXTENDS BreadEvaluation, SequenceTheorems, WellFoundedInduction, TLAPS

-----------------------------------------------------------------------------
(* Least members and induction.                                            *)

LEMMA LeastIs ==
  ASSUME NEW S \in SUBSET Nat, S # {}
  PROVE  \E m \in S : \A x \in S : m <= x
<1>. DEFINE Less == {p \in Nat \X Nat : p[1] < p[2]}
<1>1. IsWellFoundedOn(Less, Nat)
  BY NatLessThanWellFounded DEF OpToRel
<1>2. PICK m \in S : \A x \in S : ~ (<<x, m>> \in Less)
  <2>. HIDE DEF Less
  <2> QED
    BY <1>1, WFMin
<1>3. ASSUME NEW x \in S
      PROVE  m <= x
  <2>1. x \in Nat /\ m \in Nat /\ ~ (<<x, m>> \in Less)
    BY <1>2
  <2>2. ~ (x < m)
    BY <2>1
  <2> QED
    BY <2>1, <2>2
<1> QED
  BY <1>3

\* What holds of a number when it holds of all before it, holds of all.
LEMMA Climb ==
  ASSUME NEW n \in Nat, NEW A, \A m \in 1 .. n : 1 .. (m - 1) \subseteq A => m \in A
  PROVE  1 .. n \subseteq A
<1>. DEFINE Bad == {m \in 1 .. n : m \notin A}
<1>1. ASSUME Bad # {}
      PROVE  FALSE
  <2>1. Bad \in SUBSET Nat
    OBVIOUS
  <2>2. PICK b \in Bad : \A x \in Bad : b <= x
    <3>. HIDE DEF Bad
    <3> QED
      BY <1>1, <2>1, LeastIs
  <2>3. b \in 1 .. n /\ b \notin A
    BY <2>2
  <2>4. ASSUME NEW x \in 1 .. (b - 1)
        PROVE  x \in A
    <3>1. x \in 1 .. n /\ ~ (b <= x)
      BY <2>3
    <3> QED
      BY <2>2, <3>1
  <2> QED
    BY <2>3, <2>4
<1> QED
  BY <1>1

\* Step by step from nought.
LEMMA UpTo ==
  ASSUME NEW n \in Nat, NEW A, 0 \in A, \A m \in 1 .. n : m - 1 \in A => m \in A
  PROVE  0 .. n \subseteq A
<1>1. \A m \in 1 .. n : 1 .. (m - 1) \subseteq A => m \in A
  <2>1. TAKE m \in 1 .. n
  <2>2. HAVE 1 .. (m - 1) \subseteq A
  <2>3. m = 1 \/ m - 1 \in 1 .. (m - 1)
    OBVIOUS
  <2> QED
    BY <2>1, <2>2, <2>3
<1>2. 1 .. n \subseteq A
  BY <1>1, Climb
<1>3. 0 .. n = {0} \cup 1 .. n
  OBVIOUS
<1> QED
  BY <1>2, <1>3

-----------------------------------------------------------------------------
(* Sequences and trees.                                                    *)

LEMMA SequenceIs ==
  ASSUME NEW s, IsSequence(s)
  PROVE  /\ Len(s) \in Nat /\ DOMAIN s = 1 .. Len(s) /\ s = [i \in 1 .. Len(s) |-> s[i]]
         /\ s # <<>> <=> Len(s) # 0
BY DEF IsSequence

LEMMA TreeIs ==
  ASSUME NEW tree, IsTree(tree)
  PROVE  /\ Len(tree) \in Nat \ {0} /\ DOMAIN tree = 1 .. Len(tree)
         /\ \A k \in DOMAIN tree :
               /\ Len(tree[k].kids) \in Nat
               /\ DOMAIN tree[k].kids = 1 .. Len(tree[k].kids)
               /\ \A j \in DOMAIN tree[k].kids : tree[k].kids[j] \in 1 .. (k - 1) /\ tree[k].kids[j] \in DOMAIN tree
<1>1. Len(tree) \in Nat \ {0} /\ DOMAIN tree = 1 .. Len(tree)
  BY SequenceIs DEF IsTree
<1>2. ASSUME NEW k \in DOMAIN tree
      PROVE  /\ Len(tree[k].kids) \in Nat
             /\ DOMAIN tree[k].kids = 1 .. Len(tree[k].kids)
             /\ \A j \in DOMAIN tree[k].kids : tree[k].kids[j] \in 1 .. (k - 1) /\ tree[k].kids[j] \in DOMAIN tree
  <2>1. tree[k].kids \in Seq(1 .. (k - 1)) /\ k \in 1 .. Len(tree)
    BY <1>1 DEF IsTree
  <2>2. 1 .. (k - 1) \subseteq DOMAIN tree
    BY <1>1
  <2> QED
    BY <2>1, <2>2
<1> QED
  BY <1>1, <1>2

LEMMA PartsAgree ==
  ASSUME NEW tree, IsTree(tree), NEW k \in DOMAIN tree, NEW f, NEW g, \A m \in 1 .. (k - 1) : f[m] = g[m]
  PROVE  OfParts(tree[k], f) = OfParts(tree[k], g)
<1>1. \A j \in DOMAIN tree[k].kids : f[tree[k].kids[j]] = g[tree[k].kids[j]]
  BY TreeIs
<1> QED
  BY <1>1 DEF OfParts

LEMMA PartsAre ==
  ASSUME NEW tree, IsTree(tree), NEW k \in DOMAIN tree, NEW f
  PROVE  /\ DOMAIN OfParts(tree[k], f) = DOMAIN tree[k].kids
         /\ Len(OfParts(tree[k], f)) = Len(tree[k].kids)
         /\ \A j \in DOMAIN tree[k].kids : OfParts(tree[k], f)[j] = f[tree[k].kids[j]]
         /\ IsSequence(OfParts(tree[k], f))
<1>1. Len(tree[k].kids) \in Nat /\ DOMAIN tree[k].kids = 1 .. Len(tree[k].kids)
  BY TreeIs
<1>2. OfParts(tree[k], f) \in Seq(Range(OfParts(tree[k], f)))
  BY <1>1 DEF OfParts, Range
<1> QED
  BY <1>1, <1>2 DEF OfParts, IsSequence

LEMMA PlacesAre ==
  ASSUME NEW tree, IsTree(tree), NEW k \in DOMAIN tree
  PROVE  /\ tree[k].kind \in {"binary", "index"} => DOMAIN tree[k].kids = {1, 2}
         /\ tree[k].kind \in {"unary", "member"} => DOMAIN tree[k].kids = {1}
         /\ tree[k].kind = "method_call" => 1 \in DOMAIN tree[k].kids
<1>. DEFINE n == Len(tree[k].kids)
<1>1. n \in Nat /\ DOMAIN tree[k].kids = 1 .. n /\ n \in Arity(tree[k])
  BY TreeIs DEF IsTree
<1>2. ASSUME tree[k].kind = "method_call"
      PROVE  n # 0
  <2>1. tree[k].kids # <<>> /\ tree[k].kids \in Seq(1 .. (k - 1))
    BY <1>2 DEF IsTree
  <2> QED
    BY <2>1
<1>. HIDE DEF n
<1>3. tree[k].kind \in {"binary", "index"} => n = 2
  BY <1>1 DEF Arity
<1>4. tree[k].kind \in {"unary", "member"} => n = 1
  BY <1>1 DEF Arity
<1>5. 1 .. 2 = {1, 2} /\ 1 .. 1 = {1}
  OBVIOUS
<1> QED
  BY <1>1, <1>2, <1>3, <1>4, <1>5

\* The type of a node comes from those of its parts.
LEMMA TypesOfIs ==
  ASSUME NEW tree, IsTree(tree), NEW vtypes
  PROVE  /\ DOMAIN TypesOf(tree, vtypes) = DOMAIN tree
         /\ TypesOf(tree, vtypes) = [k \in DOMAIN tree |-> TypesOf(tree, vtypes)[k]]
         /\ \A k \in DOMAIN tree : TypesOf(tree, vtypes)[k] = NodeType(tree[k], OfParts(tree[k], TypesOf(tree, vtypes)), vtypes)
<1>. DEFINE G(k, parts) == NodeType(tree[k], parts, vtypes)
            n == Len(tree)
            Sat(f) == f = [k \in DOMAIN tree |-> G(k, OfParts(tree[k], f))]
            Upto(f, m) == DOMAIN f = 1 .. m /\ \A k \in 1 .. m : f[k] = G(k, OfParts(tree[k], f))
            A == {m \in 0 .. n : \E f : Upto(f, m)}
            h == CHOOSE f : Sat(f)
<1>1. n \in Nat /\ DOMAIN tree = 1 .. n
  BY TreeIs
<1>2. TypesOf(tree, vtypes) = h
  BY DEF TypesOf
<1>. HIDE DEF G
<1>3. 0 \in A
  <2>. DEFINE f == [k \in {} |-> 0]
  <2>1. DOMAIN f = 1 .. 0 /\ \A k \in 1 .. 0 : f[k] = G(k, OfParts(tree[k], f))
    OBVIOUS
  <2>2. 0 \in 0 .. n
    BY <1>1
  <2>. HIDE DEF f
  <2> QED
    BY <2>1, <2>2
<1>4. ASSUME NEW m \in 1 .. n, m - 1 \in A
      PROVE  m \in A
  <2>1. PICK f : Upto(f, m - 1)
    BY <1>4
  <2>. DEFINE g == [k \in 1 .. m |-> IF k = m THEN G(m, OfParts(tree[m], f)) ELSE f[k]]
  <2>2. \A k \in 1 .. (m - 1) : g[k] = f[k]
    BY <1>1
  <2>3. g[m] = G(m, OfParts(tree[m], f)) /\ DOMAIN g = 1 .. m
    BY <1>1
  <2>. HIDE DEF g
  <2>4. ASSUME NEW k \in 1 .. m
        PROVE  g[k] = G(k, OfParts(tree[k], g))
    <3>1. k \in DOMAIN tree /\ \A i \in 1 .. (k - 1) : f[i] = g[i]
      BY <1>1, <2>2
    <3>2. OfParts(tree[k], f) = OfParts(tree[k], g)
      BY <3>1, PartsAgree
    <3>3. CASE k = m
      BY <2>3, <3>2, <3>3
    <3>4. CASE k # m
      <4>1. k \in 1 .. (m - 1)
        BY <1>1, <3>4
      <4> QED
        BY <2>1, <2>2, <3>2, <4>1
    <3> QED
      BY <3>3, <3>4
  <2>5. Upto(g, m)
    BY <2>3, <2>4
  <2>6. m \in 0 .. n
    BY <1>1
  <2>. HIDE DEF Upto
  <2> QED
    BY <2>5, <2>6
<1>5. n \in A
  <2>. HIDE DEF A
  <2>1. 0 .. n \subseteq A
    BY <1>1, <1>3, <1>4, UpTo
  <2>2. n \in 0 .. n
    BY <1>1
  <2> QED
    BY <2>1, <2>2
<1>6. \E f : Sat(f)
  <2>1. PICK f : Upto(f, n)
    BY <1>5
  <2>. DEFINE e == [k \in DOMAIN tree |-> f[k]]
  <2>2. \A k \in DOMAIN tree : e[k] = f[k]
    OBVIOUS
  <2>3. ASSUME NEW k \in DOMAIN tree
        PROVE  e[k] = G(k, OfParts(tree[k], e))
    <3>1. \A i \in 1 .. (k - 1) : f[i] = e[i]
      BY <1>1
    <3>. HIDE DEF e
    <3>2. OfParts(tree[k], f) = OfParts(tree[k], e)
      BY <3>1, PartsAgree
    <3> QED
      BY <1>1, <2>1, <2>2, <3>2
  <2>4. e = [k \in DOMAIN tree |-> e[k]]
    OBVIOUS
  <2>. HIDE DEF e
  <2>5. Sat(e)
    BY <2>3, <2>4
  <2>. HIDE DEF Sat
  <2> QED
    BY <2>5
<1>7. Sat(h)
  <2>. HIDE DEF Sat
  <2> QED
    BY <1>6
<1>. HIDE DEF h
<1>8. DOMAIN h = DOMAIN tree /\ h = [k \in DOMAIN tree |-> h[k]] /\ \A k \in DOMAIN tree : h[k] = G(k, OfParts(tree[k], h))
  BY <1>7
<1> QED
  BY <1>2, <1>8 DEF G

\* So does whether it needs a box,
LEMMA CanUnboxIs ==
  ASSUME NEW tree, IsTree(tree)
  PROVE  /\ DOMAIN CanUnbox(tree) = DOMAIN tree
         /\ CanUnbox(tree) = [k \in DOMAIN tree |-> CanUnbox(tree)[k]]
         /\ \A k \in DOMAIN tree : CanUnbox(tree)[k] = Unboxable(tree[k], OfParts(tree[k], CanUnbox(tree)))
<1>. DEFINE G(k, parts) == Unboxable(tree[k], parts)
            n == Len(tree)
            Sat(f) == f = [k \in DOMAIN tree |-> G(k, OfParts(tree[k], f))]
            Upto(f, m) == DOMAIN f = 1 .. m /\ \A k \in 1 .. m : f[k] = G(k, OfParts(tree[k], f))
            A == {m \in 0 .. n : \E f : Upto(f, m)}
            h == CHOOSE f : Sat(f)
<1>1. n \in Nat /\ DOMAIN tree = 1 .. n
  BY TreeIs
<1>2. CanUnbox(tree) = h
  BY DEF CanUnbox
<1>. HIDE DEF G
<1>3. 0 \in A
  <2>. DEFINE f == [k \in {} |-> 0]
  <2>1. DOMAIN f = 1 .. 0 /\ \A k \in 1 .. 0 : f[k] = G(k, OfParts(tree[k], f))
    OBVIOUS
  <2>2. 0 \in 0 .. n
    BY <1>1
  <2>. HIDE DEF f
  <2> QED
    BY <2>1, <2>2
<1>4. ASSUME NEW m \in 1 .. n, m - 1 \in A
      PROVE  m \in A
  <2>1. PICK f : Upto(f, m - 1)
    BY <1>4
  <2>. DEFINE g == [k \in 1 .. m |-> IF k = m THEN G(m, OfParts(tree[m], f)) ELSE f[k]]
  <2>2. \A k \in 1 .. (m - 1) : g[k] = f[k]
    BY <1>1
  <2>3. g[m] = G(m, OfParts(tree[m], f)) /\ DOMAIN g = 1 .. m
    BY <1>1
  <2>. HIDE DEF g
  <2>4. ASSUME NEW k \in 1 .. m
        PROVE  g[k] = G(k, OfParts(tree[k], g))
    <3>1. k \in DOMAIN tree /\ \A i \in 1 .. (k - 1) : f[i] = g[i]
      BY <1>1, <2>2
    <3>2. OfParts(tree[k], f) = OfParts(tree[k], g)
      BY <3>1, PartsAgree
    <3>3. CASE k = m
      BY <2>3, <3>2, <3>3
    <3>4. CASE k # m
      <4>1. k \in 1 .. (m - 1)
        BY <1>1, <3>4
      <4> QED
        BY <2>1, <2>2, <3>2, <4>1
    <3> QED
      BY <3>3, <3>4
  <2>5. Upto(g, m)
    BY <2>3, <2>4
  <2>6. m \in 0 .. n
    BY <1>1
  <2>. HIDE DEF Upto
  <2> QED
    BY <2>5, <2>6
<1>5. n \in A
  <2>. HIDE DEF A
  <2>1. 0 .. n \subseteq A
    BY <1>1, <1>3, <1>4, UpTo
  <2>2. n \in 0 .. n
    BY <1>1
  <2> QED
    BY <2>1, <2>2
<1>6. \E f : Sat(f)
  <2>1. PICK f : Upto(f, n)
    BY <1>5
  <2>. DEFINE e == [k \in DOMAIN tree |-> f[k]]
  <2>2. \A k \in DOMAIN tree : e[k] = f[k]
    OBVIOUS
  <2>3. ASSUME NEW k \in DOMAIN tree
        PROVE  e[k] = G(k, OfParts(tree[k], e))
    <3>1. \A i \in 1 .. (k - 1) : f[i] = e[i]
      BY <1>1
    <3>. HIDE DEF e
    <3>2. OfParts(tree[k], f) = OfParts(tree[k], e)
      BY <3>1, PartsAgree
    <3> QED
      BY <1>1, <2>1, <2>2, <3>2
  <2>4. e = [k \in DOMAIN tree |-> e[k]]
    OBVIOUS
  <2>. HIDE DEF e
  <2>5. Sat(e)
    BY <2>3, <2>4
  <2>. HIDE DEF Sat
  <2> QED
    BY <2>5
<1>7. Sat(h)
  <2>. HIDE DEF Sat
  <2> QED
    BY <1>6
<1>. HIDE DEF h
<1>8. DOMAIN h = DOMAIN tree /\ h = [k \in DOMAIN tree |-> h[k]] /\ \A k \in DOMAIN tree : h[k] = G(k, OfParts(tree[k], h))
  BY <1>7
<1> QED
  BY <1>2, <1>8 DEF G

\* and its slot.
LEMMA UnboxedIs ==
  ASSUME NEW tree, IsTree(tree), NEW held
  PROVE  /\ DOMAIN Unboxed(tree, held) = DOMAIN tree
         /\ Unboxed(tree, held) = [k \in DOMAIN tree |-> Unboxed(tree, held)[k]]
         /\ \A k \in DOMAIN tree : Unboxed(tree, held)[k] = InSlot(tree[k], CanUnbox(tree)[k], OfParts(tree[k], Unboxed(tree, held)), held)
<1>. DEFINE G(k, parts) == InSlot(tree[k], CanUnbox(tree)[k], parts, held)
            n == Len(tree)
            Sat(f) == f = [k \in DOMAIN tree |-> G(k, OfParts(tree[k], f))]
            Upto(f, m) == DOMAIN f = 1 .. m /\ \A k \in 1 .. m : f[k] = G(k, OfParts(tree[k], f))
            A == {m \in 0 .. n : \E f : Upto(f, m)}
            h == CHOOSE f : Sat(f)
<1>1. n \in Nat /\ DOMAIN tree = 1 .. n
  BY TreeIs
<1>2. Unboxed(tree, held) = h
  BY DEF Unboxed
<1>. HIDE DEF G
<1>3. 0 \in A
  <2>. DEFINE f == [k \in {} |-> 0]
  <2>1. DOMAIN f = 1 .. 0 /\ \A k \in 1 .. 0 : f[k] = G(k, OfParts(tree[k], f))
    OBVIOUS
  <2>2. 0 \in 0 .. n
    BY <1>1
  <2>. HIDE DEF f
  <2> QED
    BY <2>1, <2>2
<1>4. ASSUME NEW m \in 1 .. n, m - 1 \in A
      PROVE  m \in A
  <2>1. PICK f : Upto(f, m - 1)
    BY <1>4
  <2>. DEFINE g == [k \in 1 .. m |-> IF k = m THEN G(m, OfParts(tree[m], f)) ELSE f[k]]
  <2>2. \A k \in 1 .. (m - 1) : g[k] = f[k]
    BY <1>1
  <2>3. g[m] = G(m, OfParts(tree[m], f)) /\ DOMAIN g = 1 .. m
    BY <1>1
  <2>. HIDE DEF g
  <2>4. ASSUME NEW k \in 1 .. m
        PROVE  g[k] = G(k, OfParts(tree[k], g))
    <3>1. k \in DOMAIN tree /\ \A i \in 1 .. (k - 1) : f[i] = g[i]
      BY <1>1, <2>2
    <3>2. OfParts(tree[k], f) = OfParts(tree[k], g)
      BY <3>1, PartsAgree
    <3>3. CASE k = m
      BY <2>3, <3>2, <3>3
    <3>4. CASE k # m
      <4>1. k \in 1 .. (m - 1)
        BY <1>1, <3>4
      <4> QED
        BY <2>1, <2>2, <3>2, <4>1
    <3> QED
      BY <3>3, <3>4
  <2>5. Upto(g, m)
    BY <2>3, <2>4
  <2>6. m \in 0 .. n
    BY <1>1
  <2>. HIDE DEF Upto
  <2> QED
    BY <2>5, <2>6
<1>5. n \in A
  <2>. HIDE DEF A
  <2>1. 0 .. n \subseteq A
    BY <1>1, <1>3, <1>4, UpTo
  <2>2. n \in 0 .. n
    BY <1>1
  <2> QED
    BY <2>1, <2>2
<1>6. \E f : Sat(f)
  <2>1. PICK f : Upto(f, n)
    BY <1>5
  <2>. DEFINE e == [k \in DOMAIN tree |-> f[k]]
  <2>2. \A k \in DOMAIN tree : e[k] = f[k]
    OBVIOUS
  <2>3. ASSUME NEW k \in DOMAIN tree
        PROVE  e[k] = G(k, OfParts(tree[k], e))
    <3>1. \A i \in 1 .. (k - 1) : f[i] = e[i]
      BY <1>1
    <3>. HIDE DEF e
    <3>2. OfParts(tree[k], f) = OfParts(tree[k], e)
      BY <3>1, PartsAgree
    <3> QED
      BY <1>1, <2>1, <2>2, <3>2
  <2>4. e = [k \in DOMAIN tree |-> e[k]]
    OBVIOUS
  <2>. HIDE DEF e
  <2>5. Sat(e)
    BY <2>3, <2>4
  <2>. HIDE DEF Sat
  <2> QED
    BY <2>5
<1>7. Sat(h)
  <2>. HIDE DEF Sat
  <2> QED
    BY <1>6
<1>. HIDE DEF h
<1>8. DOMAIN h = DOMAIN tree /\ h = [k \in DOMAIN tree |-> h[k]] /\ \A k \in DOMAIN tree : h[k] = G(k, OfParts(tree[k], h))
  BY <1>7
<1> QED
  BY <1>2, <1>8 DEF G

\* The array of a literal is made element by element,
LEMMA ArrayFromIs ==
  ASSUME NEW vs, IsSequence(vs)
  PROVE  \E f : /\ f[0] = Val("Array", 0, 1, <<>>, <<>>)
                /\ \A m \in 1 .. Len(vs) : f[m] = Appended(f[m - 1], vs[m])
                /\ ArrayFrom(vs) = f[Len(vs)]
<1>. DEFINE G(m, last) == Appended(last, vs[m])
            Z == Val("Array", 0, 1, <<>>, <<>>)
            n == Len(vs)
            b == 0
            Sat(f) == f = [m \in b .. n |-> IF m = b THEN Z ELSE G(m, f[m - 1])]
            Upto(f, k) == f[b] = Z /\ \A m \in b + 1 .. k : f[m] = G(m, f[m - 1])
            A == {k \in 0 .. n : k >= b => \E f : Upto(f, k)}
            h == CHOOSE f : Sat(f)
<1>1. n \in Nat /\ b \in {0, 1}
  BY SequenceIs
<1>2. ArrayFrom(vs) = h[n]
  BY DEF ArrayFrom
<1>. HIDE DEF G, Z, n, b
<1>3. 0 \in A
  <2>. DEFINE f == [m \in {b} |-> Z]
  <2>1. b = 0 => f[b] = Z /\ \A m \in b + 1 .. 0 : f[m] = G(m, f[m - 1])
    OBVIOUS
  <2>2. 0 \in 0 .. n /\ (0 >= b => b = 0)
    BY <1>1
  <2>. HIDE DEF f
  <2> QED
    BY <2>1, <2>2
<1>4. ASSUME NEW k \in 1 .. n, k - 1 \in A
      PROVE  k \in A
  <2>1. k \in 0 .. n /\ k >= b
    BY <1>1
  <2>2. CASE k = b
    <3>. DEFINE f == [m \in {b} |-> Z]
    <3>1. f[b] = Z /\ \A m \in b + 1 .. k : f[m] = G(m, f[m - 1])
      BY <1>1, <2>2
    <3>. HIDE DEF f
    <3> QED
      BY <2>1, <3>1
  <2>3. CASE k # b
    <3>1. k - 1 >= b
      BY <1>1, <2>1, <2>3
    <3>2. PICK f : Upto(f, k - 1)
      BY <1>4, <3>1
    <3>. DEFINE g == [m \in 0 .. k |-> IF m = k THEN G(k, f[k - 1]) ELSE f[m]]
    <3>3. \A m \in 0 .. (k - 1) : g[m] = f[m]
      BY <1>1
    <3>4. g[k] = G(k, f[k - 1])
      BY <1>1
    <3>. HIDE DEF g
    <3>5. ASSUME NEW m \in b + 1 .. k
          PROVE  g[m] = G(m, g[m - 1])
      <4>1. m - 1 \in 0 .. (k - 1)
        BY <1>1
      <4>2. g[m - 1] = f[m - 1]
        BY <3>3, <4>1
      <4>3. CASE m = k
        BY <3>4, <4>2, <4>3
      <4>4. CASE m # k
        <5>1. m \in b + 1 .. (k - 1) /\ m \in 0 .. (k - 1)
          BY <1>1, <4>4
        <5> QED
          BY <3>2, <3>3, <4>2, <5>1
      <4> QED
        BY <4>3, <4>4
    <3>6. g[b] = Z
      <4>1. b \in 0 .. (k - 1)
        BY <1>1, <3>1
      <4> QED
        BY <3>2, <3>3, <4>1
    <3>7. Upto(g, k)
      BY <3>5, <3>6
    <3>. HIDE DEF Upto
    <3> QED
      BY <2>1, <3>7
  <2> QED
    BY <2>2, <2>3
<1>5. n \in A
  <2>. HIDE DEF A
  <2>1. 0 .. n \subseteq A
    BY <1>1, <1>3, <1>4, UpTo
  <2>2. n \in 0 .. n
    BY <1>1
  <2> QED
    BY <2>1, <2>2
<1>6. n >= b => \E f : Sat(f)
  <2>1. HAVE n >= b
  <2>2. PICK f : Upto(f, n)
    BY <1>5, <2>1
  <2>. DEFINE e == [m \in b .. n |-> f[m]]
  <2>3. \A m \in b .. n : e[m] = f[m]
    OBVIOUS
  <2>4. ASSUME NEW m \in b .. n
        PROVE  e[m] = IF m = b THEN Z ELSE G(m, e[m - 1])
    <3>. HIDE DEF e
    <3>1. CASE m = b
      BY <2>2, <2>3, <3>1
    <3>2. CASE m # b
      <4>1. m \in b + 1 .. n /\ m - 1 \in b .. n
        BY <1>1, <3>2
      <4>2. e[m - 1] = f[m - 1] /\ e[m] = f[m]
        BY <2>3, <4>1
      <4> QED
        BY <2>2, <3>2, <4>1, <4>2
    <3> QED
      BY <3>1, <3>2
  <2>5. e = [m \in b .. n |-> e[m]]
    OBVIOUS
  <2>. HIDE DEF e
  <2>6. Sat(e)
    BY <2>4, <2>5
  <2>. HIDE DEF Sat
  <2> QED
    BY <2>6
<1>7. n >= b => Sat(h)
  <2>. HIDE DEF Sat
  <2> QED
    BY <1>6
<1>. HIDE DEF h
<1>8. n >= b
  BY <1>1 DEF b
<1>9. h[b] = Z
  <2>1. b \in b .. n
    BY <1>1, <1>8
  <2> QED
    BY <1>7, <1>8, <2>1
<1>10. ASSUME NEW m \in b + 1 .. n
       PROVE  h[m] = G(m, h[m - 1])
  <2>1. m \in b .. n /\ m # b
    BY <1>1
  <2> QED
    BY <1>7, <1>8, <2>1
<1> QED
  BY <1>2, <1>9, <1>10 DEF G, Z, n, b

\* that of a dictionary pair by pair,
LEMMA DictFromIs ==
  ASSUME NEW vs, IsSequence(vs)
  PROVE  \E f : /\ f[0] = Val("Dict", 0, 1, <<>>, <<>>)
                /\ \A m \in 1 .. (Len(vs) \div 2) : f[m] = DictSet(f[m - 1], vs[2 * m - 1], vs[2 * m])
                /\ DictFrom(vs) = f[Len(vs) \div 2]
<1>. DEFINE G(m, last) == DictSet(last, vs[2 * m - 1], vs[2 * m])
            Z == Val("Dict", 0, 1, <<>>, <<>>)
            n == (Len(vs) \div 2)
            b == 0
            Sat(f) == f = [m \in b .. n |-> IF m = b THEN Z ELSE G(m, f[m - 1])]
            Upto(f, k) == f[b] = Z /\ \A m \in b + 1 .. k : f[m] = G(m, f[m - 1])
            A == {k \in 0 .. n : k >= b => \E f : Upto(f, k)}
            h == CHOOSE f : Sat(f)
<1>1. n \in Nat /\ b \in {0, 1}
  BY SequenceIs
<1>2. DictFrom(vs) = h[n]
  BY DEF DictFrom
<1>. HIDE DEF G, Z, n, b
<1>3. 0 \in A
  <2>. DEFINE f == [m \in {b} |-> Z]
  <2>1. b = 0 => f[b] = Z /\ \A m \in b + 1 .. 0 : f[m] = G(m, f[m - 1])
    OBVIOUS
  <2>2. 0 \in 0 .. n /\ (0 >= b => b = 0)
    BY <1>1
  <2>. HIDE DEF f
  <2> QED
    BY <2>1, <2>2
<1>4. ASSUME NEW k \in 1 .. n, k - 1 \in A
      PROVE  k \in A
  <2>1. k \in 0 .. n /\ k >= b
    BY <1>1
  <2>2. CASE k = b
    <3>. DEFINE f == [m \in {b} |-> Z]
    <3>1. f[b] = Z /\ \A m \in b + 1 .. k : f[m] = G(m, f[m - 1])
      BY <1>1, <2>2
    <3>. HIDE DEF f
    <3> QED
      BY <2>1, <3>1
  <2>3. CASE k # b
    <3>1. k - 1 >= b
      BY <1>1, <2>1, <2>3
    <3>2. PICK f : Upto(f, k - 1)
      BY <1>4, <3>1
    <3>. DEFINE g == [m \in 0 .. k |-> IF m = k THEN G(k, f[k - 1]) ELSE f[m]]
    <3>3. \A m \in 0 .. (k - 1) : g[m] = f[m]
      BY <1>1
    <3>4. g[k] = G(k, f[k - 1])
      BY <1>1
    <3>. HIDE DEF g
    <3>5. ASSUME NEW m \in b + 1 .. k
          PROVE  g[m] = G(m, g[m - 1])
      <4>1. m - 1 \in 0 .. (k - 1)
        BY <1>1
      <4>2. g[m - 1] = f[m - 1]
        BY <3>3, <4>1
      <4>3. CASE m = k
        BY <3>4, <4>2, <4>3
      <4>4. CASE m # k
        <5>1. m \in b + 1 .. (k - 1) /\ m \in 0 .. (k - 1)
          BY <1>1, <4>4
        <5> QED
          BY <3>2, <3>3, <4>2, <5>1
      <4> QED
        BY <4>3, <4>4
    <3>6. g[b] = Z
      <4>1. b \in 0 .. (k - 1)
        BY <1>1, <3>1
      <4> QED
        BY <3>2, <3>3, <4>1
    <3>7. Upto(g, k)
      BY <3>5, <3>6
    <3>. HIDE DEF Upto
    <3> QED
      BY <2>1, <3>7
  <2> QED
    BY <2>2, <2>3
<1>5. n \in A
  <2>. HIDE DEF A
  <2>1. 0 .. n \subseteq A
    BY <1>1, <1>3, <1>4, UpTo
  <2>2. n \in 0 .. n
    BY <1>1
  <2> QED
    BY <2>1, <2>2
<1>6. n >= b => \E f : Sat(f)
  <2>1. HAVE n >= b
  <2>2. PICK f : Upto(f, n)
    BY <1>5, <2>1
  <2>. DEFINE e == [m \in b .. n |-> f[m]]
  <2>3. \A m \in b .. n : e[m] = f[m]
    OBVIOUS
  <2>4. ASSUME NEW m \in b .. n
        PROVE  e[m] = IF m = b THEN Z ELSE G(m, e[m - 1])
    <3>. HIDE DEF e
    <3>1. CASE m = b
      BY <2>2, <2>3, <3>1
    <3>2. CASE m # b
      <4>1. m \in b + 1 .. n /\ m - 1 \in b .. n
        BY <1>1, <3>2
      <4>2. e[m - 1] = f[m - 1] /\ e[m] = f[m]
        BY <2>3, <4>1
      <4> QED
        BY <2>2, <3>2, <4>1, <4>2
    <3> QED
      BY <3>1, <3>2
  <2>5. e = [m \in b .. n |-> e[m]]
    OBVIOUS
  <2>. HIDE DEF e
  <2>6. Sat(e)
    BY <2>4, <2>5
  <2>. HIDE DEF Sat
  <2> QED
    BY <2>6
<1>7. n >= b => Sat(h)
  <2>. HIDE DEF Sat
  <2> QED
    BY <1>6
<1>. HIDE DEF h
<1>8. n >= b
  BY <1>1 DEF b
<1>9. h[b] = Z
  <2>1. b \in b .. n
    BY <1>1, <1>8
  <2> QED
    BY <1>7, <1>8, <2>1
<1>10. ASSUME NEW m \in b + 1 .. n
       PROVE  h[m] = G(m, h[m - 1])
  <2>1. m \in b .. n /\ m # b
    BY <1>1
  <2> QED
    BY <1>7, <1>8, <2>1
<1> QED
  BY <1>2, <1>9, <1>10 DEF G, Z, n, b

\* and what a value holds is found level by level.
LEMMA HasTypeIs ==
  ASSUME NEW v, NEW type, IsType(type)
  PROVE  \E f : /\ f[1] = {v}
                /\ \A m \in 2 .. Len(type) : f[m] = UNION {Held(u, type[m - 1]) : u \in f[m - 1]}
                /\ (HasType(v, type) <=> \A m \in 1 .. Len(type) : \A u \in f[m] : Fits(u, type[m]))
<1>. DEFINE G(m, last) == UNION {Held(u, type[m - 1]) : u \in last}
            Z == {v}
            n == Len(type)
            b == 1
            Sat(f) == f = [m \in b .. n |-> IF m = b THEN Z ELSE G(m, f[m - 1])]
            Upto(f, k) == f[b] = Z /\ \A m \in b + 1 .. k : f[m] = G(m, f[m - 1])
            A == {k \in 0 .. n : k >= b => \E f : Upto(f, k)}
            h == CHOOSE f : Sat(f)
<1>1. n \in Nat /\ b \in {0, 1} /\ n # 0 /\ DOMAIN type = 1 .. n
  BY SequenceIs DEF IsType
<1>2. HasType(v, type) <=> \A m \in 1 .. n : \A u \in h[m] : Fits(u, type[m])
  BY <1>1 DEF HasType
<1>. HIDE DEF G, Z, n, b
<1>3. 0 \in A
  <2>. DEFINE f == [m \in {b} |-> Z]
  <2>1. b = 0 => f[b] = Z /\ \A m \in b + 1 .. 0 : f[m] = G(m, f[m - 1])
    OBVIOUS
  <2>2. 0 \in 0 .. n /\ (0 >= b => b = 0)
    BY <1>1
  <2>. HIDE DEF f
  <2> QED
    BY <2>1, <2>2
<1>4. ASSUME NEW k \in 1 .. n, k - 1 \in A
      PROVE  k \in A
  <2>1. k \in 0 .. n /\ k >= b
    BY <1>1
  <2>2. CASE k = b
    <3>. DEFINE f == [m \in {b} |-> Z]
    <3>1. f[b] = Z /\ \A m \in b + 1 .. k : f[m] = G(m, f[m - 1])
      BY <1>1, <2>2
    <3>. HIDE DEF f
    <3> QED
      BY <2>1, <3>1
  <2>3. CASE k # b
    <3>1. k - 1 >= b
      BY <1>1, <2>1, <2>3
    <3>2. PICK f : Upto(f, k - 1)
      BY <1>4, <3>1
    <3>. DEFINE g == [m \in 0 .. k |-> IF m = k THEN G(k, f[k - 1]) ELSE f[m]]
    <3>3. \A m \in 0 .. (k - 1) : g[m] = f[m]
      BY <1>1
    <3>4. g[k] = G(k, f[k - 1])
      BY <1>1
    <3>. HIDE DEF g
    <3>5. ASSUME NEW m \in b + 1 .. k
          PROVE  g[m] = G(m, g[m - 1])
      <4>1. m - 1 \in 0 .. (k - 1)
        BY <1>1
      <4>2. g[m - 1] = f[m - 1]
        BY <3>3, <4>1
      <4>3. CASE m = k
        BY <3>4, <4>2, <4>3
      <4>4. CASE m # k
        <5>1. m \in b + 1 .. (k - 1) /\ m \in 0 .. (k - 1)
          BY <1>1, <4>4
        <5> QED
          BY <3>2, <3>3, <4>2, <5>1
      <4> QED
        BY <4>3, <4>4
    <3>6. g[b] = Z
      <4>1. b \in 0 .. (k - 1)
        BY <1>1, <3>1
      <4> QED
        BY <3>2, <3>3, <4>1
    <3>7. Upto(g, k)
      BY <3>5, <3>6
    <3>. HIDE DEF Upto
    <3> QED
      BY <2>1, <3>7
  <2> QED
    BY <2>2, <2>3
<1>5. n \in A
  <2>. HIDE DEF A
  <2>1. 0 .. n \subseteq A
    BY <1>1, <1>3, <1>4, UpTo
  <2>2. n \in 0 .. n
    BY <1>1
  <2> QED
    BY <2>1, <2>2
<1>6. n >= b => \E f : Sat(f)
  <2>1. HAVE n >= b
  <2>2. PICK f : Upto(f, n)
    BY <1>5, <2>1
  <2>. DEFINE e == [m \in b .. n |-> f[m]]
  <2>3. \A m \in b .. n : e[m] = f[m]
    OBVIOUS
  <2>4. ASSUME NEW m \in b .. n
        PROVE  e[m] = IF m = b THEN Z ELSE G(m, e[m - 1])
    <3>. HIDE DEF e
    <3>1. CASE m = b
      BY <2>2, <2>3, <3>1
    <3>2. CASE m # b
      <4>1. m \in b + 1 .. n /\ m - 1 \in b .. n
        BY <1>1, <3>2
      <4>2. e[m - 1] = f[m - 1] /\ e[m] = f[m]
        BY <2>3, <4>1
      <4> QED
        BY <2>2, <3>2, <4>1, <4>2
    <3> QED
      BY <3>1, <3>2
  <2>5. e = [m \in b .. n |-> e[m]]
    OBVIOUS
  <2>. HIDE DEF e
  <2>6. Sat(e)
    BY <2>4, <2>5
  <2>. HIDE DEF Sat
  <2> QED
    BY <2>6
<1>7. n >= b => Sat(h)
  <2>. HIDE DEF Sat
  <2> QED
    BY <1>6
<1>. HIDE DEF h
<1>8. n >= b
  BY <1>1 DEF b, n
<1>9. h[b] = Z
  <2>1. b \in b .. n
    BY <1>1, <1>8
  <2> QED
    BY <1>7, <1>8, <2>1
<1>10. ASSUME NEW m \in b + 1 .. n
       PROVE  h[m] = G(m, h[m - 1])
  <2>1. m \in b .. n /\ m # b
    BY <1>1
  <2> QED
    BY <1>7, <1>8, <2>1
<1>11. b + 1 .. n = 2 .. n
  BY DEF b
<1>12. h[1] = {v} /\ \A m \in 2 .. n : h[m] = UNION {Held(u, type[m - 1]) : u \in h[m - 1]}
  BY <1>9, <1>10, <1>11 DEF G, Z, b
<1> QED
  BY <1>2, <1>12 DEF n

-----------------------------------------------------------------------------
(* What an expression depends on.                                          *)

Vars(tree) == {tree[k].words[1] : k \in {i \in DOMAIN tree : tree[i].kind = "var"}}

\* Analysed expressions name variables that have a type,
LEMMA VarsTyped ==
  ASSUME NEW tree, IsTree(tree), NEW vtypes, Analysed(tree, vtypes)
  PROVE  Vars(tree) \subseteq DOMAIN vtypes
<1>1. ASSUME NEW k \in DOMAIN tree, tree[k].kind = "var"
      PROVE  tree[k].words[1] \in DOMAIN vtypes
  <2>1. TypesOf(tree, vtypes)[k] # None
    BY DEF Analysed
  <2>2. TypesOf(tree, vtypes)[k] = NodeType(tree[k], OfParts(tree[k], TypesOf(tree, vtypes)), vtypes)
    BY TypesOfIs
  <2> QED
    BY <1>1, <2>1, <2>2 DEF NodeType
<1> QED
  BY <1>1 DEF Vars

\* and only those count for their types,
LEMMA TypesStay ==
  ASSUME NEW tree, IsTree(tree), NEW vtypes, NEW other,
         \A x \in Vars(tree) : (x \in DOMAIN vtypes <=> x \in DOMAIN other) /\ vtypes[x] = other[x]
  PROVE  TypesOf(tree, vtypes) = TypesOf(tree, other)
<1>. DEFINE A == {k \in DOMAIN tree : TypesOf(tree, vtypes)[k] = TypesOf(tree, other)[k]}
            n == Len(tree)
<1>1. n \in Nat /\ DOMAIN tree = 1 .. n
  BY TreeIs
<1>2. ASSUME NEW k \in 1 .. n, 1 .. (k - 1) \subseteq A
      PROVE  k \in A
  <2>1. \A m \in 1 .. (k - 1) : TypesOf(tree, vtypes)[m] = TypesOf(tree, other)[m]
    BY <1>2
  <2>. DEFINE ts == OfParts(tree[k], TypesOf(tree, vtypes))
  <2>2. ts = OfParts(tree[k], TypesOf(tree, other))
    BY <1>1, <2>1, PartsAgree
  <2>3. TypesOf(tree, vtypes)[k] = NodeType(tree[k], ts, vtypes) /\ TypesOf(tree, other)[k] = NodeType(tree[k], ts, other)
    BY <1>1, <2>2, TypesOfIs
  <2>. HIDE DEF ts
  <2>4. NodeType(tree[k], ts, vtypes) = NodeType(tree[k], ts, other)
    <3>1. CASE tree[k].kind = "var"
      <4>1. tree[k].words[1] \in Vars(tree)
        BY <1>1, <3>1 DEF Vars
      <4> QED
        BY <3>1, <4>1 DEF NodeType
    <3>2. CASE tree[k].kind # "var"
      BY <3>2 DEF NodeType
    <3> QED
      BY <3>1, <3>2
  <2> QED
    BY <1>1, <2>3, <2>4
<1>3. 1 .. n \subseteq A
  <2>. HIDE DEF A, n
  <2> QED
    BY <1>1, <1>2, Climb
<1>4. \A k \in DOMAIN tree : TypesOf(tree, vtypes)[k] = TypesOf(tree, other)[k]
  BY <1>1, <1>3
<1> QED
  BY <1>4, TypesOfIs

\* and for the kinds of their slots.
LEMMA KindsStay ==
  ASSUME NEW tree, IsTree(tree), NEW held, NEW other, \A x \in Vars(tree) : held[x].kind = other[x].kind
  PROVE  \A k \in DOMAIN tree : Unboxed(tree, held)[k].kind = Unboxed(tree, other)[k].kind
<1>. DEFINE A == {k \in DOMAIN tree : Unboxed(tree, held)[k].kind = Unboxed(tree, other)[k].kind}
            n == Len(tree)
<1>1. n \in Nat /\ DOMAIN tree = 1 .. n
  BY TreeIs
<1>2. ASSUME NEW k \in 1 .. n, 1 .. (k - 1) \subseteq A
      PROVE  k \in A
  <2>. DEFINE s == OfParts(tree[k], Unboxed(tree, held))
              t == OfParts(tree[k], Unboxed(tree, other))
              c == CanUnbox(tree)[k]
  <2>1. k \in DOMAIN tree /\ Unboxed(tree, held)[k] = InSlot(tree[k], c, s, held)
          /\ Unboxed(tree, other)[k] = InSlot(tree[k], c, t, other)
    BY <1>1, UnboxedIs
  <2>2. \A j \in DOMAIN tree[k].kids : s[j].kind = t[j].kind
    BY <1>2, <2>1, TreeIs, PartsAre
  <2>3. /\ tree[k].kind = "binary" => DOMAIN tree[k].kids = {1, 2}
        /\ tree[k].kind = "unary" => DOMAIN tree[k].kids = {1}
    BY <2>1, PlacesAre
  <2>4. tree[k].kind = "var" => tree[k].words[1] \in Vars(tree)
    BY <2>1 DEF Vars
  <2>. HIDE DEF s, t, c
  <2>5. InSlot(tree[k], c, s, held).kind = InSlot(tree[k], c, t, other).kind
    <3>1. CASE ~ c
      BY <3>1 DEF InSlot, Boxed, Slot
    <3>2. CASE c /\ tree[k].kind = "binary"
      <4>1. s[1].kind = t[1].kind /\ s[2].kind = t[2].kind
        BY <2>2, <2>3, <3>2
      <4> QED
        BY <3>2, <4>1 DEF InSlot, BinaryUnboxed, Slot
    <3>3. CASE c /\ tree[k].kind = "unary"
      <4>1. s[1].kind = t[1].kind
        BY <2>2, <2>3, <3>3
      <4> QED
        BY <3>3, <4>1 DEF InSlot, UnaryUnboxed, Slot
    <3>4. CASE c /\ tree[k].kind = "var"
      BY <2>4, <3>4 DEF InSlot
    <3>5. CASE c /\ tree[k].kind = "literal"
      BY <3>5 DEF InSlot
    <3>6. CASE c /\ tree[k].kind \notin {"binary", "unary", "var", "literal"}
      <4>1. ~ c
        BY <2>1, <3>6, CanUnboxIs DEF c, Unboxable
      <4> QED
        BY <3>6, <4>1
    <3> QED
      BY <3>1, <3>2, <3>3, <3>4, <3>5, <3>6
  <2> QED
    BY <2>1, <2>5
<1>3. 1 .. n \subseteq A
  <2>. HIDE DEF A, n
  <2> QED
    BY <1>1, <1>2, Climb
<1> QED
  BY <1>1, <1>3

-----------------------------------------------------------------------------
(* Slots without a box.                                                    *)

LEMMA ValuesAre ==
  /\ \A n : IntV(n).t = "Int" /\ IsValue(IntV(n)) /\ IntV(n) # Abort /\ IntV(n).n = n /\ IntV(n).d = 1
  /\ \A b : BoolV(b).t = "Bool" /\ IsValue(BoolV(b)) /\ BoolV(b) # Abort
  /\ \A w : TextV(w).t = "String" /\ IsValue(TextV(w)) /\ TextV(w) # Abort
  /\ \A n, d : DoubleV(n, d).t = "Double" /\ IsValue(DoubleV(n, d)) /\ DoubleV(n, d) # Abort
  /\ NilValue.t = "Nil" /\ IsValue(NilValue) /\ NilValue # Abort
  /\ Abort.t = "abort"
  /\ \A b : Zero(b).t = b /\ IsValue(Zero(b))
BY DEF IntV, BoolV, TextV, DoubleV, NilValue, Abort, Zero, Val, IsValue

LEMMA DoublesAre ==
  ASSUME NEW op \in {"+", "-", "*", "/"}, NEW x, NEW y, x.t = "Double" \/ ~ (y.t = "Int"), x.t \in Numeric, y.t \in Numeric
  PROVE  /\ OnDoubles(op, x, y).t = "Double" /\ OnDoubles(op, x, y) # Abort
         /\ IsValue(x) => IsValue(OnDoubles(op, x, y))
<1>1. Negated(y).t = "Double"
  BY ValuesAre DEF Negated
<1>2. ASSUME NEW z, z.t = "Double"
      PROVE  Plus(x, z).t = "Double" /\ Plus(x, z) # Abort /\ (IsValue(x) => IsValue(Plus(x, z)))
  <2>1. CASE x = z /\ x.d = 0
    BY <1>2, <2>1, ValuesAre DEF Plus
  <2>2. CASE ~ (x = z /\ x.d = 0)
    BY <2>2, ValuesAre DEF Plus
  <2> QED
    BY <2>1, <2>2
<1>3. CASE op = "+"
  <2>1. CASE y.t = "Double"
    BY <1>2, <1>3, <2>1 DEF OnDoubles
  <2>2. CASE y.t = "Int"
    <3>1. x # y
      BY <2>2
    <3> QED
      BY <1>3, <3>1, ValuesAre DEF OnDoubles, Plus
  <2> QED
    BY <2>1, <2>2 DEF Numeric
<1>4. CASE op = "-"
  BY <1>1, <1>2, <1>4 DEF OnDoubles
<1>5. CASE op = "*"
  BY <1>5, ValuesAre DEF OnDoubles
<1>6. CASE op = "/"
  BY <1>6, ValuesAre DEF OnDoubles
<1> QED
  BY <1>3, <1>4, <1>5, <1>6

\* A slot without a box is a number or a truth value, of the type that was seen when the code was generated.
RawOK(s) == s.kind # "box" => s.kind \in {"Int", "Double", "Bool"} /\ (s.v = Abort \/ s.v.t = s.kind)

LEMMA KindIs ==
  ASSUME NEW op, NEW l, NEW r, NEW kind, kind = BinaryKind(op, l, r)
  PROVE  /\ kind \in {"box", "Int", "Double", "Bool"}
         /\ kind = "Int" => l = "Int" /\ r = "Int" /\ op \in Arithmetic
         /\ kind = "Double" => l = "Double" /\ r = "Double" /\ op \in {"+", "-", "*", "/"}
         /\ kind = "Bool" => l = r /\ l \in Numeric /\ op \in {"==", "<", ">"}
BY DEF BinaryKind, Numeric, Arithmetic

LEMMA BinaryRaw ==
  ASSUME NEW op, NEW l, NEW r, RawOK(l), RawOK(r)
  PROVE  RawOK(BinaryUnboxed(op, l, r))
<1>. DEFINE kind == BinaryKind(op, l.kind, r.kind)
            out == BinaryUnboxed(op, l, r)
<1>1. out.kind = kind
  BY DEF BinaryUnboxed, Slot
<1>2. CASE Abort \in {l.v, r.v}
  <2>1. out.v = Abort
    BY <1>2 DEF BinaryUnboxed, Slot
  <2> QED
    BY <1>1, <2>1, KindIs DEF RawOK
<1>3. CASE Abort \notin {l.v, r.v} /\ kind = "Int"
  <2>1. out.v = IF op \in {"/", "%"} /\ r.v.n = 0 THEN Abort ELSE IntV(OnInts(op, l.v.n, r.v.n))
    BY <1>3 DEF BinaryUnboxed, Slot
  <2> QED
    BY <1>1, <1>3, <2>1, ValuesAre DEF RawOK
<1>4. CASE Abort \notin {l.v, r.v} /\ kind = "Double"
  <2>1. out.v = OnDoubles(op, l.v, r.v)
    BY <1>4 DEF BinaryUnboxed, Slot
  <2>2. l.v.t = "Double" /\ r.v.t = "Double" /\ op \in {"+", "-", "*", "/"}
    BY <1>4, KindIs DEF RawOK
  <2>3. out.v.t = "Double"
    BY <2>1, <2>2, DoublesAre DEF Numeric
  <2> QED
    BY <1>1, <1>4, <2>3 DEF RawOK
<1>5. CASE Abort \notin {l.v, r.v} /\ kind = "Bool"
  <2>1. out.v = BoolV(IF l.kind = "Int" THEN Ordered(op, l.v.n, r.v.n) ELSE OrderedDoubles(op, l.v, r.v))
    BY <1>5 DEF BinaryUnboxed, Slot
  <2> QED
    BY <1>1, <1>5, <2>1, ValuesAre DEF RawOK
<1>6. CASE kind = "box"
  BY <1>1, <1>6 DEF RawOK
<1> QED
  BY <1>2, <1>3, <1>4, <1>5, <1>6, KindIs

LEMMA UnaryRaw ==
  ASSUME NEW op \in {"-", "!"}, NEW s
  PROVE  RawOK(UnaryUnboxed(op, s))
<1>. DEFINE out == UnaryUnboxed(op, s)
<1>1. out.kind = IF s.kind \in (IF op = "-" THEN Numeric ELSE {"Bool"}) THEN s.kind ELSE "box"
  BY DEF UnaryUnboxed, Slot
<1>2. CASE s.v = Abort
  <2>1. out.v = Abort
    BY <1>2 DEF UnaryUnboxed, Slot
  <2> QED
    BY <1>1, <2>1 DEF RawOK, Numeric
<1>3. CASE s.v # Abort
  <2>1. out.kind # "box" => \/ out.kind = "Int" /\ out.v = IntV(-s.v.n)
                            \/ out.kind = "Double" /\ out.v = Negated(s.v)
                            \/ out.kind = "Bool" /\ out.v = BoolV(s.v.n = 0)
    BY <1>3 DEF UnaryUnboxed, Slot, Numeric
  <2> QED
    BY <2>1, ValuesAre DEF RawOK, Negated
<1> QED
  BY <1>2, <1>3

LEMMA LiteralRaw ==
  ASSUME NEW w \in {"nil", "true", "false"} \cup DOMAIN Meaning
  PROVE  RawOK(Raw(LiteralValue(w))) \/ w = "nil"
<1>1. w \in DOMAIN Meaning => Meaning[w].t \in {"Int", "Double"}
  BY MeaningAssumption DEF Numeric
<1>2. CASE w \in {"true", "false"}
  BY <1>2, ValuesAre DEF RawOK, Raw, Slot, LiteralValue
<1>3. CASE w \notin {"nil", "true", "false"}
  BY <1>1, <1>3 DEF RawOK, Raw, Slot, LiteralValue
<1> QED
  BY <1>2, <1>3

\* What is built in a node.
Builds(tree, slot, held, k) ==
  /\ CanUnbox(tree)[k] => tree[k].kind \in {"literal", "var", "binary", "unary"}
  /\ ~ CanUnbox(tree)[k] =>
        slot[k] = Boxed(FromParts(tree[k], [j \in DOMAIN tree[k].kids |-> slot[tree[k].kids[j]].v]))
  /\ CanUnbox(tree)[k] /\ tree[k].kind = "literal" =>
        slot[k] = Raw(LiteralValue(tree[k].words[1])) /\ tree[k].words[1] # "nil"
  /\ CanUnbox(tree)[k] /\ tree[k].kind = "var" =>
        slot[k] = held[tree[k].words[1]] /\ tree[k].words[1] \in Vars(tree)
  /\ CanUnbox(tree)[k] /\ tree[k].kind = "binary" =>
        slot[k] = BinaryUnboxed(tree[k].words[1], slot[tree[k].kids[1]], slot[tree[k].kids[2]])
  /\ CanUnbox(tree)[k] /\ tree[k].kind = "unary" =>
        slot[k] = UnaryUnboxed(tree[k].words[1], slot[tree[k].kids[1]])

LEMMA BuiltIs ==
  ASSUME NEW tree, IsTree(tree), NEW held, NEW k \in DOMAIN tree
  PROVE  Builds(tree, Unboxed(tree, held), held, k)
<1>. DEFINE slot == Unboxed(tree, held)
            s == OfParts(tree[k], slot)
            c == CanUnbox(tree)[k]
<1>1. slot[k] = InSlot(tree[k], c, s, held)
  BY UnboxedIs
<1>2. c = Unboxable(tree[k], OfParts(tree[k], CanUnbox(tree)))
  BY CanUnboxIs
<1>3. tree[k].kind = "binary" => s[1] = slot[tree[k].kids[1]] /\ s[2] = slot[tree[k].kids[2]]
  BY PlacesAre, PartsAre
<1>4. tree[k].kind = "unary" => s[1] = slot[tree[k].kids[1]]
  BY PlacesAre, PartsAre
<1>5. tree[k].kind = "var" => tree[k].words[1] \in Vars(tree)
  BY DEF Vars
<1>9. [j \in DOMAIN s |-> s[j].v] = [j \in DOMAIN tree[k].kids |-> slot[tree[k].kids[j]].v]
  BY PartsAre
<1>. HIDE DEF slot, s, c
<1>6. /\ c => tree[k].kind \in {"literal", "var", "binary", "unary"}
      /\ c /\ tree[k].kind = "literal" => tree[k].words[1] # "nil"
  BY <1>2 DEF Unboxable
<1>7. ~ c => slot[k] = Boxed(FromParts(tree[k], [j \in DOMAIN s |-> s[j].v]))
  BY <1>1 DEF InSlot
<1>8. /\ c /\ tree[k].kind = "literal" => slot[k] = Raw(LiteralValue(tree[k].words[1]))
      /\ c /\ tree[k].kind = "var" => slot[k] = held[tree[k].words[1]]
      /\ c /\ tree[k].kind = "binary" => slot[k] = BinaryUnboxed(tree[k].words[1], s[1], s[2])
      /\ c /\ tree[k].kind = "unary" => slot[k] = UnaryUnboxed(tree[k].words[1], s[1])
  BY <1>1 DEF InSlot
<1> QED
  BY <1>3, <1>4, <1>5, <1>6, <1>7, <1>8, <1>9 DEF slot, c, Builds

LEMMA SlotsRaw ==
  ASSUME NEW tree, IsTree(tree), NEW held, \A x \in Vars(tree) : RawOK(held[x])
  PROVE  \A k \in DOMAIN tree : RawOK(Unboxed(tree, held)[k])
<1>. DEFINE slot == Unboxed(tree, held)
            A == {k \in DOMAIN tree : RawOK(slot[k])}
            n == Len(tree)
<1>1. n \in Nat /\ DOMAIN tree = 1 .. n
  BY TreeIs
<1>2. ASSUME NEW k \in 1 .. n, 1 .. (k - 1) \subseteq A
      PROVE  k \in A
  <2>1. k \in DOMAIN tree /\ \A j \in DOMAIN tree[k].kids : RawOK(slot[tree[k].kids[j]])
    BY <1>1, <1>2, TreeIs
  <2>b. Builds(tree, slot, held, k)
    BY <2>1, BuiltIs
  <2>. HIDE DEF slot
  <2>2. CASE ~ CanUnbox(tree)[k]
    <3>1. slot[k].kind = "box"
      BY <2>1, <2>2, <2>b DEF Boxed, Slot, Builds
    <3> QED
      BY <2>1, <3>1 DEF RawOK
  <2>3. CASE CanUnbox(tree)[k] /\ tree[k].kind = "literal"
    <3>1. tree[k].words[1] \in {"nil", "true", "false"} \cup DOMAIN Meaning
      BY <2>1, <2>3 DEF IsTree
    <3>2. slot[k] = Raw(LiteralValue(tree[k].words[1])) /\ tree[k].words[1] # "nil"
      BY <2>1, <2>3, <2>b DEF Builds
    <3> QED
      BY <2>1, <3>1, <3>2, LiteralRaw
  <2>4. CASE CanUnbox(tree)[k] /\ tree[k].kind = "var"
    <3>1. slot[k] = held[tree[k].words[1]] /\ tree[k].words[1] \in Vars(tree)
      BY <2>1, <2>4, <2>b DEF Builds
    <3> QED
      BY <2>1, <3>1
  <2>5. CASE CanUnbox(tree)[k] /\ tree[k].kind = "binary"
    <3>1. slot[k] = BinaryUnboxed(tree[k].words[1], slot[tree[k].kids[1]], slot[tree[k].kids[2]])
      BY <2>1, <2>5, <2>b DEF Builds
    <3>2. RawOK(slot[tree[k].kids[1]]) /\ RawOK(slot[tree[k].kids[2]])
      BY <2>1, <2>5, PlacesAre
    <3> QED
      BY <2>1, <3>1, <3>2, BinaryRaw
  <2>6. CASE CanUnbox(tree)[k] /\ tree[k].kind = "unary"
    <3>1. slot[k] = UnaryUnboxed(tree[k].words[1], slot[tree[k].kids[1]])
      BY <2>1, <2>6, <2>b DEF Builds
    <3>2. tree[k].words[1] \in {"-", "!"}
      BY <2>1, <2>6 DEF IsTree
    <3> QED
      BY <2>1, <3>1, <3>2, UnaryRaw
  <2> QED
    BY <2>1, <2>2, <2>3, <2>4, <2>5, <2>6, <2>b DEF Builds
<1>3. 1 .. n \subseteq A
  <2>. HIDE DEF A, n
  <2> QED
    BY <1>1, <1>2, Climb
<1> QED
  BY <1>1, <1>3

-----------------------------------------------------------------------------
(* Values with and without a box.                                          *)

\* What is computed without boxes is what the runtime computes, but for a division of doubles by zero.
LEMMA RawIsBoxed ==
  ASSUME NEW op, NEW l, NEW r, RawOK(l), RawOK(r), ~ (op = "/" /\ r.v.n = 0)
  PROVE  BinaryUnboxed(op, l, r).v = BinaryOp(op, l.v, r.v)
<1>. DEFINE kind == BinaryKind(op, l.kind, r.kind)
<1>1. CASE Abort \in {l.v, r.v}
  BY <1>1 DEF BinaryUnboxed, BinaryOp, Slot
<1>2. CASE Abort \notin {l.v, r.v} /\ kind = "box"
  BY <1>2 DEF BinaryUnboxed, Slot
<1>3. CASE Abort \notin {l.v, r.v} /\ kind = "Int"
  <2>1. l.v.t = "Int" /\ r.v.t = "Int" /\ op \in Arithmetic
    BY <1>3, KindIs DEF RawOK
  <2>2. BinaryOp(op, l.v, r.v) = Calculated(op, l.v, r.v)
    BY <1>3, <2>1 DEF BinaryOp, Arithmetic, Comparisons
  <2>3. Calculated(op, l.v, r.v) = IF op \in {"/", "%"} /\ r.v.n = 0 THEN Abort ELSE IntV(OnInts(op, l.v.n, r.v.n))
    BY <2>1 DEF Calculated, Numeric
  <2> QED
    BY <1>3, <2>2, <2>3 DEF BinaryUnboxed, Slot
<1>4. CASE Abort \notin {l.v, r.v} /\ kind = "Double"
  <2>1. l.v.t = "Double" /\ r.v.t = "Double" /\ op \in {"+", "-", "*", "/"}
    BY <1>4, KindIs DEF RawOK
  <2>2. BinaryOp(op, l.v, r.v) = Calculated(op, l.v, r.v)
    BY <1>4, <2>1 DEF BinaryOp, Arithmetic, Comparisons
  <2>3. Calculated(op, l.v, r.v) = OnDoubles(op, l.v, r.v)
    BY <2>1 DEF Calculated, Numeric
  <2> QED
    BY <1>4, <2>2, <2>3 DEF BinaryUnboxed, Slot
<1>5. CASE Abort \notin {l.v, r.v} /\ kind = "Bool"
  <2>1. l.v.t = l.kind /\ r.v.t = l.kind /\ l.kind \in {"Int", "Double"} /\ op \in {"==", "<", ">"}
    BY <1>5, KindIs DEF RawOK, Numeric
  <2>2. BinaryOp(op, l.v, r.v) = Compared(op, l.v, r.v)
    BY <1>5, <2>1 DEF BinaryOp, Arithmetic, Comparisons
  <2>3. Compared(op, l.v, r.v) = BoolV(IF l.kind = "Int" THEN Ordered(op, l.v.n, r.v.n) ELSE OrderedDoubles(op, l.v, r.v))
    BY <2>1 DEF Compared
  <2> QED
    BY <1>5, <2>2, <2>3 DEF BinaryUnboxed, Slot
<1> QED
  BY <1>1, <1>2, <1>3, <1>4, <1>5, KindIs

\* The same value, in a box or in the same kind of slot.
Matches(b, s) == b.v = s.v /\ (b.kind = "box" \/ b.kind = s.kind)

LEMMA BinaryMatches ==
  ASSUME NEW op, NEW l, NEW r, RawOK(l), RawOK(r), NEW bl, NEW br, Matches(bl, l), Matches(br, r),
         ~ (op = "/" /\ br.v.n = 0)
  PROVE  Matches(BinaryUnboxed(op, bl, br), BinaryUnboxed(op, l, r))
<1>1. RawOK(bl) /\ RawOK(br)
  BY DEF RawOK, Matches
<1>2. BinaryUnboxed(op, bl, br).v = BinaryUnboxed(op, l, r).v
  BY <1>1, RawIsBoxed DEF Matches
<1>3. BinaryKind(op, bl.kind, br.kind) \in {"box", BinaryKind(op, l.kind, r.kind)}
  BY DEF BinaryKind, Matches, Numeric
<1> QED
  BY <1>2, <1>3 DEF Matches, BinaryUnboxed, Slot

LEMMA UnaryMatches ==
  ASSUME NEW op \in {"-", "!"}, NEW s, RawOK(s), NEW b, Matches(b, s), op = "-" => b.kind # "box"
  PROVE  Matches(UnaryUnboxed(op, b), UnaryUnboxed(op, s))
<1>1. CASE b.kind = s.kind
  BY <1>1 DEF Matches, UnaryUnboxed, Slot
<1>2. CASE b.kind # s.kind
  <2>1. b.kind = "box" /\ op = "!" /\ b.v = s.v
    BY <1>2 DEF Matches
  <2>2. UnaryUnboxed(op, b) = Slot("box", IF s.v = Abort THEN Abort ELSE UnaryNot(s.v))
    BY <2>1 DEF UnaryUnboxed, Numeric
  <2>3. CASE s.kind = "Bool" /\ s.v # Abort
    <3>1. s.v.t = "Bool"
      BY <2>3 DEF RawOK
    <3>2. UnaryUnboxed(op, s).v = BoolV(s.v.n = 0) /\ UnaryNot(s.v) = BoolV(s.v.n = 0)
      BY <2>1, <2>3, <3>1 DEF UnaryUnboxed, UnaryNot, Slot
    <3> QED
      BY <2>2, <2>3, <3>2 DEF Matches, Slot
  <2>4. CASE s.kind # "Bool" \/ s.v = Abort
    <3>1. UnaryUnboxed(op, s).v = IF s.v = Abort THEN Abort ELSE UnaryNot(s.v)
      BY <2>1, <2>4 DEF UnaryUnboxed, Slot
    <3> QED
      BY <2>2, <3>1 DEF Matches, Slot
  <2> QED
    BY <2>3, <2>4
<1> QED
  BY <1>1, <1>2

LEMMA BoxesMatch ==
  ASSUME NEW tree, IsTree(tree), NEW held, NEW boxed,
         \A x \in Vars(tree) : RawOK(held[x]) /\ boxed[x] = Boxed(held[x].v),
         \A k \in DOMAIN tree :
            /\ tree[k].kind = "binary" /\ tree[k].words[1] = "/" => Unboxed(tree, boxed)[tree[k].kids[2]].v.n # 0
            /\ ~ BoxedMinus(tree, k, boxed)
  PROVE  \A k \in DOMAIN tree : Matches(Unboxed(tree, boxed)[k], Unboxed(tree, held)[k])
<1>. DEFINE slot == Unboxed(tree, held)
            box  == Unboxed(tree, boxed)
            A == {k \in DOMAIN tree : Matches(box[k], slot[k])}
            n == Len(tree)
<1>1. n \in Nat /\ DOMAIN tree = 1 .. n
  BY TreeIs
<1>2. ASSUME NEW k \in 1 .. n, 1 .. (k - 1) \subseteq A
      PROVE  k \in A
  <2>1. k \in DOMAIN tree /\ \A j \in DOMAIN tree[k].kids : tree[k].kids[j] \in DOMAIN tree /\ tree[k].kids[j] \in A
    BY <1>1, <1>2, TreeIs
  <2>2. \A j \in DOMAIN tree[k].kids : Matches(box[tree[k].kids[j]], slot[tree[k].kids[j]]) /\ RawOK(slot[tree[k].kids[j]])
    BY <2>1, SlotsRaw
  <2>3. Builds(tree, slot, held, k) /\ Builds(tree, box, boxed, k)
    BY <2>1, BuiltIs
  <2>4. /\ tree[k].kind = "binary" /\ tree[k].words[1] = "/" => box[tree[k].kids[2]].v.n # 0
        /\ CanUnbox(tree)[k] /\ tree[k].kind = "unary" /\ tree[k].words[1] = "-" => box[tree[k].kids[1]].kind # "box"
    BY <2>1 DEF BoxedMinus
  <2>. HIDE DEF slot, box
  <2>5. CASE ~ CanUnbox(tree)[k]
    <3>1. [j \in DOMAIN tree[k].kids |-> slot[tree[k].kids[j]].v] = [j \in DOMAIN tree[k].kids |-> box[tree[k].kids[j]].v]
      BY <2>2 DEF Matches
    <3>2. slot[k] = box[k]
      BY <2>3, <2>5, <3>1 DEF Builds
    <3> QED
      BY <2>1, <3>2 DEF Matches
  <2>6. CASE CanUnbox(tree)[k] /\ tree[k].kind = "literal"
    <3>1. slot[k] = box[k]
      BY <2>3, <2>6 DEF Builds
    <3> QED
      BY <2>1, <3>1 DEF Matches
  <2>7. CASE CanUnbox(tree)[k] /\ tree[k].kind = "var"
    <3>1. box[k] = Boxed(slot[k].v)
      BY <2>3, <2>7 DEF Builds
    <3> QED
      BY <2>1, <3>1 DEF Matches, Boxed, Slot
  <2>8. CASE CanUnbox(tree)[k] /\ tree[k].kind = "binary"
    <3>. DEFINE a == tree[k].kids[1]
                b == tree[k].kids[2]
                op == tree[k].words[1]
    <3>1. slot[k] = BinaryUnboxed(op, slot[a], slot[b]) /\ box[k] = BinaryUnboxed(op, box[a], box[b])
      BY <2>3, <2>8 DEF Builds
    <3>2. RawOK(slot[a]) /\ RawOK(slot[b]) /\ Matches(box[a], slot[a]) /\ Matches(box[b], slot[b])
      BY <2>1, <2>2, <2>8, PlacesAre
    <3>3. ~ (op = "/" /\ box[b].v.n = 0)
      BY <2>4, <2>8
    <3>. HIDE DEF a, b, op
    <3> QED
      BY <2>1, <3>1, <3>2, <3>3, BinaryMatches
  <2>9. CASE CanUnbox(tree)[k] /\ tree[k].kind = "unary"
    <3>. DEFINE a == tree[k].kids[1]
                op == tree[k].words[1]
    <3>1. slot[k] = UnaryUnboxed(op, slot[a]) /\ box[k] = UnaryUnboxed(op, box[a])
      BY <2>3, <2>9 DEF Builds
    <3>2. RawOK(slot[a]) /\ Matches(box[a], slot[a])
      BY <2>1, <2>2, <2>9, PlacesAre
    <3>3. op \in {"-", "!"} /\ (op = "-" => box[a].kind # "box")
      BY <2>1, <2>4, <2>9 DEF IsTree
    <3>. HIDE DEF a, op
    <3> QED
      BY <2>1, <3>1, <3>2, <3>3, UnaryMatches
  <2> QED
    BY <2>3, <2>5, <2>6, <2>7, <2>8, <2>9 DEF Builds
<1>3. 1 .. n \subseteq A
  <2>. HIDE DEF A, n
  <2> QED
    BY <1>1, <1>2, Climb
<1> QED
  BY <1>1, <1>3

-----------------------------------------------------------------------------
(* Scopes: what a statement names has been declared before it.             *)

LEMMA WithIs ==
  ASSUME NEW f, NEW x, NEW s
  PROVE  /\ DOMAIN With(f, x, s) = {x} \cup DOMAIN f
         /\ With(f, x, s)[x] = s
         /\ \A y \in DOMAIN f : y # x => With(f, x, s)[y] = f[y]
BY DEF With

LEMMA CodeIs ==
  ASSUME NEW c \in Codes
  PROVE  /\ Len(c) \in Nat \ {0} /\ DOMAIN c = 1 .. Len(c)
         /\ \A j \in 1 .. Len(c) : /\ c[j].op \in {"let", "="} \cup Arithmetic
                                   /\ c[j].type # None => IsType(c[j].type)
                                   /\ IsTree(c[j].tree)
<1>1. IsSequence(c) /\ c # <<>>
  BY CodesAssumption
<1>2. Len(c) \in Nat \ {0} /\ DOMAIN c = 1 .. Len(c)
  BY <1>1, SequenceIs
<1> QED
  BY <1>2, CodesAssumption

\* The variables that are declared before a statement.
Lets(c, j) == {c[i].name : i \in {m \in 1 .. (j - 1) : c[m].op = "let"}}

LEMMA LetsNone == \A c : Lets(c, 1) = {}
<1>1. 1 .. (1 - 1) = {}
  OBVIOUS
<1> QED
  BY <1>1 DEF Lets

LEMMA LetsAre ==
  ASSUME NEW c, NEW j \in Nat \ {0}
  PROVE  /\ Lets(c, j + 1) = IF c[j].op = "let" THEN {c[j].name} \cup Lets(c, j) ELSE Lets(c, j)
         /\ \A i \in 1 .. j : Lets(c, i) \subseteq Lets(c, j)
<1>1. 1 .. (j + 1 - 1) = {j} \cup 1 .. (j - 1)
  OBVIOUS
<1>2. \A i \in 1 .. j : 1 .. (i - 1) \subseteq 1 .. (j - 1)
  OBVIOUS
<1> QED
  BY <1>1, <1>2 DEF Lets

\* What the analysis has found of a statement that it accepted.
Okay(c, vtypes, j) ==
  /\ Analysed(c[j].tree, vtypes) /\ Vars(c[j].tree) \subseteq Lets(c, j)
  /\ c[j].name \in DOMAIN vtypes
  /\ c[j].op = "let" <=> c[j].name \notin Lets(c, j)
  /\ Compatible(TypeOf(c[j].tree, vtypes), vtypes[c[j].name])

LEMMA OkayStays ==
  ASSUME NEW c \in Codes, NEW j \in 1 .. Len(c), NEW vtypes, NEW other, Okay(c, vtypes, j), Lets(c, j) \subseteq DOMAIN vtypes,
         \A x \in DOMAIN vtypes : x \in DOMAIN other /\ other[x] = vtypes[x]
  PROVE  Okay(c, other, j)
<1>1. IsTree(c[j].tree)
  BY CodeIs
<1>2. \A x \in Vars(c[j].tree) : (x \in DOMAIN vtypes <=> x \in DOMAIN other) /\ vtypes[x] = other[x]
  BY DEF Okay
<1>3. TypesOf(c[j].tree, vtypes) = TypesOf(c[j].tree, other)
  BY <1>1, <1>2, TypesStay
<1> QED
  BY <1>3 DEF Okay, Analysed, TypeOf

Phases == {"analysis", "running", "refused", "finished", "aborted"}
SlotOK(x) == env[x].kind # "box" => /\ inFunction /\ env[x].kind \in {"Int", "Double", "Bool"}
                                    /\ env[x].kind = Base(types[x])
                                    /\ env[x].v.t = env[x].kind

Scoped ==
  /\ code \in Codes /\ inFunction \in BOOLEAN /\ pc \in 1 .. Len(code) /\ phase \in Phases
  /\ \A x \in DOMAIN types : IsType(types[x])
  /\ phase \in {"analysis", "refused"} =>
        DOMAIN types = Lets(code, pc) /\ DOMAIN env = {} /\ \A j \in 1 .. (pc - 1) : Okay(code, types, j)
  /\ phase \in {"running", "finished", "aborted"} =>
        DOMAIN types = Lets(code, Len(code) + 1) /\ \A j \in 1 .. Len(code) : Okay(code, types, j)
  /\ phase \in {"running", "aborted"} => DOMAIN env = Lets(code, pc)
  /\ phase = "finished" => pc = Len(code) /\ DOMAIN env = DOMAIN types
  /\ \A x \in DOMAIN env : SlotOK(x)

LEMMA InitScoped == Init => Scoped
<1>1. HAVE Init
<1>2. code \in Codes /\ inFunction \in BOOLEAN /\ pc = 1 /\ phase = "analysis" /\ DOMAIN types = {} /\ DOMAIN env = {}
  BY <1>1 DEF Init
<1>3. Len(code) \in Nat \ {0} /\ 1 \in 1 .. Len(code)
  BY <1>2, CodeIs
<1>4. Lets(code, 1) = {}
  BY LetsNone
<1>5. 1 .. (1 - 1) = {}
  OBVIOUS
<1> QED
  BY <1>2, <1>3, <1>4, <1>5 DEF Scoped, Phases

LEMMA AnalyseScoped ==
  ASSUME Scoped, Analyse
  PROVE  Scoped'
<1>1. /\ phase = "analysis" /\ Accepted /\ UNCHANGED <<code, inFunction, env, value>>
      /\ types' = IF Here.op = "let" THEN With(types, Here.name, Here.type) ELSE types
      /\ \/ pc < Len(code) /\ pc' = pc + 1 /\ phase' = "analysis"
         \/ pc = Len(code) /\ pc' = 1 /\ phase' = "running"
  BY DEF Analyse, Scoped
<1>2. /\ code \in Codes /\ pc \in 1 .. Len(code) /\ Len(code) \in Nat /\ IsTree(Here.tree)
      /\ DOMAIN types = Lets(code, pc) /\ DOMAIN env = {} /\ \A j \in 1 .. (pc - 1) : Okay(code, types, j)
  BY <1>1, CodeIs DEF Scoped, Here
<1>13. /\ Here.op = "let" => /\ Here.name \notin DOMAIN types /\ Here.type # None
                              /\ DOMAIN types' = {Here.name} \cup DOMAIN types /\ types'[Here.name] = Here.type
                              /\ \A x \in DOMAIN types : types'[x] = types[x]
       /\ Here.op # "let" => types' = types /\ Here.name \in DOMAIN types
  <2>1. CASE Here.op = "let"
    <3>1. Here.name \notin DOMAIN types /\ Here.type # None
      BY <1>1, <2>1 DEF Accepted
    <3>2. types' = With(types, Here.name, Here.type)
      BY <1>1, <2>1
    <3>3. /\ DOMAIN With(types, Here.name, Here.type) = {Here.name} \cup DOMAIN types
          /\ With(types, Here.name, Here.type)[Here.name] = Here.type
          /\ \A x \in DOMAIN types : x # Here.name => With(types, Here.name, Here.type)[x] = types[x]
      BY DEF With
    <3> QED
      BY <2>1, <3>1, <3>2, <3>3
  <2>2. CASE Here.op # "let"
    BY <1>1, <2>2 DEF Accepted
  <2> QED
    BY <2>1, <2>2
<1>3. \A x \in DOMAIN types : x \in DOMAIN types' /\ types'[x] = types[x]
  BY <1>13
<1>4. \A j \in 1 .. pc : Lets(code, j) \subseteq DOMAIN types /\ j \in 1 .. Len(code)
  <2>1. pc \in Nat \ {0}
    BY <1>2
  <2>2. \A i \in 1 .. pc : Lets(code, i) \subseteq Lets(code, pc)
    BY <2>1, LetsAre
  <2> QED
    BY <1>2, <2>2
<1>5. \A j \in 1 .. (pc - 1) : Okay(code, types', j)
  BY <1>2, <1>3, <1>4, OkayStays
<1>6. Okay(code, types', pc)
  <2>1. Vars(Here.tree) \subseteq DOMAIN types /\ Analysed(Here.tree, types)
    BY <1>1, <1>2, VarsTyped DEF Accepted
  <2>2. TypesOf(Here.tree, types) = TypesOf(Here.tree, types')
    BY <1>2, <1>3, <2>1, TypesStay
  <2>3. Analysed(Here.tree, types') /\ TypeOf(Here.tree, types') = TypeOf(Here.tree, types)
    BY <2>1, <2>2 DEF Analysed, TypeOf
  <2>4. /\ Here.name \in DOMAIN types' /\ Compatible(TypeOf(Here.tree, types), types'[Here.name])
        /\ Here.op = "let" <=> Here.name \notin DOMAIN types
    BY <1>1, <1>13 DEF Accepted
  <2> QED
    BY <1>2, <2>1, <2>3, <2>4 DEF Okay, Here
<1>7. DOMAIN types' = Lets(code, pc + 1)
  <2>1. pc \in Nat \ {0}
    BY <1>2
  <2>2. Lets(code, pc + 1) = IF Here.op = "let" THEN {Here.name} \cup Lets(code, pc) ELSE Lets(code, pc)
    BY <2>1, LetsAre DEF Here
  <2> QED
    BY <1>2, <1>13, <2>2
<1>8. \A x \in DOMAIN types' : IsType(types'[x])
  <2>1. Here.type # None => IsType(Here.type)
    BY <1>2, CodeIs DEF Here
  <2>2. CASE Here.op = "let"
    <3>1. \A x \in DOMAIN types : IsType(types[x])
      BY DEF Scoped
    <3> QED
      BY <1>13, <2>1, <2>2, <3>1
  <2>3. CASE Here.op # "let"
    BY <1>13, <2>3 DEF Scoped
  <2> QED
    BY <2>2, <2>3
<1>9. \A j \in 1 .. pc : Okay(code, types', j)
  <2>1. 1 .. pc = {pc} \cup 1 .. (pc - 1)
    BY <1>2
  <2> QED
    BY <1>5, <1>6, <2>1
<1>10. code' = code /\ env' = env /\ inFunction' = inFunction /\ inFunction \in BOOLEAN
  BY <1>1 DEF Scoped
<1>11. CASE pc < Len(code)
  <2>1. pc' = pc + 1 /\ phase' = "analysis" /\ pc + 1 \in 1 .. Len(code) /\ pc + 1 - 1 = pc
    BY <1>1, <1>2, <1>11
  <2> QED
    BY <1>2, <1>7, <1>8, <1>9, <1>10, <2>1 DEF Scoped, Phases
<1>12. CASE pc = Len(code)
  <2>1. pc' = 1 /\ phase' = "running" /\ 1 \in 1 .. Len(code)
    BY <1>1, <1>2, <1>12
  <2>2. Lets(code, 1) = {}
    BY LetsNone
  <2> QED
    BY <1>2, <1>7, <1>8, <1>9, <1>10, <1>12, <2>1, <2>2 DEF Scoped, Phases
<1> QED
  BY <1>1, <1>11, <1>12

\* A step of the run stores a value in a slot.
Stores(v, slot) ==
  /\ phase = "running" /\ v # Abort
  /\ env' = With(env, Here.name, slot) /\ value' = v
  /\ \/ pc < Len(code) /\ pc' = pc + 1 /\ phase' = "running"
     \/ pc = Len(code) /\ pc' = pc /\ phase' = "finished"
  /\ UNCHANGED <<code, inFunction, types>>

LEMMA StoreIs ==
  ASSUME Scoped, phase = "running", NEW v, NEW slot, Store(v, slot)
  PROVE  Stores(v, slot)
<1>1. pc \in 1 .. Len(code) /\ Len(code) \in Nat
  BY CodeIs DEF Scoped
<1>2. pc < Len(code) \/ pc = Len(code)
  BY <1>1
<1> QED
  BY <1>1, <1>2 DEF Store, Stores

LEMMA UnboxIs ==
  ASSUME NEW b \in {"Int", "Double", "Bool"}, NEW v
  PROVE  Unbox(b, v).t = b /\ (v.t = b => Unbox(b, v) = v)
<1>1. CASE v.t = b
  BY <1>1 DEF Unbox
<1>2. CASE v.t # b
  BY <1>2, ValuesAre DEF Unbox
<1> QED
  BY <1>1, <1>2

LEMMA RunningIs ==
  ASSUME Scoped, phase = "running"
  PROVE  /\ code \in Codes /\ pc \in 1 .. Len(code) /\ Len(code) \in Nat /\ pc \in Nat \ {0}
         /\ IsTree(Here.tree) /\ Okay(code, types, pc) /\ DOMAIN env = Lets(code, pc)
         /\ Analysed(Here.tree, types) /\ Vars(Here.tree) \subseteq DOMAIN env
         /\ Here.name \in DOMAIN types /\ IsType(types[Here.name])
         /\ Here.op = "let" <=> Here.name \notin DOMAIN env
         /\ Here.op \in {"let", "="} \cup Arithmetic
         /\ Compatible(TypeOf(Here.tree, types), types[Here.name])
         /\ DOMAIN env \subseteq DOMAIN types
         /\ Lets(code, pc + 1) = {Here.name} \cup DOMAIN env
<1>1. code \in Codes /\ pc \in 1 .. Len(code) /\ Len(code) \in Nat /\ pc \in Nat \ {0}
  BY CodeIs DEF Scoped
<1>2. /\ Okay(code, types, pc) /\ DOMAIN env = Lets(code, pc) /\ DOMAIN types = Lets(code, Len(code) + 1)
      /\ \A x \in DOMAIN types : IsType(types[x])
  BY <1>1 DEF Scoped
<1>3. IsTree(Here.tree) /\ Here.op \in {"let", "="} \cup Arithmetic
  BY <1>1, CodeIs DEF Here
<1>4. /\ Analysed(Here.tree, types) /\ Vars(Here.tree) \subseteq DOMAIN env
      /\ Here.name \in DOMAIN types /\ (Here.op = "let" <=> Here.name \notin DOMAIN env)
      /\ Compatible(TypeOf(Here.tree, types), types[Here.name])
  BY <1>2 DEF Okay, Here
<1>5. Lets(code, pc) \subseteq Lets(code, Len(code) + 1)
  <2>1. pc \in 1 .. (Len(code) + 1) /\ Len(code) + 1 \in Nat \ {0}
    BY <1>1
  <2> QED
    BY <2>1, LetsAre
<1>6. Lets(code, pc + 1) = IF Here.op = "let" THEN {Here.name} \cup Lets(code, pc) ELSE Lets(code, pc)
  BY <1>1, LetsAre DEF Here
<1> QED
  BY <1>1, <1>2, <1>3, <1>4, <1>5, <1>6

\* It keeps the other slots, and the kind of its own.
LEMMA StoresScoped ==
  ASSUME Scoped, NEW v, NEW slot, Stores(v, slot),
         slot.kind # "box" => /\ inFunction /\ slot.kind \in {"Int", "Double", "Bool"}
                              /\ slot.kind = Base(types[Here.name]) /\ slot.v.t = slot.kind
  PROVE  Scoped'
<1>1. phase = "running" /\ env' = With(env, Here.name, slot) /\ code' = code /\ inFunction' = inFunction /\ types' = types
  BY DEF Stores
<1>2. /\ code \in Codes /\ pc \in 1 .. Len(code) /\ Len(code) \in Nat /\ DOMAIN env = Lets(code, pc)
      /\ Lets(code, pc + 1) = {Here.name} \cup DOMAIN env
  BY <1>1, RunningIs
<1>3. /\ DOMAIN env' = {Here.name} \cup DOMAIN env /\ env'[Here.name] = slot
      /\ \A x \in DOMAIN env : x # Here.name => env'[x] = env[x]
  BY <1>1 DEF With
<1>4. \A x \in DOMAIN env' : SlotOK(x)'
  <2>1. TAKE x \in DOMAIN env'
  <2>2. CASE x = Here.name
    BY <1>1, <1>3, <2>2 DEF SlotOK
  <2>3. CASE x # Here.name
    <3>1. x \in DOMAIN env /\ SlotOK(x) /\ env'[x] = env[x]
      BY <1>3, <2>1, <2>3 DEF Scoped
    <3> QED
      BY <1>1, <3>1 DEF SlotOK
  <2> QED
    BY <2>2, <2>3
<1>5. /\ DOMAIN types = Lets(code, Len(code) + 1) /\ (\A x \in DOMAIN types : IsType(types[x]))
      /\ inFunction \in BOOLEAN /\ \A j \in 1 .. Len(code) : Okay(code, types, j)
  BY <1>1 DEF Scoped
<1>6. CASE pc < Len(code) /\ pc' = pc + 1 /\ phase' = "running"
  <2>1. pc + 1 \in 1 .. Len(code)
    BY <1>2, <1>6
  <2> QED
    BY <1>1, <1>2, <1>3, <1>4, <1>5, <1>6, <2>1 DEF Scoped, Phases
<1>7. CASE pc = Len(code) /\ pc' = pc /\ phase' = "finished"
  BY <1>1, <1>2, <1>3, <1>4, <1>5, <1>7 DEF Scoped, Phases
<1> QED
  BY <1>6, <1>7 DEF Stores

\* Each of the four stores does so.
LEMMA LetRawStores ==
  ASSUME Scoped, LetRaw
  PROVE  /\ Here.op = "let" /\ inFunction /\ Declared \in {"Int", "Double", "Bool"}
         /\ Stores(Computed, Slot(Declared, Unbox(Declared, Computed)))
<1>1. phase = "running" /\ Store(Computed, Slot(Declared, Unbox(Declared, Computed)))
  BY DEF LetRaw
<1> QED
  BY <1>1, StoreIs DEF LetRaw, Unboxes

LEMMA LetBoxedStores ==
  ASSUME Scoped, LetBoxed
  PROVE  /\ Here.op = "let"
         /\ Stores(Computed, Kept(Computed, Coerced(Declared, Computed), Zero(Declared)))
<1>1. phase = "running" /\ Store(Computed, Kept(Computed, Coerced(Declared, Computed), Zero(Declared)))
  BY DEF LetBoxed
<1> QED
  BY <1>1, StoreIs DEF LetBoxed

LEMMA AssignRawStores ==
  ASSUME Scoped, AssignRaw
  PROVE  /\ Here.op # "let" /\ inFunction /\ Here.name \in DOMAIN env /\ Declared \in {"Int", "Double", "Bool"}
         /\ env[Here.name].kind = Declared
         /\ Stores(Computed, Slot(Declared, Unbox(Declared, Computed)))
<1>1. /\ phase = "running" /\ Store(Computed, Slot(Declared, Unbox(Declared, Computed)))
      /\ Here.op # "let" /\ inFunction /\ env[Here.name].kind # "box"
  BY DEF AssignRaw
<1>2. Here.name \in DOMAIN env
  BY <1>1, RunningIs
<1>3. SlotOK(Here.name)
  BY <1>2 DEF Scoped
<1> QED
  BY <1>1, <1>2, <1>3, StoreIs DEF SlotOK, Declared

LEMMA AssignBoxedStores ==
  ASSUME Scoped, AssignBoxed
  PROVE  /\ Here.op # "let" /\ Here.name \in DOMAIN env /\ env[Here.name].kind = "box"
         /\ Stores(Computed, Kept(Computed, Coerced(env[Here.name].v.t, Computed), env[Here.name].v))
<1>1. /\ phase = "running" /\ Here.op # "let" /\ env[Here.name].kind = "box"
      /\ Store(Computed, Kept(Computed, Coerced(env[Here.name].v.t, Computed), env[Here.name].v))
  BY DEF AssignBoxed
<1>2. Here.name \in DOMAIN env
  BY <1>1, RunningIs
<1> QED
  BY <1>1, <1>2, StoreIs

LEMMA NextScoped == Scoped /\ [Next]_vars => Scoped'
<1>1. ASSUME Scoped, Analyse
      PROVE  Scoped'
  BY <1>1, AnalyseScoped
<1>2. ASSUME Scoped, RefuseCode
      PROVE  Scoped'
  BY <1>2 DEF RefuseCode, Scoped, Okay, Phases, SlotOK
<1>3. ASSUME Scoped, LetRaw
      PROVE  Scoped'
  <2>1. /\ inFunction /\ Declared \in {"Int", "Double", "Bool"}
        /\ Stores(Computed, Slot(Declared, Unbox(Declared, Computed)))
    BY <1>3, LetRawStores
  <2>2. Unbox(Declared, Computed).t = Declared
    BY <2>1, UnboxIs
  <2> QED
    BY <1>3, <2>1, <2>2, StoresScoped DEF Slot, Declared
<1>4. ASSUME Scoped, LetBoxed
      PROVE  Scoped'
  <2>1. Stores(Computed, Kept(Computed, Coerced(Declared, Computed), Zero(Declared)))
    BY <1>4, LetBoxedStores
  <2>2. \A a, b, c : Kept(a, b, c).kind = "box"
    BY DEF Kept, Boxed, Slot
  <2> QED
    BY <1>4, <2>1, <2>2, StoresScoped
<1>5. ASSUME Scoped, AssignRaw
      PROVE  Scoped'
  <2>1. /\ inFunction /\ Declared \in {"Int", "Double", "Bool"}
        /\ Stores(Computed, Slot(Declared, Unbox(Declared, Computed)))
    BY <1>5, AssignRawStores
  <2>2. Unbox(Declared, Computed).t = Declared
    BY <2>1, UnboxIs
  <2> QED
    BY <1>5, <2>1, <2>2, StoresScoped DEF Slot, Declared
<1>6. ASSUME Scoped, AssignBoxed
      PROVE  Scoped'
  <2>1. Stores(Computed, Kept(Computed, Coerced(env[Here.name].v.t, Computed), env[Here.name].v))
    BY <1>6, AssignBoxedStores
  <2>2. \A a, b, c : Kept(a, b, c).kind = "box"
    BY DEF Kept, Boxed, Slot
  <2> QED
    BY <1>6, <2>1, <2>2, StoresScoped
<1>7. ASSUME Scoped, End
      PROVE  Scoped'
  BY <1>7 DEF End, Scoped, Okay, Phases, SlotOK
<1>8. ASSUME Scoped, UNCHANGED vars
      PROVE  Scoped'
  BY <1>8 DEF vars, Scoped, Okay, Phases, SlotOK
<1>9. ASSUME Scoped, Done
      PROVE  Scoped'
  BY <1>8, <1>9 DEF Done
<1> QED
  BY <1>1, <1>2, <1>3, <1>4, <1>5, <1>6, <1>7, <1>8, <1>9 DEF Next

\* Every statement that runs names only variables that were declared before it,
\* has the types that the analysis found, and finds each variable in a box or in
\* a slot of its declared type, in every run of any code.
THEOREM ScopedHolds == Spec => []Scoped
<1> QED
  BY InitScoped, NextScoped, PTL DEF Spec

\* A variable that is kept without a box is a number or a truth value of a
\* function, of the type that it was declared with, in every run of any code:
\* what is read without a look at its type is of that type.
THEOREM TypeCorrect == Spec => []TypeOK
<1>1. Scoped => TypeOK
  <2>1. HAVE Scoped
  <2>2. code \in Codes /\ pc \in DOMAIN code
    BY <2>1, CodeIs DEF Scoped
  <2>3. phase = "running" => DOMAIN env \subseteq DOMAIN types
    BY <2>1, RunningIs
  <2> QED
    BY <2>1, <2>2, <2>3 DEF Scoped, TypeOK, Phases, SlotOK
<1> QED
  BY <1>1, ScopedHolds, PTL

\* What accepted code computes does not depend on which of its variables are
\* in boxes, but for minus on a box and the division by zero.
THEOREM BoxingIsTransparentHolds == Spec => []BoxingIsTransparent
<1>1. Scoped => BoxingIsTransparent
  <2>1. SUFFICES ASSUME Scoped, phase = "running",
                        \A k \in DOMAIN Here.tree : ~ ByZero(Here.tree, k) /\ ~ BoxedMinus(Here.tree, k, AllBoxed)
                 PROVE  Build(Here.tree, env) = Build(Here.tree, AllBoxed)
    BY DEF BoxingIsTransparent
  <2>2. IsTree(Here.tree) /\ Vars(Here.tree) \subseteq DOMAIN env
    BY <2>1, RunningIs
  <2>3. \A x \in Vars(Here.tree) : RawOK(env[x]) /\ AllBoxed[x] = Boxed(env[x].v)
    <3>1. TAKE x \in Vars(Here.tree)
    <3>2. x \in DOMAIN env /\ SlotOK(x)
      BY <2>1, <2>2 DEF Scoped
    <3> QED
      BY <3>2 DEF SlotOK, RawOK, AllBoxed
  <2>4. \A k \in DOMAIN Here.tree :
           /\ Here.tree[k].kind = "binary" /\ Here.tree[k].words[1] = "/" =>
                 Unboxed(Here.tree, AllBoxed)[Here.tree[k].kids[2]].v.n # 0
           /\ ~ BoxedMinus(Here.tree, k, AllBoxed)
    BY <2>1 DEF ByZero
  <2>5. Len(Here.tree) \in DOMAIN Here.tree
    BY <2>2, TreeIs
  <2>6. Matches(Unboxed(Here.tree, AllBoxed)[Len(Here.tree)], Unboxed(Here.tree, env)[Len(Here.tree)])
    <3>. DEFINE b == AllBoxed
    <3>1. \A k \in DOMAIN Here.tree : Matches(Unboxed(Here.tree, b)[k], Unboxed(Here.tree, env)[k])
      <4>. HIDE DEF b
      <4>1. \A x \in Vars(Here.tree) : RawOK(env[x]) /\ b[x] = Boxed(env[x].v)
        BY <2>3 DEF b
      <4>2. \A k \in DOMAIN Here.tree :
               /\ Here.tree[k].kind = "binary" /\ Here.tree[k].words[1] = "/" =>
                     Unboxed(Here.tree, b)[Here.tree[k].kids[2]].v.n # 0
               /\ ~ BoxedMinus(Here.tree, k, b)
        BY <2>4 DEF b
      <4> QED
        BY <2>2, <4>1, <4>2, BoxesMatch
    <3> QED
      BY <2>5, <3>1
  <2> QED
    BY <2>6 DEF Build, Matches
<1> QED
  BY <1>1, ScopedHolds, PTL


-----------------------------------------------------------------------------
(* Types as sequences of levels.                                           *)

LEMMA MakeSequence ==
  ASSUME NEW n \in Nat, NEW s, s = [i \in 1 .. n |-> s[i]]
  PROVE  IsSequence(s) /\ Len(s) = n /\ DOMAIN s = 1 .. n
<1>1. DOMAIN s = 1 .. n
  OBVIOUS
<1>2. s \in [1 .. n -> Range(s)]
  BY <1>1 DEF Range
<1>3. s \in Seq(Range(s))
  BY <1>2
<1> QED
  BY <1>1, <1>3 DEF IsSequence

LEMMA TailIs ==
  ASSUME NEW s, IsSequence(s), s # <<>>
  PROVE  /\ IsSequence(Tail(s)) /\ Len(Tail(s)) = Len(s) - 1 /\ DOMAIN Tail(s) = 1 .. (Len(s) - 1)
         /\ \A i \in 1 .. (Len(s) - 1) : Tail(s)[i] = s[i + 1]
<1>1. Tail(s) \in Seq(Range(s)) /\ Len(Tail(s)) = Len(s) - 1 /\ \A i \in 1 .. Len(Tail(s)) : Tail(s)[i] = s[i + 1]
  <2>1. s \in Seq(Range(s))
    BY DEF IsSequence
  <2> QED
    BY <2>1, HeadTailProperties
<1>2. Len(s) - 1 \in Nat
  BY SequenceIs
<1>. DEFINE t == Tail(s)
            n == Len(s) - 1
<1>3. t = [i \in 1 .. n |-> t[i]] /\ Len(t) = n /\ n \in Nat /\ \A i \in 1 .. n : t[i] = s[i + 1]
  <2>1. t \in Seq(Range(s)) /\ Len(t) = n /\ n \in Nat /\ \A i \in 1 .. n : t[i] = s[i + 1]
    BY <1>1, <1>2
  <2>. HIDE DEF t, n
  <2>2. t = [i \in 1 .. Len(t) |-> t[i]]
    BY <2>1
  <2> QED
    BY <2>1, <2>2
<1>. HIDE DEF t, n
<1>4. IsSequence(t) /\ DOMAIN t = 1 .. n
  BY <1>3, MakeSequence
<1> QED
  BY <1>3, <1>4 DEF t, n

LEMMA FromIs ==
  ASSUME NEW s, IsSequence(s), NEW n \in 1 .. Len(s)
  PROVE  /\ IsSequence(From(s, n)) /\ Len(From(s, n)) = Len(s) - n + 1
         /\ \A i \in 1 .. (Len(s) - n + 1) : From(s, n)[i] = s[n + i - 1]
         /\ From(s, 1) = s
         /\ n < Len(s) => Tail(From(s, n)) = From(s, n + 1)
<1>1. Len(s) \in Nat /\ s \in Seq(Range(s)) /\ n \in Nat
  BY SequenceIs DEF IsSequence
<1>2. \A i \in n .. Len(s) : s[i] \in Range(s)
  BY <1>1, SequenceIs DEF Range
<1>3. /\ From(s, n) \in Seq(Range(s)) /\ Len(From(s, n)) = Len(s) - n + 1
      /\ \A i \in 1 .. Len(s) - n + 1 : From(s, n)[i] = s[n + i - 1]
  BY <1>1, <1>2, SubSeqProperties DEF From
<1>4. From(s, n) = [i \in 1 .. (Len(s) - n + 1) |-> From(s, n)[i]] /\ Len(s) - n + 1 \in Nat
  BY <1>1, <1>3
<1>5. From(s, 1) = s
  BY <1>1, SubSeqFull DEF From
<1>6. n < Len(s) => Tail(From(s, n)) = From(s, n + 1)
  BY <1>1, HeadTailOfSubSeq DEF From
<1> QED
  BY <1>3, <1>4, <1>5, <1>6, MakeSequence

LEMMA PrefixedIs ==
  ASSUME NEW x, NEW s, IsSequence(s)
  PROVE  /\ IsSequence(<<x>> \o s) /\ Len(<<x>> \o s) = Len(s) + 1 /\ (<<x>> \o s)[1] = x
         /\ \A i \in 1 .. Len(s) : (<<x>> \o s)[i + 1] = s[i]
         /\ Tail(<<x>> \o s) = s
<1>. DEFINE S == {x} \cup Range(s)
            t == <<x>> \o s
<1>1. <<x>> \in Seq(S) /\ s \in Seq(S) /\ Len(s) \in Nat /\ DOMAIN s = 1 .. Len(s) /\ Len(<<x>>) = 1
  <2>1. s \in Seq(Range(s)) /\ Range(s) \subseteq S
    BY DEF IsSequence
  <2>2. s \in Seq(S)
    BY <2>1, SeqMonotonic
  <2> QED
    BY <2>2, SequenceIs
<1>2. t \in Seq(S) /\ Len(t) = Len(s) + 1 /\ \A i \in 1 .. (Len(s) + 1) : t[i] = IF i <= 1 THEN <<x>>[i] ELSE s[i - 1]
  <2>. HIDE DEF S
  <2> QED
    BY <1>1, ConcatProperties
<1>3. t = [i \in 1 .. (Len(s) + 1) |-> t[i]] /\ Len(s) + 1 \in Nat
  BY <1>1, <1>2
<1>. HIDE DEF t
<1>4. IsSequence(t)
  BY <1>3, MakeSequence
<1>5. t[1] = x /\ \A i \in 1 .. Len(s) : t[i + 1] = s[i]
  BY <1>1, <1>2
<1>6. t # <<>>
  BY <1>1, <1>2, <1>4, SequenceIs
<1>7. Len(Tail(t)) = Len(s) /\ DOMAIN Tail(t) = 1 .. Len(s) /\ IsSequence(Tail(t)) /\ \A i \in 1 .. Len(s) : Tail(t)[i] = s[i]
  BY <1>1, <1>2, <1>4, <1>5, <1>6, TailIs
<1>8. Tail(t) = s
  BY <1>1, <1>7, SequenceIs
<1> QED
  BY <1>2, <1>4, <1>5, <1>8 DEF t

LEMMA TypeIs ==
  ASSUME NEW T, IsType(T)
  PROVE  /\ IsSequence(T) /\ Len(T) \in Nat \ {0} /\ DOMAIN T = 1 .. Len(T)
         /\ Base(T) \in Leaves \cup Holders
         /\ Base(T) \in Leaves <=> Len(T) = 1
         /\ Base(T) \in Holders => /\ Len(T) > 1 /\ IsType(Inner(T)) /\ Len(Inner(T)) = Len(T) - 1
                                   /\ \A i \in 1 .. (Len(T) - 1) : Inner(T)[i] = T[i + 1]
         /\ Base(T) = "Dict" => IsSequence(Keys(T)) /\ Keys(T) # <<>>
<1>1. /\ IsSequence(T) /\ T # <<>>
      /\ \A i \in DOMAIN T : /\ T[i].base \in (IF i = Len(T) THEN Leaves ELSE Holders)
                             /\ T[i].base = "Dict" => IsSequence(T[i].of) /\ T[i].of # <<>>
  BY DEF IsType
<1>2. Len(T) \in Nat \ {0} /\ DOMAIN T = 1 .. Len(T) /\ 1 \in DOMAIN T
  BY <1>1, SequenceIs
<1>3. Leaves \cap Holders = {}
  BY DEF Leaves, Holders
<1>4. /\ Base(T) \in Leaves \cup Holders
      /\ Base(T) \in Leaves <=> Len(T) = 1
      /\ Base(T) = "Dict" => IsSequence(Keys(T)) /\ Keys(T) # <<>>
  BY <1>1, <1>2, <1>3 DEF Base, Keys
<1>5. ASSUME Base(T) \in Holders
      PROVE  /\ Len(T) > 1 /\ IsType(Inner(T)) /\ Len(Inner(T)) = Len(T) - 1
             /\ \A i \in 1 .. (Len(T) - 1) : Inner(T)[i] = T[i + 1]
  <2>1. Len(T) > 1
    BY <1>2, <1>3, <1>4, <1>5
  <2>2. /\ IsSequence(Inner(T)) /\ Len(Inner(T)) = Len(T) - 1 /\ DOMAIN Inner(T) = 1 .. (Len(T) - 1)
        /\ \A i \in 1 .. (Len(T) - 1) : Inner(T)[i] = T[i + 1]
    BY <1>1, TailIs DEF Inner
  <2>3. Inner(T) # <<>>
    BY <1>2, <2>1, <2>2, SequenceIs
  <2>4. ASSUME NEW i \in DOMAIN Inner(T)
        PROVE  /\ Inner(T)[i].base \in (IF i = Len(Inner(T)) THEN Leaves ELSE Holders)
               /\ Inner(T)[i].base = "Dict" => IsSequence(Inner(T)[i].of) /\ Inner(T)[i].of # <<>>
    <3>1. i + 1 \in DOMAIN T /\ Inner(T)[i] = T[i + 1] /\ (i = Len(Inner(T)) <=> i + 1 = Len(T))
      BY <1>2, <2>2
    <3> QED
      BY <1>1, <3>1
  <2> QED
    BY <2>1, <2>2, <2>3, <2>4 DEF IsType
<1> QED
  BY <1>1, <1>2, <1>4, <1>5

\* The types that are made of others.
LEMMA PrimitiveIs ==
  ASSUME NEW b
  PROVE  /\ IsSequence(Primitive(b)) /\ Len(Primitive(b)) = 1 /\ Primitive(b) # <<>>
         /\ Base(Primitive(b)) = b /\ Primitive(b)[1] = Level(b, <<>>)
         /\ b \in Leaves => IsType(Primitive(b))
<1>. DEFINE T == Primitive(b)
<1>1. T = <<Level(b, <<>>)>> /\ T[1] = Level(b, <<>>) /\ Len(T) = 1 /\ T # <<>>
  BY DEF Primitive
<1>2. T = [i \in 1 .. 1 |-> T[i]]
  BY <1>1
<1>3. IsSequence(T) /\ DOMAIN T = 1 .. 1
  BY <1>1, <1>2, MakeSequence
<1>. HIDE DEF T
<1>4. Base(T) = b
  BY <1>1 DEF Base, Level
<1>5. b \in Leaves => IsType(T)
  BY <1>1, <1>3 DEF IsType, Level, Leaves
<1> QED
  BY <1>1, <1>3, <1>4, <1>5 DEF T

LEMMA HolderIs ==
  ASSUME NEW T, IsType(T), NEW b \in Holders, NEW of, b = "Dict" => IsSequence(of) /\ of # <<>>
  PROVE  LET U == <<Level(b, of)>> \o T
         IN  IsType(U) /\ Base(U) = b /\ Inner(U) = T /\ U[1] = Level(b, of)
<1>. DEFINE U == <<Level(b, of)>> \o T
<1>1. IsSequence(T) /\ Len(T) \in Nat \ {0} /\ DOMAIN T = 1 .. Len(T)
  BY TypeIs
<1>2. /\ IsSequence(U) /\ Len(U) = Len(T) + 1 /\ U[1] = Level(b, of) /\ Tail(U) = T
      /\ \A i \in 1 .. Len(T) : U[i + 1] = T[i]
  BY <1>1, PrefixedIs
<1>. HIDE DEF U
<1>3. U # <<>> /\ DOMAIN U = 1 .. Len(U)
  BY <1>1, <1>2, SequenceIs
<1>4. ASSUME NEW i \in DOMAIN U
      PROVE  /\ U[i].base \in (IF i = Len(U) THEN Leaves ELSE Holders)
             /\ U[i].base = "Dict" => IsSequence(U[i].of) /\ U[i].of # <<>>
  <2>1. CASE i = 1
    BY <1>1, <1>2, <2>1 DEF Level
  <2>2. CASE i # 1
    <3>1. i - 1 \in DOMAIN T /\ U[i] = T[i - 1] /\ (i = Len(U) <=> i - 1 = Len(T))
      BY <1>1, <1>2, <1>3, <2>2
    <3> QED
      BY <3>1 DEF IsType
  <2> QED
    BY <2>1, <2>2
<1>5. IsType(U)
  BY <1>2, <1>3, <1>4 DEF IsType
<1> QED
  BY <1>2, <1>5 DEF U, Base, Inner, Level

LEMMA ArrayOfIs ==
  ASSUME NEW T, IsType(T)
  PROVE  IsType(ArrayOf(T)) /\ Base(ArrayOf(T)) = "Array" /\ Inner(ArrayOf(T)) = T
BY HolderIs DEF ArrayOf, Holders

LEMMA DictOfIs ==
  ASSUME NEW K, IsType(K), NEW T, IsType(T)
  PROVE  IsType(DictOf(K, T)) /\ Base(DictOf(K, T)) = "Dict" /\ Inner(DictOf(K, T)) = T /\ Keys(DictOf(K, T)) = K
<1>1. IsSequence(K) /\ K # <<>>
  BY DEF IsType
<1> QED
  BY <1>1, HolderIs DEF DictOf, Holders, Keys, Level

LEMMA StructOfIs ==
  ASSUME NEW w, NEW ts
  PROVE  IsType(StructOf(w, ts)) /\ Base(StructOf(w, ts)) = "Struct" /\ NameOf(StructOf(w, ts)[1]) = w[1]
<1>. DEFINE T == StructOf(w, ts)
<1>1. T = <<Level("Struct", <<w, ts>>)>> /\ T[1] = Level("Struct", <<w, ts>>) /\ Len(T) = 1 /\ T # <<>>
  BY DEF StructOf
<1>2. T = [i \in 1 .. 1 |-> T[i]]
  BY <1>1
<1>3. IsSequence(T) /\ DOMAIN T = 1 .. 1
  BY <1>1, <1>2, MakeSequence
<1>. HIDE DEF T
<1>4. Base(T) = "Struct" /\ NameOf(T[1]) = w[1]
  BY <1>1 DEF Base, Level, NameOf
<1>5. IsType(T)
  BY <1>1, <1>3 DEF IsType, Level, Leaves
<1> QED
  BY <1>4, <1>5 DEF T

LEMMA UnknownIs ==
  IsType(Unknown) /\ Base(Unknown) = "Nil" /\ Len(Unknown) = 1 /\ IsType(DictOf(Unknown, Unknown)) /\ None # Unknown
<1>1. IsType(Unknown) /\ Base(Unknown) = "Nil" /\ Len(Unknown) = 1
  BY PrimitiveIs DEF Unknown, Leaves
<1>2. Base(None) = "none"
  BY PrimitiveIs DEF None
<1> QED
  BY <1>1, <1>2, DictOfIs

\* What the analysis gives to a node is a type,
LEMMA BinaryTypeIs ==
  ASSUME NEW op, NEW l, NEW r, BinaryType(op, l, r) # None, IsType(l), IsType(r)
  PROVE  IsType(BinaryType(op, l, r))
<1>1. IsType(Primitive("Bool"))
  BY PrimitiveIs DEF Leaves
<1> QED
  BY <1>1 DEF BinaryType

LEMMA IndexTypeIs ==
  ASSUME NEW t, NEW i, IndexType(t, i) # None, IsType(t)
  PROVE  IsType(IndexType(t, i))
<1>1. Base(t) \in {"Dict", "Array"} => IsType(Inner(t))
  BY TypeIs DEF Holders
<1> QED
  BY <1>1 DEF IndexType

LEMMA MemberTypeIs ==
  ASSUME NEW t, NEW m, MemberType(t, m) # None, IsType(t)
  PROVE  IsType(MemberType(t, m))
<1>1. Base(t) = "Dict" => IsType(Inner(t))
  BY TypeIs DEF Holders
<1>2. IsType(Primitive("Int")) /\ IsType(Unknown)
  BY PrimitiveIs, UnknownIs DEF Leaves
<1>3. \A s : m \in Fields(s) => IsType(Structs[s][m])
  BY StructsAssumption DEF Fields
<1> QED
  BY <1>1, <1>2, <1>3 DEF MemberType

LEMMA LiteralTypeIs ==
  ASSUME NEW w \in {"nil", "true", "false"} \cup DOMAIN Meaning
  PROVE  IsType(LiteralType(w))
<1>1. IsType(Unknown) /\ IsType(Primitive("Bool")) /\ IsType(Primitive("Int")) /\ IsType(Primitive("Double"))
  BY PrimitiveIs, UnknownIs DEF Leaves
<1>2. w \in DOMAIN Meaning => Meaning[w].t \in {"Int", "Double"}
  BY MeaningAssumption DEF Numeric
<1> QED
  BY <1>1, <1>2 DEF LiteralType

\* if the parts have types.
LEMMA NodeTypeIs ==
  ASSUME NEW nd, NEW tt, NEW vtypes, NEW n \in Nat,
         \A x \in DOMAIN vtypes : IsType(vtypes[x]),
         DOMAIN tt = 1 .. n, IsSequence(tt), \A j \in 1 .. n : IsType(tt[j]),
         nd.kind \in {"binary", "index"} => n = 2,
         nd.kind \in {"unary", "member"} => n = 1,
         nd.kind = "dict" => n % 2 = 0,
         nd.kind = "literal" => nd.words[1] \in {"nil", "true", "false"} \cup DOMAIN Meaning,
         NodeType(nd, tt, vtypes) # None
  PROVE  IsType(NodeType(nd, tt, vtypes))
<1>1. CASE nd.kind = "literal"
  BY <1>1, LiteralTypeIs DEF NodeType
<1>2. CASE nd.kind = "string"
  BY <1>2, PrimitiveIs DEF NodeType, Leaves
<1>3. CASE nd.kind = "var"
  BY <1>3 DEF NodeType
<1>4. CASE nd.kind = "binary"
  <2>1. NodeType(nd, tt, vtypes) = BinaryType(nd.words[1], tt[1], tt[2])
    BY <1>4 DEF NodeType
  <2> QED
    BY <1>4, <2>1, BinaryTypeIs
<1>5. CASE nd.kind = "unary"
  <2>1. NodeType(nd, tt, vtypes) = UnaryType(nd.words[1], tt[1])
    BY <1>5 DEF NodeType
  <2> QED
    BY <1>5, <2>1 DEF UnaryType
<1>6. CASE nd.kind = "array"
  <2>1. NodeType(nd, tt, vtypes) = ArrayType(tt)
    BY <1>6 DEF NodeType
  <2>2. CASE tt = <<>>
    BY <2>1, <2>2, ArrayOfIs, UnknownIs DEF ArrayType
  <2>3. CASE tt # <<>>
    <3>1. IsType(tt[1])
      BY <2>3, SequenceIs
    <3> QED
      BY <2>1, <2>3, <3>1, ArrayOfIs DEF ArrayType
  <2> QED
    BY <2>2, <2>3
<1>7. CASE nd.kind = "dict"
  <2>1. NodeType(nd, tt, vtypes) = DictType(tt)
    BY <1>7 DEF NodeType
  <2>2. CASE tt = <<>>
    BY <2>1, <2>2, UnknownIs DEF DictType
  <2>3. CASE tt # <<>>
    <3>1. n # 0
      BY <2>3, SequenceIs
    <3>2. IsType(tt[1]) /\ IsType(tt[2])
      BY <1>7, <3>1
    <3> QED
      BY <2>1, <2>3, <3>2, DictOfIs DEF DictType
  <2> QED
    BY <2>2, <2>3
<1>8. CASE nd.kind = "index"
  <2>1. NodeType(nd, tt, vtypes) = IndexType(tt[1], tt[2])
    BY <1>8 DEF NodeType
  <2> QED
    BY <1>8, <2>1, IndexTypeIs
<1>9. CASE nd.kind = "member"
  <2>1. NodeType(nd, tt, vtypes) = MemberType(tt[1], nd.words[2])
    BY <1>9 DEF NodeType
  <2> QED
    BY <1>9, <2>1, MemberTypeIs
<1>10. CASE nd.kind = "call"
  <2>1. NodeType(nd, tt, vtypes) = IF nd.words[1] = "str" THEN Primitive("String")
                                     ELSE IF nd.words[1] \in DOMAIN Functions1 THEN Functions1[nd.words[1]].type ELSE None
    BY <1>10 DEF NodeType
  <2>2. nd.words[1] \in DOMAIN Functions1 => IsType(Functions1[nd.words[1]].type)
    BY FunctionsAssumption, PrimitiveIs DEF Leaves
  <2>3. IsType(Primitive("String"))
    BY PrimitiveIs DEF Leaves
  <2> QED
    BY <2>1, <2>2, <2>3
<1>11. CASE nd.kind = "method_call"
  BY <1>11, UnknownIs DEF NodeType
<1>12. CASE nd.kind = "struct_literal"
  BY <1>12, StructOfIs DEF NodeType
<1>13. nd.kind \in {"literal", "string", "var", "binary", "unary", "array", "dict", "index", "member", "call",
                      "method_call", "struct_literal"}
  BY DEF NodeType
<1> QED
  BY <1>1, <1>2, <1>3, <1>4, <1>5, <1>6, <1>7, <1>8, <1>9, <1>10, <1>11, <1>12, <1>13

\* So all nodes of an analysed expression have types.
LEMMA TypesAre ==
  ASSUME NEW tree, IsTree(tree), NEW vtypes, \A x \in DOMAIN vtypes : IsType(vtypes[x]), Analysed(tree, vtypes)
  PROVE  \A k \in DOMAIN tree : IsType(TypesOf(tree, vtypes)[k])
<1>. DEFINE A == {k \in DOMAIN tree : IsType(TypesOf(tree, vtypes)[k])}
            n == Len(tree)
<1>1. n \in Nat /\ DOMAIN tree = 1 .. n
  BY TreeIs
<1>2. ASSUME NEW k \in 1 .. n, 1 .. (k - 1) \subseteq A
      PROVE  k \in A
  <2>1. k \in DOMAIN tree /\ \A j \in DOMAIN tree[k].kids : IsType(TypesOf(tree, vtypes)[tree[k].kids[j]])
    BY <1>1, <1>2, TreeIs
  <2>2. /\ TypesOf(tree, vtypes)[k] = NodeType(tree[k], OfParts(tree[k], TypesOf(tree, vtypes)), vtypes)
        /\ TypesOf(tree, vtypes)[k] # None
    BY <2>1, TypesOfIs DEF Analysed
  <2>. DEFINE tt == OfParts(tree[k], TypesOf(tree, vtypes))
              m  == Len(tree[k].kids)
  <2>3. m \in Nat /\ DOMAIN tree[k].kids = 1 .. m /\ m \in Arity(tree[k])
    BY <2>1, TreeIs DEF IsTree
  <2>4. DOMAIN tt = 1 .. m /\ IsSequence(tt) /\ \A j \in 1 .. m : IsType(tt[j])
    BY <2>1, <2>3, PartsAre
  <2>5. tree[k].kind = "literal" => tree[k].words[1] \in {"nil", "true", "false"} \cup DOMAIN Meaning
    BY <2>1 DEF IsTree
  <2>. HIDE DEF tt, m
  <2>6. /\ tree[k].kind \in {"binary", "index"} => m = 2
        /\ tree[k].kind \in {"unary", "member"} => m = 1
        /\ tree[k].kind = "dict" => m % 2 = 0
    BY <2>3 DEF Arity
  <2>7. IsType(NodeType(tree[k], tt, vtypes))
    BY <2>2, <2>3, <2>4, <2>5, <2>6, NodeTypeIs DEF tt
  <2> QED
    BY <2>1, <2>2, <2>7 DEF tt
<1>3. 1 .. n \subseteq A
  <2>. HIDE DEF A, n
  <2> QED
    BY <1>1, <1>2, Climb
<1> QED
  BY <1>1, <1>3

-----------------------------------------------------------------------------
(* Values of a type, by what they are made of: some relation between       *)
(* values and types holds of a value, and of what it holds with it.        *)

LEMMA PairsAre ==
  ASSUME NEW s, IsSequence(s), Len(s) % 2 = 0
  PROVE  /\ \A u : u \in Range(Evens(s)) <=> \E j \in DOMAIN s : j % 2 = 0 /\ s[j] = u
         /\ \A u : u \in Range(Odds(s)) <=> \E j \in DOMAIN s : j % 2 = 1 /\ s[j] = u
<1>. DEFINE n == Len(s)
            h == Len(s) \div 2
<1>1. n \in Nat /\ DOMAIN s = 1 .. n /\ h \in Nat /\ n = 2 * h
  BY SequenceIs
<1>2. /\ \A u : u \in Range(Evens(s)) <=> \E j \in 1 .. h : s[2 * j] = u
      /\ \A u : u \in Range(Odds(s)) <=> \E j \in 1 .. h : s[2 * j - 1] = u
  BY DEF Range, Evens, Odds
<1>. HIDE DEF n, h
<1>3. ASSUME NEW j \in 1 .. h
      PROVE  2 * j \in 1 .. n /\ (2 * j) % 2 = 0 /\ 2 * j - 1 \in 1 .. n /\ (2 * j - 1) % 2 = 1
  BY <1>1
<1>4. ASSUME NEW j \in 1 .. n
      PROVE  /\ j % 2 = 0 => j \div 2 \in 1 .. h /\ j = 2 * (j \div 2)
             /\ j % 2 = 1 => (j + 1) \div 2 \in 1 .. h /\ j = 2 * ((j + 1) \div 2) - 1
  BY <1>1
<1>5. \A u : (\E j \in 1 .. h : s[2 * j] = u) <=> \E j \in 1 .. n : j % 2 = 0 /\ s[j] = u
  BY <1>3, <1>4
<1>6. \A u : (\E j \in 1 .. h : s[2 * j - 1] = u) <=> \E j \in 1 .. n : j % 2 = 1 /\ s[j] = u
  BY <1>3, <1>4
<1> QED
  BY <1>1, <1>2, <1>5, <1>6

\* What a value must be by itself: an array or a dictionary of the unknown type is empty, and keys are texts.
Local(v, T) ==
  /\ IsValue(v) /\ IsSequence(v.kids) /\ Fits(v, T[1])
  /\ Base(T) \in {"Array", "Dict"} /\ Inner(T) = Unknown => v.kids = <<>>
  /\ Base(T) = "Dict" => Len(v.kids) % 2 = 0 /\ \A key \in Range(Odds(v.kids)) : key.t = "String"

\* What it holds, with the types of that.
Parts(v, T) ==
  IF Base(T) = "Struct"
  THEN {<<v.kids[j], Structs[NameOf(T[1])][v.names[j + 1]]>> :
           j \in {i \in DOMAIN v.kids : v.names[i + 1] \in Fields(NameOf(T[1]))}}
  ELSE {<<u, Inner(T)>> : u \in Held(v, T[1])}

Closed(R) == \A p \in R : Local(p[1], p[2]) /\ Parts(p[1], p[2]) \subseteq R
Typed(v, T) == \E R : <<v, T>> \in R /\ Closed(R)

LEMMA PartsArePairs ==
  ASSUME NEW v, NEW T, NEW p \in Parts(v, T)
  PROVE  p = <<p[1], p[2]>>
BY DEF Parts

LEMMA Unfold ==
  ASSUME NEW v, NEW T, Typed(v, T)
  PROVE  Local(v, T) /\ \A u, W : <<u, W>> \in Parts(v, T) => Typed(u, W)
<1>1. PICK R : <<v, T>> \in R /\ Closed(R)
  BY DEF Typed
<1>2. Local(v, T) /\ Parts(v, T) \subseteq R
  BY <1>1 DEF Closed
<1> QED
  BY <1>1, <1>2 DEF Typed

LEMMA Fold ==
  ASSUME NEW v, NEW T, Local(v, T), \A u, W : <<u, W>> \in Parts(v, T) => Typed(u, W)
  PROVE  Typed(v, T)
<1>. DEFINE Rel(p) == CHOOSE R : p \in R /\ Closed(R)
            All == {<<v, T>>} \cup UNION {Rel(p) : p \in Parts(v, T)}
<1>1. ASSUME NEW p \in Parts(v, T)
      PROVE  p \in Rel(p) /\ Closed(Rel(p))
  <2>1. p = <<p[1], p[2]>>
    BY PartsArePairs
  <2>2. Typed(p[1], p[2])
    BY <2>1
  <2>3. \E R : p \in R /\ Closed(R)
    BY <2>1, <2>2 DEF Typed
  <2> QED
    BY <2>3
<1>. HIDE DEF Rel
<1>2. Parts(v, T) \subseteq All
  BY <1>1
<1>3. ASSUME NEW p \in All
      PROVE  Local(p[1], p[2]) /\ Parts(p[1], p[2]) \subseteq All
  <2>1. CASE p = <<v, T>>
    BY <1>2, <2>1
  <2>2. CASE \E q \in Parts(v, T) : p \in Rel(q)
    <3>1. PICK q \in Parts(v, T) : p \in Rel(q)
      BY <2>2
    <3>2. Local(p[1], p[2]) /\ Parts(p[1], p[2]) \subseteq Rel(q)
      BY <1>1, <3>1 DEF Closed
    <3> QED
      BY <3>1, <3>2
  <2> QED
    BY <2>1, <2>2
<1>4. <<v, T>> \in All /\ Closed(All)
  BY <1>3 DEF Closed
<1> QED
  BY <1>4 DEF Typed

\* What there is to know of a value of a type, by the base of the type.
LEMMA TypedIs ==
  ASSUME NEW v, NEW T, Typed(v, T), IsType(T)
  PROVE  /\ IsValue(v) /\ IsSequence(v.kids) /\ Fits(v, T[1])
         /\ v.t = Base(T) \/ Base(T) = "Optional"
         /\ Base(T) \in {"Array", "Dict"} /\ Inner(T) = Unknown => v.kids = <<>>
         /\ Base(T) = "Array" => \A j \in DOMAIN v.kids : Typed(v.kids[j], Inner(T))
         /\ Base(T) = "Dict" => /\ Len(v.kids) % 2 = 0
                                /\ \A j \in DOMAIN v.kids : /\ j % 2 = 1 => v.kids[j].t = "String" /\ KeyFits(v.kids[j], Keys(T))
                                                            /\ j % 2 = 0 => Typed(v.kids[j], Inner(T))
         /\ Base(T) = "Optional" => /\ v.t = "Optional" => \A j \in DOMAIN v.kids : Typed(v.kids[j], Inner(T))
                                    /\ v.t \notin {"Optional", "Nil"} => Typed(v, Inner(T))
         /\ Base(T) = "Struct" => /\ v.names[1] = NameOf(T[1])
                                  /\ \A j \in DOMAIN v.kids : v.names[j + 1] \in Fields(NameOf(T[1])) =>
                                        Typed(v.kids[j], Structs[NameOf(T[1])][v.names[j + 1]])
<1>1. Local(v, T) /\ \A u, W : <<u, W>> \in Parts(v, T) => Typed(u, W)
  BY Unfold
<1>2. IsValue(v) /\ IsSequence(v.kids) /\ Fits(v, T[1]) /\ (Base(T) \in {"Array", "Dict"} /\ Inner(T) = Unknown => v.kids = <<>>)
  BY <1>1 DEF Local
<1>3. v.t = Base(T) \/ Base(T) = "Optional"
  BY <1>2 DEF Fits, Base
<1>4. Base(T) # "Struct" => \A u \in Held(v, T[1]) : Typed(u, Inner(T))
  BY <1>1 DEF Parts
<1>5. CASE Base(T) = "Array"
  <2>1. Held(v, T[1]) = Range(v.kids)
    BY <1>5 DEF Held, Base
  <2> QED
    BY <1>2, <1>3, <1>4, <1>5, <2>1 DEF Range
<1>6. CASE Base(T) = "Dict"
  <2>1. Held(v, T[1]) = Range(Evens(v.kids)) /\ \A key \in Range(Odds(v.kids)) : KeyFits(key, Keys(T))
    BY <1>2, <1>6 DEF Held, Base, Fits, Keys
  <2>2. Len(v.kids) % 2 = 0 /\ \A key \in Range(Odds(v.kids)) : key.t = "String"
    BY <1>1, <1>6 DEF Local
  <2>3. \A j \in DOMAIN v.kids : /\ j % 2 = 1 => v.kids[j] \in Range(Odds(v.kids))
                                 /\ j % 2 = 0 => v.kids[j] \in Range(Evens(v.kids))
    BY <1>2, <2>2, PairsAre
  <2> QED
    BY <1>2, <1>3, <1>4, <1>6, <2>1, <2>2, <2>3
<1>7. CASE Base(T) = "Optional"
  <2>1. Held(v, T[1]) = IF v.t = "Optional" THEN Range(v.kids) ELSE IF v.t = "Nil" THEN {} ELSE {v}
    BY <1>7 DEF Held, Base
  <2> QED
    BY <1>2, <1>4, <1>7, <2>1 DEF Range
<1>8. CASE Base(T) = "Struct"
  <2>1. v.names[1] = NameOf(T[1])
    BY <1>2, <1>8 DEF Fits, Base
  <2>2. \A j \in DOMAIN v.kids : v.names[j + 1] \in Fields(NameOf(T[1])) =>
           <<v.kids[j], Structs[NameOf(T[1])][v.names[j + 1]]>> \in Parts(v, T)
    BY <1>8 DEF Parts
  <2> QED
    BY <1>1, <1>2, <1>3, <1>8, <2>1, <2>2
<1>9. CASE Base(T) \notin {"Array", "Dict", "Optional", "Struct"}
  BY <1>2, <1>3, <1>9
<1> QED
  BY <1>5, <1>6, <1>7, <1>8, <1>9

\* Ways to be of a type: numbers, truth values and texts,
LEMMA EmptyIs == IsSequence(<<>>)
<1>. DEFINE s == <<>>
<1>1. s = [i \in 1 .. 0 |-> s[i]]
  OBVIOUS
<1> QED
  BY <1>1, MakeSequence

LEMMA ScalarTyped ==
  ASSUME NEW v, NEW T, IsValue(v), IsSequence(v.kids), v.t = Base(T), Base(T) \in {"Nil", "Int", "Double", "Bool", "String"}
  PROVE  Typed(v, T)
<1>1. Fits(v, T[1]) /\ Held(v, T[1]) = {}
  BY DEF Fits, Held, Base
<1>2. Local(v, T)
  BY <1>1 DEF Local
<1>3. Parts(v, T) = {}
  BY <1>1 DEF Parts
<1> QED
  BY <1>2, <1>3, Fold

LEMMA MadeTyped ==
  /\ \A n, T : Base(T) = "Int" => Typed(IntV(n), T)
  /\ \A b, T : Base(T) = "Bool" => Typed(BoolV(b), T)
  /\ \A w, T : Base(T) = "String" => Typed(TextV(w), T)
  /\ \A n, d, T : Base(T) = "Double" => Typed(DoubleV(n, d), T)
  /\ \A T : Base(T) = "Nil" => Typed(NilValue, T)
<1>1. /\ \A n : IntV(n).kids = <<>>
      /\ \A b : BoolV(b).kids = <<>>
      /\ \A w : TextV(w).kids = <<>>
      /\ \A n, d : DoubleV(n, d).kids = <<>>
      /\ NilValue.kids = <<>>
  BY DEF IntV, BoolV, TextV, DoubleV, NilValue, Val
<1>2. \A n, T : Base(T) = "Int" => Typed(IntV(n), T)
  BY <1>1, EmptyIs, ValuesAre, ScalarTyped
<1>3. \A b, T : Base(T) = "Bool" => Typed(BoolV(b), T)
  BY <1>1, EmptyIs, ValuesAre, ScalarTyped
<1>4. \A w, T : Base(T) = "String" => Typed(TextV(w), T)
  BY <1>1, EmptyIs, ValuesAre, ScalarTyped
<1>5. \A n, d, T : Base(T) = "Double" => Typed(DoubleV(n, d), T)
  BY <1>1, EmptyIs, ValuesAre, ScalarTyped
<1>6. \A T : Base(T) = "Nil" => Typed(NilValue, T)
  BY <1>1, EmptyIs, ValuesAre, ScalarTyped
<1> QED
  BY <1>2, <1>3, <1>4, <1>5, <1>6

\* arrays,
LEMMA ArrayTyped ==
  ASSUME NEW v, NEW T, IsValue(v), IsSequence(v.kids), v.t = "Array", Base(T) = "Array",
         Inner(T) = Unknown => v.kids = <<>>, \A j \in DOMAIN v.kids : Typed(v.kids[j], Inner(T))
  PROVE  Typed(v, T)
<1>1. Fits(v, T[1]) /\ Held(v, T[1]) = Range(v.kids)
  BY DEF Fits, Held, Base
<1>2. Local(v, T)
  BY <1>1 DEF Local
<1>3. \A u, W : <<u, W>> \in Parts(v, T) => W = Inner(T) /\ \E j \in DOMAIN v.kids : u = v.kids[j]
  BY <1>1 DEF Parts, Range
<1> QED
  BY <1>2, <1>3, Fold

\* dictionaries,
LEMMA DictTyped ==
  ASSUME NEW v, NEW T, IsValue(v), IsSequence(v.kids), Len(v.kids) % 2 = 0, v.t = "Dict", Base(T) = "Dict",
         Inner(T) = Unknown => v.kids = <<>>,
         \A j \in DOMAIN v.kids : /\ j % 2 = 1 => v.kids[j].t = "String" /\ KeyFits(v.kids[j], Keys(T))
                                  /\ j % 2 = 0 => Typed(v.kids[j], Inner(T))
  PROVE  Typed(v, T)
<1>6. /\ \A u : u \in Range(Evens(v.kids)) <=> \E j \in DOMAIN v.kids : j % 2 = 0 /\ v.kids[j] = u
      /\ \A u : u \in Range(Odds(v.kids)) <=> \E j \in DOMAIN v.kids : j % 2 = 1 /\ v.kids[j] = u
  BY PairsAre
<1>1. \A key \in Range(Odds(v.kids)) : key.t = "String" /\ KeyFits(key, Keys(T))
  BY <1>6
<1>2. Fits(v, T[1]) /\ Held(v, T[1]) = Range(Evens(v.kids))
  BY <1>1 DEF Fits, Held, Base, Keys
<1>3. Local(v, T)
  BY <1>1, <1>2 DEF Local
<1>4. \A u, W : <<u, W>> \in Parts(v, T) => W = Inner(T) /\ u \in Range(Evens(v.kids))
  BY <1>2 DEF Parts
<1>5. \A u \in Range(Evens(v.kids)) : Typed(u, Inner(T))
  BY <1>6
<1> QED
  BY <1>3, <1>4, <1>5, Fold

\* optionals, or nil, or what they wrap,
LEMMA OptionalTyped ==
  ASSUME NEW v, NEW T, IsValue(v), IsSequence(v.kids), Base(T) = "Optional",
         v.t = "Optional" => \A j \in DOMAIN v.kids : Typed(v.kids[j], Inner(T)),
         v.t \notin {"Optional", "Nil"} => Typed(v, Inner(T))
  PROVE  Typed(v, T)
<1>1. Held(v, T[1]) = IF v.t = "Optional" THEN Range(v.kids) ELSE IF v.t = "Nil" THEN {} ELSE {v}
  BY DEF Held, Base
<1>2. Local(v, T)
  <2>1. Fits(v, T[1])
    BY DEF Fits, Base
  <2>2. Base(T) \notin {"Array", "Dict"}
    OBVIOUS
  <2> QED
    BY <2>1, <2>2 DEF Local
<1>3. \A u, W : <<u, W>> \in Parts(v, T) => W = Inner(T) /\ u \in Held(v, T[1])
  BY DEF Parts
<1>4. \A u \in Held(v, T[1]) : Typed(u, Inner(T))
  BY <1>1 DEF Range
<1> QED
  BY <1>2, <1>3, <1>4, Fold

\* and structs.
LEMMA StructTyped ==
  ASSUME NEW v, NEW T, IsValue(v), IsSequence(v.kids), v.t = "Struct", Base(T) = "Struct", v.names[1] = NameOf(T[1]),
         \A j \in DOMAIN v.kids : v.names[j + 1] \in Fields(NameOf(T[1])) =>
            Typed(v.kids[j], Structs[NameOf(T[1])][v.names[j + 1]])
  PROVE  Typed(v, T)
<1>1. Fits(v, T[1])
  BY DEF Fits, Base
<1>2. Local(v, T)
  BY <1>1 DEF Local
<1>3. \A u, W : <<u, W>> \in Parts(v, T) =>
         \E j \in DOMAIN v.kids : /\ v.names[j + 1] \in Fields(NameOf(T[1])) /\ u = v.kids[j]
                                  /\ W = Structs[NameOf(T[1])][v.names[j + 1]]
  BY DEF Parts
<1> QED
  BY <1>2, <1>3, Fold

\* A value of a type is of every type that is compatible with it.  First, an optional of an optional,
LEMMA WrapTyped ==
  ASSUME NEW v, NEW W, IsType(W), NEW T, Base(T) = "Optional", Inner(T) = W, Typed(v, W)
  PROVE  Typed(v, T)
<1>. DEFINE A == {m \in 1 .. Len(W) : \A u, X, Y : IsType(X) /\ Len(X) = m /\ Base(Y) = "Optional" /\ Inner(Y) = X /\ Typed(u, X) => Typed(u, Y)}
            n == Len(W)
<1>1. n \in Nat \ {0}
  BY TypeIs
<1>2. ASSUME NEW m \in 1 .. n, 1 .. (m - 1) \subseteq A
      PROVE  m \in A
  <2>1. ASSUME NEW u, NEW X, NEW Y, IsType(X), Len(X) = m, Base(Y) = "Optional", Inner(Y) = X, Typed(u, X)
        PROVE  Typed(u, Y)
    <3>1. IsValue(u) /\ IsSequence(u.kids) /\ (u.t = Base(X) \/ Base(X) = "Optional")
      BY <2>1, TypedIs
    <3>2. ASSUME u.t = "Optional"
          PROVE  \A j \in DOMAIN u.kids : Typed(u.kids[j], X)
      <4>1. Base(X) = "Optional" /\ IsType(Inner(X)) /\ Len(Inner(X)) = m - 1 /\ Len(X) > 1
        BY <2>1, <3>1, <3>2, TypeIs DEF Holders
      <4>2. \A j \in DOMAIN u.kids : Typed(u.kids[j], Inner(X))
        BY <2>1, <3>2, <4>1, TypedIs
      <4>3. m - 1 \in A
        BY <1>2, <2>1, <4>1
      <4>4. \A w : Typed(w, Inner(X)) => Typed(w, X)
        BY <4>1, <4>3
      <4> QED
        BY <4>2, <4>4
    <3> QED
      BY <2>1, <3>1, <3>2, OptionalTyped
  <2> QED
    BY <2>1
<1>3. 1 .. n \subseteq A
  <2>. HIDE DEF A, n
  <2> QED
    BY <1>1, <1>2, Climb
<1>4. n \in A
  BY <1>1, <1>3
<1> QED
  BY <1>4

LEMMA FromTail ==
  ASSUME NEW s, IsSequence(s), NEW n \in 2 .. Len(s)
  PROVE  From(Tail(s), n - 1) = From(s, n)
<1>. DEFINE L == Len(s)
<1>1. L \in Nat /\ s \in Seq(Range(s)) /\ s # <<>>
  BY SequenceIs DEF IsSequence
<1>2. Tail(s) = SubSeq(s, 2, L) /\ Len(Tail(s)) = L - 1
  BY <1>1, TailIsSubSeq, TailIs
<1>3. 2 \in 1 .. L /\ L \in 1 .. L /\ n - 1 \in 1 .. (L - 2 + 1) /\ L - 1 \in 1 .. (L - 2 + 1) /\ 2 + (n - 1) - 1 = n /\ 2 + (L - 1) - 1 = L
  BY <1>1
<1>4. SubSeq(SubSeq(s, 2, L), n - 1, L - 1) = SubSeq(s, n, L)
  <2>1. SubSeq(SubSeq(s, 2, L), n - 1, L - 1) = SubSeq(s, 2 + (n - 1) - 1, 2 + (L - 1) - 1)
    <3>. HIDE DEF L
    <3> QED
      BY <1>1, <1>3, SubSeqOfSubSeq
  <2> QED
    BY <1>3, <2>1
<1> QED
  BY <1>2, <1>4 DEF From

\* then level by level.
LEMMA CompatibleIs ==
  ASSUME NEW from, NEW to, IsType(from), IsType(to), Compatible(from, to)
  PROVE  \/ AtOnce(from, to)
         \/ Base(from) = "Array" /\ Base(to) = "Array" /\ Inner(from) = Unknown
         \/ Base(from) = "Dict" /\ Base(to) = "Dict" /\ from = DictOf(Unknown, Unknown)
         \/ Alike(from[1], to[1]) /\ Base(from) \in Holders /\ Base(to) \in Holders /\ Compatible(Inner(from), Inner(to))
<1>1. PICK n \in DOMAIN from \cap DOMAIN to :
         /\ \A i \in 1 .. (n - 1) : Alike(from[i], to[i])
         /\ \/ AtOnce(From(from, n), From(to, n))
            \/ from[n].base = "Array" /\ to[n].base = "Array" /\ From(from, n + 1) = Unknown
            \/ from[n].base = "Dict" /\ to[n].base = "Dict" /\ From(from, n) = DictOf(Unknown, Unknown)
  BY DEF Compatible
<1>2. /\ IsSequence(from) /\ Len(from) \in Nat \ {0} /\ DOMAIN from = 1 .. Len(from)
      /\ IsSequence(to) /\ Len(to) \in Nat \ {0} /\ DOMAIN to = 1 .. Len(to)
      /\ from # <<>> /\ to # <<>>
  BY TypeIs DEF IsType
<1>3. n \in 1 .. Len(from) /\ n \in 1 .. Len(to)
  BY <1>1, <1>2
<1>4. from[n].base = "Array" => n < Len(from)
  BY <1>2, <1>3 DEF IsType, Leaves
<1>5. CASE n = 1
  <2>1. From(from, 1) = from /\ From(to, 1) = to
    BY <1>2, <1>3, <1>5, FromIs
  <2>2. from[n].base = "Array" => From(from, n + 1) = Inner(from)
    BY <1>2, <1>3, <1>4, <1>5, <2>1, FromIs DEF Inner
  <2> QED
    BY <1>1, <1>5, <2>1, <2>2 DEF Base
<1>6. CASE n # 1
  <2>1. 1 \in 1 .. (n - 1) /\ n \in 2 .. Len(from) /\ n \in 2 .. Len(to)
    BY <1>2, <1>3, <1>6
  <2>2. Alike(from[1], to[1])
    BY <1>1, <2>1
  <2>3. Base(from) \in Holders /\ Base(to) \in Holders
    BY <2>2 DEF Alike, Base, Holders
  <2>. DEFINE f == Tail(from)
              t == Tail(to)
  <2>4. /\ DOMAIN f = 1 .. (Len(from) - 1) /\ \A i \in 1 .. (Len(from) - 1) : f[i] = from[i + 1]
        /\ DOMAIN t = 1 .. (Len(to) - 1) /\ \A i \in 1 .. (Len(to) - 1) : t[i] = to[i + 1]
    BY <1>2, TailIs
  <2>5. n - 1 \in DOMAIN f \cap DOMAIN t /\ f[n - 1] = from[n] /\ t[n - 1] = to[n]
    BY <1>2, <2>1, <2>4
  <2>6. \A i \in 1 .. (n - 1 - 1) : Alike(f[i], t[i])
    <3>1. TAKE i \in 1 .. (n - 1 - 1)
    <3>2. i + 1 \in 1 .. (n - 1) /\ f[i] = from[i + 1] /\ t[i] = to[i + 1]
      BY <1>2, <1>3, <2>1, <2>4
    <3> QED
      BY <1>1, <3>2
  <2>7. From(f, n - 1) = From(from, n) /\ From(t, n - 1) = From(to, n)
    BY <1>2, <2>1, FromTail
  <2>8. from[n].base = "Array" => From(f, n - 1 + 1) = From(from, n + 1)
    <3>1. ASSUME from[n].base = "Array"
          PROVE  n + 1 \in 2 .. Len(from) /\ n + 1 - 1 = n /\ n - 1 + 1 = n
      BY <1>2, <1>3, <1>4, <3>1
    <3>2. from[n].base = "Array" => From(f, n + 1 - 1) = From(from, n + 1)
      BY <1>2, <3>1, FromTail
    <3> QED
      BY <3>1, <3>2
  <2>. HIDE DEF f, t
  <2>9. Compatible(f, t)
    BY <1>1, <2>5, <2>6, <2>7, <2>8 DEF Compatible
  <2> QED
    BY <2>2, <2>3, <2>9 DEF f, t, Inner
<1> QED
  BY <1>5, <1>6

\* Only the unknown type is compatible with the unknown type.
LEMMA CompatibleUnknown ==
  ASSUME NEW from, IsType(from), Compatible(from, Unknown)
  PROVE  from = Unknown
<1>1. IsType(Unknown) /\ Base(Unknown) = "Nil"
  BY UnknownIs
<1> QED
  BY <1>1, CompatibleIs DEF AtOnce, Holders

\* Keys of compatible types.
LEMMA KeyStays ==
  ASSUME NEW key, key.t = "String", NEW K, IsSequence(K), K # <<>>, NEW L, IsSequence(L), L # <<>>, AtOnce(K, L), KeyFits(key, K)
  PROVE  KeyFits(key, L)
<1>1. PICK n \in DOMAIN K : K[n].base = key.t /\ \A i \in 1 .. (n - 1) : K[i].base = "Optional"
  BY DEF KeyFits
<1>2. CASE K = L
  BY <1>2
<1>3. CASE Base(K) = "Struct"
  <2>1. n \in Nat /\ n >= 1
    BY <1>1, SequenceIs
  <2>2. n = 1
    BY <1>1, <1>3, <2>1 DEF Base
  <2> QED
    BY <1>1, <1>3, <2>2 DEF Base
<1>4. CASE K = Unknown
  <2>1. K[1].base = "Nil" /\ Len(K) = 1 /\ DOMAIN K = 1 .. 1
    BY <1>4, UnknownIs, SequenceIs DEF Base
  <2> QED
    BY <1>1, <2>1
<1>5. CASE Base(L) = "Optional" /\ K = Inner(L)
  <2>1. /\ DOMAIN L = 1 .. Len(L) /\ Len(L) \in Nat \ {0} /\ DOMAIN K = 1 .. (Len(L) - 1)
        /\ \A i \in 1 .. (Len(L) - 1) : K[i] = L[i + 1]
    BY <1>5, SequenceIs, TailIs DEF Inner
  <2>2. n + 1 \in DOMAIN L /\ L[n + 1] = K[n]
    BY <1>1, <2>1
  <2>3. \A i \in 1 .. (n + 1 - 1) : L[i].base = "Optional"
    <3>1. TAKE i \in 1 .. (n + 1 - 1)
    <3>2. i = 1 \/ (i - 1 \in 1 .. (n - 1) /\ L[i] = K[i - 1])
      BY <1>1, <2>1
    <3> QED
      BY <1>1, <1>5, <3>2 DEF Base
  <2>. DEFINE m == n + 1
  <2>4. m \in DOMAIN L /\ L[m] = K[n]
    BY <2>2
  <2>5. \A i \in 1 .. (m - 1) : L[i].base = "Optional"
    BY <2>3
  <2>. HIDE DEF m
  <2>6. L[m].base = key.t
    BY <1>1, <2>4
  <2> QED
    BY <2>4, <2>5, <2>6 DEF KeyFits
<1> QED
  BY <1>2, <1>3, <1>4, <1>5 DEF AtOnce

LEMMA CompatibleTyped ==
  ASSUME NEW v, NEW from, IsType(from), NEW to, IsType(to), Compatible(from, to), Typed(v, from)
  PROVE  Typed(v, to)
<1>. DEFINE A == {m \in 1 .. Len(from) : \A u, F, T : IsType(F) /\ Len(F) = m /\ IsType(T) /\ Compatible(F, T) /\ Typed(u, F) => Typed(u, T)}
            n == Len(from)
<1>1. n \in Nat \ {0}
  BY TypeIs
<1>2. ASSUME NEW m \in 1 .. n, 1 .. (m - 1) \subseteq A
      PROVE  m \in A
  <2>1. ASSUME NEW u, NEW F, NEW T, IsType(F), Len(F) = m, IsType(T), Compatible(F, T), Typed(u, F)
        PROVE  Typed(u, T)
    <3>1. IsValue(u) /\ IsSequence(u.kids) /\ (u.t = Base(F) \/ Base(F) = "Optional")
      BY <2>1, TypedIs
    <3>2. CASE F = T
      BY <2>1, <3>2
    <3>3. CASE Base(F) = "Struct" /\ Base(T) = "Struct" /\ NameOf(F[1]) = NameOf(T[1])
      <4>1. /\ u.t = "Struct" /\ u.names[1] = NameOf(T[1])
            /\ \A j \in DOMAIN u.kids : u.names[j + 1] \in Fields(NameOf(T[1])) =>
                  Typed(u.kids[j], Structs[NameOf(T[1])][u.names[j + 1]])
        BY <2>1, <3>3, TypedIs
      <4> QED
        BY <3>1, <3>3, <4>1, StructTyped
    <3>4. CASE Base(T) = "Optional" /\ F = Unknown
      <4>1. u.t = "Nil"
        BY <3>1, <3>4, UnknownIs
      <4> QED
        BY <3>1, <3>4, <4>1, OptionalTyped
    <3>5. CASE Base(T) = "Optional" /\ F = Inner(T)
      BY <2>1, <3>5, WrapTyped
    <3>6. CASE Base(F) = "Array" /\ Base(T) = "Array" /\ Inner(F) = Unknown
      <4>1. u.kids = <<>> /\ u.t = "Array"
        BY <2>1, <3>6, TypedIs
      <4>2. DOMAIN u.kids = {}
        BY <4>1
      <4> QED
        BY <3>1, <3>6, <4>1, <4>2, ArrayTyped
    <3>7. CASE Base(F) = "Dict" /\ Base(T) = "Dict" /\ F = DictOf(Unknown, Unknown)
      <4>1. Inner(F) = Unknown
        BY <3>7, DictOfIs, UnknownIs
      <4>2. u.kids = <<>> /\ u.t = "Dict" /\ Len(u.kids) % 2 = 0
        BY <2>1, <3>7, <4>1, TypedIs
      <4>3. DOMAIN u.kids = {}
        BY <4>2
      <4> QED
        BY <3>1, <3>7, <4>2, <4>3, DictTyped
    <3>8. CASE Alike(F[1], T[1]) /\ Base(F) \in Holders /\ Base(T) \in Holders /\ Compatible(Inner(F), Inner(T))
      <4>1. /\ IsType(Inner(F)) /\ IsType(Inner(T)) /\ Len(Inner(F)) = m - 1 /\ Len(F) > 1
        BY <2>1, <3>8, TypeIs
      <4>2. m - 1 \in A
        BY <1>2, <2>1, <4>1
      <4>3. \A w : Typed(w, Inner(F)) => Typed(w, Inner(T))
        BY <3>8, <4>1, <4>2
      <4>4. Inner(T) = Unknown => Inner(F) = Unknown
        BY <3>8, <4>1, CompatibleUnknown
      <4>5. CASE Base(F) = "Array"
        <5>1. Base(T) = "Array"
          BY <3>8, <4>5 DEF Alike, Base
        <5>2. u.t = "Array" /\ (Inner(F) = Unknown => u.kids = <<>>) /\ \A j \in DOMAIN u.kids : Typed(u.kids[j], Inner(F))
          BY <2>1, <4>5, TypedIs
        <5> QED
          BY <3>1, <4>3, <4>4, <5>1, <5>2, ArrayTyped
      <4>6. CASE Base(F) = "Dict"
        <5>1. Base(T) = "Dict" /\ AtOnce(Keys(F), Keys(T))
          BY <3>8, <4>6 DEF Alike, Base, Keys
        <5>2. /\ u.t = "Dict" /\ (Inner(F) = Unknown => u.kids = <<>>) /\ Len(u.kids) % 2 = 0
              /\ \A j \in DOMAIN u.kids : /\ j % 2 = 1 => u.kids[j].t = "String" /\ KeyFits(u.kids[j], Keys(F))
                                          /\ j % 2 = 0 => Typed(u.kids[j], Inner(F))
          BY <2>1, <4>6, TypedIs
        <5>3. IsSequence(Keys(F)) /\ Keys(F) # <<>> /\ IsSequence(Keys(T)) /\ Keys(T) # <<>>
          BY <2>1, <4>6, <5>1, TypeIs
        <5>4. \A j \in DOMAIN u.kids : j % 2 = 1 => KeyFits(u.kids[j], Keys(T))
          BY <5>1, <5>2, <5>3, KeyStays
        <5> QED
          BY <3>1, <4>3, <4>4, <5>1, <5>2, <5>4, DictTyped
      <4>7. Base(F) \in {"Array", "Dict"}
        BY <3>8 DEF Alike, Base
      <4> QED
        BY <4>5, <4>6, <4>7
    <3> QED
      BY <2>1, <3>2, <3>3, <3>4, <3>5, <3>6, <3>7, <3>8, CompatibleIs DEF AtOnce
  <2> QED
    BY <2>1
<1>3. 1 .. n \subseteq A
  <2>. HIDE DEF A, n
  <2> QED
    BY <1>1, <1>2, Climb
<1>4. n \in A
  BY <1>1, <1>3
<1> QED
  BY <1>4

\* A value of a type has that type in the sense of the property.
LEMMA TypedHasType ==
  ASSUME NEW v, NEW T, IsType(T), Typed(v, T)
  PROVE  HasType(v, T)
<1>. DEFINE n == Len(T)
<1>1. PICK f : /\ f[1] = {v}
               /\ \A m \in 2 .. n : f[m] = UNION {Held(u, T[m - 1]) : u \in f[m - 1]}
               /\ HasType(v, T) <=> \A m \in 1 .. n : \A u \in f[m] : Fits(u, T[m])
  BY HasTypeIs
<1>2. IsSequence(T) /\ n \in Nat \ {0} /\ DOMAIN T = 1 .. n
  BY TypeIs
<1>. DEFINE A == {m \in 1 .. n : \A u \in f[m] : Typed(u, From(T, m))}
<1>3. ASSUME NEW m \in 1 .. n, 1 .. (m - 1) \subseteq A
      PROVE  m \in A
  <2>1. CASE m = 1
    <3>1. From(T, m) = T
      BY <1>2, <2>1, FromIs
    <3> QED
      BY <1>1, <2>1, <3>1
  <2>2. CASE m # 1
    <3>1. m \in 2 .. n /\ m - 1 \in 1 .. (m - 1) /\ m - 1 \in 1 .. n /\ m - 1 < n /\ m - 1 + 1 = m
      BY <1>2, <2>2
    <3>2. \A u \in f[m - 1] : Typed(u, From(T, m - 1))
      BY <1>3, <3>1
    <3>3. /\ Inner(From(T, m - 1)) = From(T, m) /\ From(T, m - 1)[1] = T[m - 1]
      <4>1. 1 \in 1 .. (n - (m - 1) + 1) /\ m - 1 + 1 - 1 = m - 1
        BY <1>2, <3>1
      <4>2. Tail(From(T, m - 1)) = From(T, m - 1 + 1) /\ From(T, m - 1)[1] = T[m - 1 + 1 - 1]
        BY <1>2, <3>1, <4>1, FromIs
      <4> QED
        BY <3>1, <4>1, <4>2 DEF Inner
    <3>4. ASSUME NEW u \in f[m]
          PROVE  Typed(u, From(T, m))
      <4>1. PICK w \in f[m - 1] : u \in Held(w, T[m - 1])
        BY <1>1, <3>1, <3>4
      <4>2. Base(From(T, m - 1)) # "Struct"
        BY <3>3, <4>1 DEF Held, Base
      <4>3. <<u, From(T, m)>> \in Parts(w, From(T, m - 1))
        BY <3>3, <4>1, <4>2 DEF Parts
      <4> QED
        BY <3>2, <4>3, Unfold
    <3> QED
      BY <3>4
  <2> QED
    BY <2>1, <2>2
<1>4. 1 .. n \subseteq A
  <2>. HIDE DEF A, n
  <2> QED
    BY <1>2, <1>3, Climb
<1>5. ASSUME NEW m \in 1 .. n, NEW u \in f[m]
      PROVE  Fits(u, T[m])
  <2>1. Typed(u, From(T, m))
    BY <1>4
  <2>2. From(T, m)[1] = T[m]
    <3>1. 1 \in 1 .. (n - m + 1) /\ m + 1 - 1 = m
      BY <1>2
    <3> QED
      BY <1>2, <3>1, FromIs
  <2> QED
    BY <2>1, <2>2, Unfold DEF Local
<1> QED
  BY <1>1, <1>5

\* The identity of a container does not count.
LEMMA NumberedIs ==
  ASSUME NEW v, NEW id, IsValue(v)
  PROVE  LET w == Numbered(v, id)
         IN  /\ IsValue(w) /\ w.t = v.t /\ w.kids = v.kids /\ w.names = v.names
             /\ v.t \notin {"Array", "Dict", "Struct", "Optional"} => w = v
             /\ id # 0 => Numbered(w, id) = w
<1>1. CASE v.n = 0 /\ v.t \in {"Array", "Dict", "Struct", "Optional"}
  <2>. DEFINE w == [v EXCEPT !.n = id]
  <2>1. v = Val(v.t, v.n, v.d, v.names, v.kids) /\ Numbered(v, id) = w
    BY <1>1 DEF IsValue, Numbered
  <2>2. w = Val(v.t, id, v.d, v.names, v.kids)
    BY <2>1 DEF Val
  <2>. HIDE DEF w
  <2>3. w.t = v.t /\ w.n = id /\ w.d = v.d /\ w.names = v.names /\ w.kids = v.kids
    BY <2>2 DEF Val
  <2>4. IsValue(w)
    BY <2>2, <2>3 DEF IsValue
  <2>5. id # 0 => Numbered(w, id) = w
    BY <2>3 DEF Numbered
  <2> QED
    BY <1>1, <2>1, <2>3, <2>4, <2>5
<1>2. CASE ~ (v.n = 0 /\ v.t \in {"Array", "Dict", "Struct", "Optional"})
  BY <1>2 DEF Numbered
<1> QED
  BY <1>1, <1>2

LEMMA NumberedTyped ==
  ASSUME NEW v, NEW T, IsType(T), Typed(v, T), NEW id
  PROVE  Typed(Numbered(v, id), T)
<1>. DEFINE A == {m \in 1 .. Len(T) : \A W : IsType(W) /\ Len(W) = m /\ Typed(v, W) => Typed(Numbered(v, id), W)}
            n == Len(T)
            w == Numbered(v, id)
<1>1. n \in Nat \ {0} /\ IsValue(v)
  BY TypeIs, TypedIs
<1>2. IsValue(w) /\ w.t = v.t /\ w.kids = v.kids /\ w.names = v.names
  BY <1>1, NumberedIs
<1>3. ASSUME NEW m \in 1 .. n, 1 .. (m - 1) \subseteq A
      PROVE  m \in A
  <2>1. ASSUME NEW W, IsType(W), Len(W) = m, Typed(v, W)
        PROVE  Typed(w, W)
    <3>. HIDE DEF w
    <3>1. IsSequence(w.kids) /\ (v.t = Base(W) \/ Base(W) = "Optional") /\ Fits(v, W[1])
      BY <1>2, <2>1, TypedIs
    <3>2. CASE Base(W) = "Optional"
      <4>1. IsType(Inner(W)) /\ Len(Inner(W)) = m - 1 /\ Len(W) > 1
        BY <2>1, <3>2, TypeIs DEF Holders
      <4>2. m - 1 \in A
        BY <1>3, <2>1, <4>1
      <4>3. Typed(v, Inner(W)) => Typed(w, Inner(W))
        BY <4>1, <4>2 DEF w
      <4>4. /\ v.t = "Optional" => \A j \in DOMAIN v.kids : Typed(v.kids[j], Inner(W))
            /\ v.t \notin {"Optional", "Nil"} => Typed(v, Inner(W))
        BY <2>1, <3>2, TypedIs
      <4> QED
        BY <1>2, <3>1, <3>2, <4>3, <4>4, OptionalTyped
    <3>3. CASE Base(W) # "Optional"
      <4>1. w.t = Base(W)
        BY <1>2, <3>1, <3>3
      <4>2. Local(v, W) /\ \A u, X : <<u, X>> \in Parts(v, W) => Typed(u, X)
        BY <2>1, Unfold
      <4>3. Fits(w, W[1])
        BY <1>2, <3>1 DEF Fits
      <4>4. Local(w, W)
        BY <1>2, <3>1, <4>2, <4>3 DEF Local
      <4>5. Held(w, W[1]) = Held(v, W[1])
        BY <1>2, <3>3 DEF Held, Base
      <4>6. Parts(w, W) = Parts(v, W)
        BY <1>2, <4>5 DEF Parts
      <4> QED
        BY <4>2, <4>4, <4>6, Fold
    <3> QED
      BY <3>2, <3>3
  <2> QED
    BY <2>1
<1>4. 1 .. n \subseteq A
  <2>. HIDE DEF A, n
  <2> QED
    BY <1>1, <1>3, Climb
<1>5. n \in A
  BY <1>1, <1>4
<1> QED
  BY <1>5

-----------------------------------------------------------------------------
(* The operators of the runtime give values of the types that the analysis *)
(* gives, or end the process.                                              *)

LEMMA NoneIs == Base(None) = "none" /\ Abort.t = "abort" /\ ~ IsType(None)
<1>1. Base(None) = "none"
  BY PrimitiveIs DEF None
<1> QED
  BY <1>1, ValuesAre, TypeIs DEF Leaves, Holders

LEMMA DoublesTyped ==
  ASSUME NEW op \in {"+", "-", "*", "/"}, NEW x, NEW y, NEW T, Base(T) = "Double",
         IsValue(x), IsSequence(x.kids), x.t = "Double"
  PROVE  Typed(OnDoubles(op, x, y), T)
<1>1. OnDoubles(op, x, y) = x \/ \E n, d : OnDoubles(op, x, y) = DoubleV(n, d)
  BY DEF OnDoubles, Plus
<1>2. Typed(x, T)
  BY ScalarTyped
<1> QED
  BY <1>1, <1>2, MadeTyped

LEMMA CalculatedTyped ==
  ASSUME NEW op \in Arithmetic, NEW l, NEW r, l.t = r.t, l.t \in Numeric \/ (op = "+" /\ l.t = "String"),
         ~ (op = "%" /\ l.t = "Double"), IsValue(l), IsSequence(l.kids), NEW T, Base(T) = l.t
  PROVE  Calculated(op, l, r) = Abort \/ Typed(Calculated(op, l, r), T)
<1>1. CASE l.t = "String"
  <2>1. Calculated(op, l, r) = TextV(l.names \o r.names)
    BY <1>1 DEF Calculated, Numeric
  <2> QED
    BY <1>1, <2>1, MadeTyped
<1>2. CASE l.t = "Int"
  <2>1. Calculated(op, l, r) = Abort \/ Calculated(op, l, r) = IntV(OnInts(op, l.n, r.n))
    BY <1>2 DEF Calculated, Numeric
  <2> QED
    BY <1>2, <2>1, MadeTyped
<1>3. CASE l.t = "Double"
  <2>1. Calculated(op, l, r) = Abort \/ (Calculated(op, l, r) = OnDoubles(op, l, r) /\ op # "%")
    BY <1>3 DEF Calculated, Numeric
  <2>2. op # "%" => op \in {"+", "-", "*", "/"}
    BY DEF Arithmetic
  <2> QED
    BY <1>3, <2>1, <2>2, DoublesTyped
<1> QED
  BY <1>1, <1>2, <1>3 DEF Numeric

LEMMA ComparedTyped ==
  ASSUME NEW op \in Comparisons, NEW l, NEW r, l.t = r.t, l.t \in {"Int", "Double", "Bool", "String", "Array", "Dict", "Struct"},
         l.t \in {"Array", "Dict", "Struct"} => op \in {"==", "!="}, NEW T, Base(T) = "Bool"
  PROVE  Typed(Compared(op, l, r), T)
<1>1. \E b : Compared(op, l, r) = BoolV(b)
  <2>1. CASE l.t \in {"Int", "Bool"}
    BY <2>1 DEF Compared
  <2>2. CASE l.t = "Double"
    BY <2>2 DEF Compared
  <2>3. CASE l.t = "String"
    BY <2>3 DEF Compared
  <2>4. CASE l.t \in {"Array", "Dict", "Struct"}
    BY <2>4 DEF Compared
  <2> QED
    BY <2>1, <2>2, <2>3, <2>4
<1> QED
  BY <1>1, MadeTyped

\* What the analysis accepts of two operands, and what has a value.
Sensible(op, L, R) ==
  /\ IsType(L) /\ IsType(R) /\ BinaryType(op, L, R) # None
  /\ op \in Comparisons => /\ Base(L) = Base(R) /\ Base(L) \notin {"Nil", "Optional"}
                           /\ Base(L) \in {"Array", "Dict", "Struct"} => op \in {"==", "!="}
  /\ ~ (op = "%" /\ Base(L) = "Double")

LEMMA SensibleIs ==
  ASSUME NEW op \in Arithmetic \cup Comparisons \cup {"&&", "||"}, NEW L, NEW R, Sensible(op, L, R)
  PROVE  /\ op \in Comparisons => BinaryType(op, L, R) = Primitive("Bool")
         /\ op \in {"&&", "||"} => BinaryType(op, L, R) = L /\ Base(L) = "Bool" /\ Base(R) = "Bool"
         /\ op \in Arithmetic => /\ BinaryType(op, L, R) = L /\ L = R /\ Base(L) # "Optional"
                                 /\ Base(L) \in Numeric \/ (op = "+" /\ Base(L) = "String")
<1>1. L # None /\ R # None
  BY NoneIs DEF Sensible
<1>2. BinaryType(op, L, R) # None
  BY DEF Sensible
<1>3. op \in Arithmetic => op \notin Comparisons \cup {"&&", "||"}
  BY DEF Arithmetic, Comparisons
<1>4. op \in {"&&", "||"} => op \notin Comparisons
  BY DEF Comparisons
<1>5. op \in Comparisons => BinaryType(op, L, R) = Primitive("Bool")
  BY <1>1, <1>4 DEF BinaryType
<1>6. op \in {"&&", "||"} => BinaryType(op, L, R) = L /\ Base(L) = "Bool" /\ Base(R) = "Bool"
  BY <1>1, <1>2, <1>4 DEF BinaryType
<1>7. op \in Arithmetic => /\ BinaryType(op, L, R) = L /\ L = R
                           /\ Base(L) \in Numeric \/ (op = "+" /\ Base(L) = "String")
  BY <1>1, <1>2, <1>3 DEF BinaryType
<1>8. Base(L) \in Numeric => Base(L) # "Optional"
  BY DEF Numeric
<1> QED
  BY <1>5, <1>6, <1>7, <1>8

LEMMA BinaryTyped ==
  ASSUME NEW op \in Arithmetic \cup Comparisons \cup {"&&", "||"}, NEW L, NEW R, Sensible(op, L, R),
         NEW l, NEW r, Typed(l, L), Typed(r, R)
  PROVE  BinaryOp(op, l, r) = Abort \/ Typed(BinaryOp(op, l, r), BinaryType(op, L, R))
<1>1. /\ IsValue(l) /\ IsSequence(l.kids) /\ (l.t = Base(L) \/ Base(L) = "Optional")
      /\ r.t = Base(R) \/ Base(R) = "Optional"
      /\ Base(L) \in Leaves \cup Holders
  BY TypedIs, TypeIs DEF Sensible
<1>2. CASE BinaryOp(op, l, r) = Abort
  BY <1>2
<1>3. CASE op \in Arithmetic
  <2>1. BinaryOp(op, l, r) \in {Abort, Calculated(op, l, r)}
    BY <1>3 DEF BinaryOp, Arithmetic, Comparisons
  <2>2. l.t = Base(L) /\ r.t = Base(L) /\ BinaryType(op, L, R) = L /\ (Base(L) \in Numeric \/ (op = "+" /\ Base(L) = "String"))
    BY <1>1, <1>3, SensibleIs
  <2>3. Calculated(op, l, r) = Abort \/ Typed(Calculated(op, l, r), L)
    BY <1>1, <1>3, <2>2, CalculatedTyped DEF Sensible
  <2> QED
    BY <2>1, <2>2, <2>3
<1>4. CASE op \in Comparisons
  <2>1. BinaryOp(op, l, r) \in {Abort, Compared(op, l, r)}
    BY <1>4 DEF BinaryOp, Arithmetic, Comparisons
  <2>2. BinaryType(op, L, R) = Primitive("Bool") /\ Base(Primitive("Bool")) = "Bool"
    BY <1>4, SensibleIs, PrimitiveIs
  <2>3. l.t = Base(L) /\ r.t = Base(L) /\ Base(L) \in {"Int", "Double", "Bool", "String", "Array", "Dict", "Struct"}
    BY <1>1, <1>4 DEF Sensible, Leaves, Holders
  <2>4. Typed(Compared(op, l, r), Primitive("Bool"))
    BY <1>4, <2>2, <2>3, ComparedTyped DEF Sensible
  <2> QED
    BY <2>1, <2>2, <2>4
<1>5. CASE op \in {"&&", "||"}
  <2>1. BinaryType(op, L, R) = L /\ Base(L) = "Bool" /\ l.t = "Bool" /\ r.t = "Bool"
    BY <1>1, <1>5, SensibleIs
  <2>2. BinaryOp(op, l, r) = Abort \/ \E b : BinaryOp(op, l, r) = BoolV(b)
    BY <1>5, <2>1 DEF BinaryOp, Arithmetic, Comparisons
  <2> QED
    BY <2>1, <2>2, MadeTyped
<1> QED
  BY <1>3, <1>4, <1>5

\* The same without boxes.
LEMMA BinarySlotTyped ==
  ASSUME NEW op \in Arithmetic \cup Comparisons \cup {"&&", "||"}, NEW L, NEW R, Sensible(op, L, R),
         NEW l, NEW r, RawOK(l), RawOK(r), Typed(l.v, L) \/ l.v = Abort, Typed(r.v, R) \/ r.v = Abort
  PROVE  BinaryUnboxed(op, l, r).v = Abort \/ Typed(BinaryUnboxed(op, l, r).v, BinaryType(op, L, R))
<1>. DEFINE kind == BinaryKind(op, l.kind, r.kind)
<1>1. CASE Abort \in {l.v, r.v}
  BY <1>1 DEF BinaryUnboxed, Slot
<1>2. CASE Abort \notin {l.v, r.v} /\ ~ (op = "/" /\ r.v.n = 0)
  BY <1>2, RawIsBoxed, BinaryTyped
<1>3. CASE Abort \notin {l.v, r.v} /\ op = "/" /\ kind = "box"
  <2>1. BinaryUnboxed(op, l, r).v = BinaryOp(op, l.v, r.v)
    BY <1>3 DEF BinaryUnboxed, Slot
  <2> QED
    BY <1>3, <2>1, BinaryTyped
<1>4. CASE Abort \notin {l.v, r.v} /\ op = "/" /\ kind = "Int" /\ r.v.n = 0
  BY <1>4 DEF BinaryUnboxed, Slot
<1>5. CASE Abort \notin {l.v, r.v} /\ op = "/" /\ kind = "Double"
  <2>1. BinaryUnboxed(op, l, r).v = OnDoubles(op, l.v, r.v)
    BY <1>5 DEF BinaryUnboxed, Slot
  <2>2. l.v.t = "Double"
    BY <1>5, KindIs DEF RawOK
  <2>3. IsValue(l.v) /\ IsSequence(l.v.kids) /\ (l.v.t = Base(L) \/ Base(L) = "Optional")
    BY <1>5, TypedIs DEF Sensible
  <2>4. op \in Arithmetic
    BY <1>5 DEF Arithmetic
  <2>5. BinaryType(op, L, R) = L /\ Base(L) = "Double"
    BY <2>2, <2>3, <2>4, SensibleIs
  <2> QED
    BY <1>5, <2>1, <2>2, <2>3, <2>5, DoublesTyped
<1>6. kind \in {"box", "Int", "Double"} \/ op # "/"
  BY KindIs
<1> QED
  BY <1>1, <1>2, <1>3, <1>4, <1>5, <1>6

LEMMA UnaryTyped ==
  ASSUME NEW op \in {"-", "!"}, NEW T, IsType(T), UnaryType(op, T) # None, NEW v, Typed(v, T) \/ v = Abort
  PROVE  LET w == IF op = "!" THEN UnaryNot(v) ELSE BinaryOp("-", IntV(0), v)
         IN  w = Abort \/ Typed(w, UnaryType(op, T))
<1>1. UnaryType(op, T) = T /\ Base(T) \in (IF op = "-" THEN {"Int", "Double"} ELSE {"Bool"})
  BY DEF UnaryType, Numeric
<1>2. v = Abort \/ (v # Abort /\ v.t = Base(T))
  BY <1>1, TypedIs, NoneIs
<1>3. CASE op = "!"
  <2>1. UnaryNot(v) = Abort \/ \E b : UnaryNot(v) = BoolV(b)
    BY <1>1, <1>2, <1>3 DEF UnaryNot
  <2> QED
    BY <1>1, <1>3, <2>1, MadeTyped
<1>4. CASE op = "-"
  <2>1. CASE v = Abort
    BY <1>4, <2>1 DEF BinaryOp
  <2>2. CASE v # Abort
    <3>1. BinaryOp("-", IntV(0), v) = Calculated("-", IntV(0), v)
      BY <2>2, ValuesAre DEF BinaryOp, Arithmetic, Comparisons
    <3>2. CASE v.t = "Int"
      <4>1. Calculated("-", IntV(0), v) = IntV(OnInts("-", 0, v.n))
        BY <3>2, ValuesAre DEF Calculated, Numeric
      <4> QED
        BY <1>1, <1>2, <1>4, <2>2, <3>1, <3>2, <4>1, MadeTyped
    <3>3. CASE v.t = "Double"
      <4>1. Calculated("-", IntV(0), v) = OnDoubles("-", IntV(0), v)
        BY <3>3, ValuesAre DEF Calculated, Numeric
      <4>2. \E n, d : OnDoubles("-", IntV(0), v) = DoubleV(n, d)
        BY ValuesAre DEF OnDoubles, Plus
      <4> QED
        BY <1>1, <1>2, <1>4, <2>2, <3>1, <3>3, <4>1, <4>2, MadeTyped
    <3> QED
      BY <1>1, <1>2, <1>4, <2>2, <3>2, <3>3
  <2> QED
    BY <2>1, <2>2
<1> QED
  BY <1>3, <1>4

LEMMA UnarySlotTyped ==
  ASSUME NEW op \in {"-", "!"}, NEW T, IsType(T), UnaryType(op, T) # None, NEW s, RawOK(s), Typed(s.v, T) \/ s.v = Abort,
         op = "-" => s.kind # "box"
  PROVE  UnaryUnboxed(op, s).v = Abort \/ Typed(UnaryUnboxed(op, s).v, UnaryType(op, T))
<1>1. UnaryType(op, T) = T /\ Base(T) \in (IF op = "-" THEN {"Int", "Double"} ELSE {"Bool"})
  BY DEF UnaryType, Numeric
<1>2. s.v = Abort \/ (s.v # Abort /\ s.v.t = Base(T))
  BY <1>1, TypedIs, NoneIs
<1>3. CASE s.v = Abort
  BY <1>3 DEF UnaryUnboxed, Slot
<1>4. CASE s.v # Abort
  <2>1. s.kind \in {"box", Base(T)}
    BY <1>2, <1>4 DEF RawOK
  <2>2. CASE op = "-"
    <3>1. UnaryUnboxed(op, s).v = IF Base(T) = "Int" THEN IntV(-s.v.n) ELSE Negated(s.v)
      BY <1>1, <1>4, <2>1, <2>2 DEF UnaryUnboxed, Slot, Numeric
    <3> QED
      BY <1>1, <2>2, <3>1, MadeTyped DEF Negated
  <2>3. CASE op = "!"
    <3>1. UnaryUnboxed(op, s).v \in {BoolV(s.v.n = 0), UnaryNot(s.v)}
      BY <1>1, <1>4, <2>1, <2>3 DEF UnaryUnboxed, Slot, Numeric
    <3>2. UnaryNot(s.v) = BoolV(s.v.n = 0)
      BY <1>1, <1>2, <1>4, <2>3 DEF UnaryNot
    <3> QED
      BY <1>1, <2>3, <3>1, <3>2, MadeTyped
  <2> QED
    BY <2>2, <2>3
<1> QED
  BY <1>3, <1>4

-----------------------------------------------------------------------------
(* Containers.                                                             *)

LEMMA AppendedIs ==
  ASSUME NEW s, IsSequence(s), NEW v
  PROVE  /\ IsSequence(Append(s, v)) /\ Len(Append(s, v)) = Len(s) + 1 /\ Append(s, v)[Len(s) + 1] = v
         /\ \A j \in 1 .. Len(s) : Append(s, v)[j] = s[j]
<1>. DEFINE S == Range(s) \cup {v}
            t == Append(s, v)
<1>1. s \in Seq(Range(s)) /\ Len(s) \in Nat
  BY SequenceIs DEF IsSequence
<1>2. Range(s) \subseteq S /\ v \in S
  OBVIOUS
<1>3. s \in Seq(S)
  <2>. HIDE DEF S
  <2> QED
    BY <1>1, <1>2
<1>4. Len(t) = Len(s) + 1 /\ t[Len(s) + 1] = v /\ (\A j \in 1 .. Len(s) : t[j] = s[j]) /\ t \in Seq(S)
  <2>. HIDE DEF S
  <2> QED
    BY <1>1, <1>2, <1>3
<1>6. t = [j \in 1 .. Len(t) |-> t[j]]
  <2>. HIDE DEF S, t
  <2> QED
    BY <1>4
<1>. HIDE DEF t
<1>5. IsSequence(t)
  BY <1>1, <1>4, <1>6, MakeSequence
<1> QED
  BY <1>4, <1>5 DEF t

LEMMA JoinedIs ==
  ASSUME NEW s, IsSequence(s), NEW x, NEW y
  PROVE  LET t == s \o <<x, y>>
         IN  /\ IsSequence(t) /\ Len(t) = Len(s) + 2 /\ t[Len(s) + 1] = x /\ t[Len(s) + 2] = y
             /\ \A j \in 1 .. Len(s) : t[j] = s[j]
<1>. DEFINE S == Range(s) \cup {x, y}
            t == s \o <<x, y>>
<1>1. s \in Seq(Range(s)) /\ Len(s) \in Nat
  BY SequenceIs DEF IsSequence
<1>2. Range(s) \subseteq S /\ x \in S /\ y \in S
  OBVIOUS
<1>3. s \in Seq(S) /\ <<x, y>> \in Seq(S)
  <2>. HIDE DEF S
  <2> QED
    BY <1>1, <1>2
<1>4. /\ Len(t) = Len(s) + 2 /\ t[Len(s) + 1] = x /\ t[Len(s) + 2] = y
      /\ (\A j \in 1 .. Len(s) : t[j] = s[j]) /\ t = [j \in 1 .. (Len(s) + 2) |-> t[j]]
  <2>. HIDE DEF S
  <2> QED
    BY <1>1, <1>2, <1>3
<1>. HIDE DEF t
<1>5. IsSequence(t)
  BY <1>1, <1>4, MakeSequence
<1> QED
  BY <1>4, <1>5 DEF t

LEMMA ReplacedIs ==
  ASSUME NEW s, IsSequence(s), NEW i, NEW v
  PROVE  LET t == [s EXCEPT ![i] = v]
         IN  /\ IsSequence(t) /\ Len(t) = Len(s) /\ DOMAIN t = DOMAIN s
             /\ \A j \in DOMAIN s : t[j] = IF j = i THEN v ELSE s[j]
<1>. DEFINE t == [s EXCEPT ![i] = v]
            n == Len(s)
<1>1. n \in Nat /\ DOMAIN s = 1 .. n /\ s = [j \in 1 .. n |-> s[j]]
  BY SequenceIs
<1>2. DOMAIN t = 1 .. n /\ t = [j \in 1 .. n |-> t[j]] /\ \A j \in 1 .. n : t[j] = IF j = i THEN v ELSE s[j]
  <2>. HIDE DEF n
  <2> QED
    BY <1>1
<1>. HIDE DEF t, n
<1>3. IsSequence(t) /\ Len(t) = n
  BY <1>1, <1>2, MakeSequence
<1> QED
  BY <1>1, <1>2, <1>3 DEF t, n

LEMMA ChangedIs ==
  ASSUME NEW v, IsValue(v), NEW w, NEW x
  PROVE  /\ [v EXCEPT !.kids = w] = Val(v.t, v.n, v.d, v.names, w)
         /\ [v EXCEPT !.names = x, !.kids = w] = Val(v.t, v.n, v.d, x, w)
<1>1. v = [t |-> v.t, n |-> v.n, d |-> v.d, names |-> v.names, kids |-> v.kids]
  BY DEF IsValue, Val
<1>. DEFINE u == [v EXCEPT !.names = x, !.kids = w]
<1>2. DOMAIN u = DOMAIN v /\ DOMAIN v = {"t", "n", "d", "names", "kids"}
  BY <1>1
<1>3. u.t = v.t /\ u.n = v.n /\ u.d = v.d /\ u.names = x /\ u.kids = w
  BY <1>1
<1>4. u = [f \in DOMAIN v |-> u[f]]
  BY <1>1
<1>5. [v EXCEPT !.kids = w] = [t |-> v.t, n |-> v.n, d |-> v.d, names |-> v.names, kids |-> w]
  BY <1>1
<1>. HIDE DEF u
<1>6. u = [t |-> u.t, n |-> u.n, d |-> u.d, names |-> u.names, kids |-> u.kids]
  BY <1>2, <1>4
<1> QED
  BY <1>3, <1>5, <1>6 DEF Val, u

LEMMA AppendedTyped ==
  ASSUME NEW T, IsType(T), Base(T) = "Array", Inner(T) # Unknown, NEW a, Typed(a, T), NEW v, Typed(v, Inner(T))
  PROVE  Typed(Appended(a, v), T)
<1>1. IsValue(a) /\ IsSequence(a.kids) /\ a.t = "Array" /\ \A j \in DOMAIN a.kids : Typed(a.kids[j], Inner(T))
  BY TypedIs
<1>2. CASE ~ Takes(a, v)
  BY <1>2 DEF Appended
<1>3. CASE Takes(a, v)
  <2>. DEFINE kids == Append(a.kids, v)
              new  == Val("Array", a.n, a.d, LockFor(a, v), kids)
  <2>1. a = Val("Array", a.n, a.d, a.names, a.kids)
    BY <1>1 DEF IsValue
  <2>2. Appended(a, v) = new
    <3>1. Appended(a, v) = [a EXCEPT !.names = LockFor(a, v), !.kids = Append(a.kids, v)]
      BY <1>3 DEF Appended
    <3>2. [a EXCEPT !.names = LockFor(a, v), !.kids = Append(a.kids, v)] = Val(a.t, a.n, a.d, LockFor(a, v), Append(a.kids, v))
      BY <1>1, ChangedIs, Zenon
    <3> QED
      BY <1>1, <3>1, <3>2
  <2>3. new.t = "Array" /\ new.kids = kids /\ IsValue(new)
    BY DEF IsValue, Val
  <2>4. /\ IsSequence(kids) /\ DOMAIN kids = 1 .. (Len(a.kids) + 1)
        /\ kids[Len(a.kids) + 1] = v /\ \A j \in 1 .. Len(a.kids) : kids[j] = a.kids[j]
    BY <1>1, AppendedIs, SequenceIs
  <2>5. Len(a.kids) \in Nat /\ DOMAIN a.kids = 1 .. Len(a.kids)
    BY <1>1, SequenceIs
  <2>. HIDE DEF kids
  <2>6. \A j \in DOMAIN kids : Typed(kids[j], Inner(T))
    <3>1. \A j \in 1 .. (Len(a.kids) + 1) : j \in 1 .. Len(a.kids) \/ j = Len(a.kids) + 1
      BY <2>5
    <3> QED
      BY <1>1, <2>4, <2>5, <3>1
  <2>. HIDE DEF new
  <2>7. Typed(new, T)
    BY <2>3, <2>4, <2>6, ArrayTyped
  <2> QED
    BY <2>2, <2>7
<1> QED
  BY <1>2, <1>3

LEMMA ArrayFromTyped ==
  ASSUME NEW vs, IsSequence(vs), NEW E, IsType(E), E = Unknown => vs = <<>>, \A j \in DOMAIN vs : Typed(vs[j], E)
  PROVE  Typed(ArrayFrom(vs), ArrayOf(E))
<1>. DEFINE n == Len(vs)
            Z == Val("Array", 0, 1, <<>>, <<>>)
            T == ArrayOf(E)
<1>1. n \in Nat /\ DOMAIN vs = 1 .. n /\ (vs = <<>> => n = 0)
  BY SequenceIs
<1>2. IsType(T) /\ Base(T) = "Array" /\ Inner(T) = E
  BY ArrayOfIs
<1>3. PICK f : f[0] = Z /\ (\A m \in 1 .. n : f[m] = Appended(f[m - 1], vs[m])) /\ ArrayFrom(vs) = f[n]
  BY ArrayFromIs
<1>4. Typed(Z, T)
  <2>1. IsValue(Z) /\ Z.t = "Array" /\ Z.kids = <<>>
    BY DEF IsValue, Val
  <2>2. DOMAIN <<>> = {}
    OBVIOUS
  <2>. HIDE DEF Z, T
  <2> QED
    BY <1>2, <2>1, <2>2, EmptyIs, ArrayTyped
<1>. DEFINE A == {m \in 0 .. n : Typed(f[m], T)}
<1>. HIDE DEF T, Z, n
<1>5. 0 \in A
  BY <1>1, <1>3, <1>4
<1>6. ASSUME NEW m \in 1 .. n, m - 1 \in A
      PROVE  m \in A
  <2>1. Typed(f[m - 1], T) /\ Typed(vs[m], Inner(T)) /\ Inner(T) # Unknown /\ m \in 0 .. n
    BY <1>1, <1>2, <1>6
  <2>2. Typed(Appended(f[m - 1], vs[m]), T)
    BY <1>2, <2>1, AppendedTyped
  <2> QED
    BY <1>3, <2>1, <2>2
<1>7. 0 .. n \subseteq A
  <2>. HIDE DEF A
  <2> QED
    BY <1>1, <1>5, <1>6, UpTo
<1> QED
  BY <1>1, <1>3, <1>7 DEF T, n

LEMMA DictSetTyped ==
  ASSUME NEW T, IsType(T), Base(T) = "Dict", Inner(T) # Unknown, Base(Keys(T)) = "String", NEW d, Typed(d, T),
         NEW key, NEW v, Typed(v, Inner(T))
  PROVE  Typed(DictSet(d, key, v), T)
<1>1. /\ IsValue(d) /\ IsSequence(d.kids) /\ d.t = "Dict" /\ Len(d.kids) % 2 = 0
      /\ \A j \in DOMAIN d.kids : /\ j % 2 = 1 => d.kids[j].t = "String" /\ KeyFits(d.kids[j], Keys(T))
                                  /\ j % 2 = 0 => Typed(d.kids[j], Inner(T))
  BY TypedIs
<1>2. Len(d.kids) \in Nat /\ DOMAIN d.kids = 1 .. Len(d.kids) /\ d = Val("Dict", d.n, d.d, d.names, d.kids)
  BY <1>1, SequenceIs DEF IsValue
<1>3. CASE key.t # "String" \/ ~ Takes(d, v)
  BY <1>3 DEF DictSet
<1>4. CASE key.t = "String" /\ Takes(d, v) /\ KeyAt(d, key.names) # {}
  <2>. DEFINE i == CHOOSE j \in KeyAt(d, key.names) : TRUE
              kids == [d.kids EXCEPT ![i + 1] = v]
              new  == Val("Dict", d.n, d.d, d.names, kids)
  <2>1. i \in DOMAIN d.kids /\ i % 2 = 1
    BY <1>4 DEF KeyAt
  <2>2. DictSet(d, key, v) = new
    <3>. HIDE DEF i
    <3>1. DictSet(d, key, v) = [d EXCEPT !.kids = [d.kids EXCEPT ![i + 1] = v]]
      BY <1>4 DEF DictSet, i
    <3>2. [d EXCEPT !.kids = [d.kids EXCEPT ![i + 1] = v]] = Val(d.t, d.n, d.d, d.names, [d.kids EXCEPT ![i + 1] = v])
      BY <1>1, ChangedIs, Zenon
    <3> QED
      BY <1>1, <3>1, <3>2
  <2>. HIDE DEF i
  <2>3. (i + 1) % 2 = 0
    BY <1>2, <2>1
  <2>4. IsSequence(kids) /\ Len(kids) = Len(d.kids) /\ DOMAIN kids = DOMAIN d.kids
        /\ \A j \in DOMAIN d.kids : kids[j] = IF j = i + 1 THEN v ELSE d.kids[j]
    BY <1>1, ReplacedIs
  <2>. HIDE DEF kids
  <2>5. new.t = "Dict" /\ new.kids = kids /\ IsValue(new)
    BY DEF IsValue, Val
  <2>6. \A j \in DOMAIN kids : /\ j % 2 = 1 => kids[j].t = "String" /\ KeyFits(kids[j], Keys(T))
                               /\ j % 2 = 0 => Typed(kids[j], Inner(T))
    <3>1. TAKE j \in DOMAIN kids
    <3>2. CASE j = i + 1
      BY <2>3, <2>4, <3>2
    <3>3. CASE j # i + 1
      BY <1>1, <2>4, <3>3
    <3> QED
      BY <3>2, <3>3
  <2>. HIDE DEF new
  <2>7. Typed(new, T)
    BY <1>1, <2>4, <2>5, <2>6, DictTyped
  <2> QED
    BY <2>2, <2>7
<1>5. CASE key.t = "String" /\ Takes(d, v) /\ KeyAt(d, key.names) = {}
  <2>. DEFINE kids == d.kids \o <<key, v>>
              new  == Val("Dict", d.n, d.d, LockFor(d, v), kids)
              n    == Len(d.kids)
  <2>1. DictSet(d, key, v) = new
    <3>1. DictSet(d, key, v) = [d EXCEPT !.names = LockFor(d, v), !.kids = kids]
      BY <1>5 DEF DictSet
    <3>. HIDE DEF kids, n, new
    <3>3. IsValue(d)
      BY <1>1
    <3>2. \A names : [d EXCEPT !.names = names, !.kids = kids] = Val(d.t, d.n, d.d, names, kids)
      BY <3>3, ChangedIs, Zenon
    <3> QED
      BY <1>1, <3>1, <3>2 DEF new
  <2>2. /\ IsSequence(kids) /\ Len(kids) = n + 2 /\ kids[n + 1] = key /\ kids[n + 2] = v
        /\ \A j \in 1 .. n : kids[j] = d.kids[j]
    BY <1>1, JoinedIs
  <2>. HIDE DEF kids
  <2>3. new.t = "Dict" /\ new.kids = kids /\ IsValue(new)
    BY DEF IsValue, Val
  <2>. HIDE DEF n
  <2>4. DOMAIN kids = 1 .. (n + 2)
    BY <2>2, SequenceIs
  <2>5. n \in Nat /\ DOMAIN d.kids = 1 .. n /\ n % 2 = 0
    BY <1>1, <1>2 DEF n
  <2>6. KeyFits(key, Keys(T))
    <3>1. 1 \in DOMAIN Keys(T)
      BY TypeIs, SequenceIs
    <3>2. Keys(T)[1].base = key.t
      BY <1>5 DEF Base
    <3>3. 1 .. (1 - 1) = {}
      OBVIOUS
    <3> QED
      BY <3>1, <3>2, <3>3 DEF KeyFits
  <2>7. \A j \in DOMAIN kids : /\ j % 2 = 1 => kids[j].t = "String" /\ KeyFits(kids[j], Keys(T))
                               /\ j % 2 = 0 => Typed(kids[j], Inner(T))
    <3>1. TAKE j \in DOMAIN kids
    <3>2. CASE j = n + 1
      <4>1. ~ (j % 2 = 0)
        BY <2>5, <3>2
      <4> QED
        BY <1>5, <2>2, <2>6, <3>2, <4>1
    <3>3. CASE j = n + 2
      <4>1. ~ (j % 2 = 1)
        BY <2>5, <3>3
      <4> QED
        BY <2>2, <3>3, <4>1
    <3>4. CASE j \in 1 .. n
      BY <1>1, <2>2, <2>5, <3>4
    <3>5. j \in 1 .. n \/ j = n + 1 \/ j = n + 2
      BY <2>4, <2>5, <3>1
    <3> QED
      BY <3>2, <3>3, <3>4, <3>5
  <2>8. Len(kids) % 2 = 0
    BY <2>2, <2>5
  <2>. HIDE DEF new
  <2>9. Typed(new, T)
    BY <2>2, <2>3, <2>7, <2>8, DictTyped
  <2> QED
    BY <2>1, <2>9
<1> QED
  BY <1>3, <1>4, <1>5

LEMMA DictFromTyped ==
  ASSUME NEW vs, IsSequence(vs), Len(vs) % 2 = 0, NEW K, IsType(K), NEW E, IsType(E), E = Unknown => vs = <<>>,
         Base(K) = "String" \/ vs = <<>>,
         \A j \in DOMAIN vs : j % 2 = 0 => Typed(vs[j], E)
  PROVE  Typed(DictFrom(vs), DictOf(K, E))
<1>. DEFINE n == Len(vs) \div 2
            Z == Val("Dict", 0, 1, <<>>, <<>>)
            T == DictOf(K, E)
<1>1. Len(vs) \in Nat /\ DOMAIN vs = 1 .. Len(vs) /\ (vs = <<>> => Len(vs) = 0)
  BY SequenceIs
<1>2. IsType(T) /\ Base(T) = "Dict" /\ Inner(T) = E /\ Keys(T) = K
  BY DictOfIs
<1>3. PICK f : f[0] = Z /\ (\A m \in 1 .. n : f[m] = DictSet(f[m - 1], vs[2 * m - 1], vs[2 * m])) /\ DictFrom(vs) = f[n]
  BY DictFromIs
<1>4. Typed(Z, T)
  <2>1. IsValue(Z) /\ Z.t = "Dict" /\ Z.kids = <<>> /\ Len(<<>>) % 2 = 0
    BY DEF IsValue, Val
  <2>2. DOMAIN <<>> = {}
    OBVIOUS
  <2>. HIDE DEF Z, T
  <2> QED
    BY <1>2, <2>1, <2>2, EmptyIs, DictTyped
<1>8. n \in Nat /\ Len(vs) = 2 * n
  <2>1. \A l \in Nat : l % 2 = 0 => (l \div 2) \in Nat /\ l = 2 * (l \div 2)
    OBVIOUS
  <2> QED
    BY <1>1, <2>1
<1>. DEFINE A == {m \in 0 .. n : Typed(f[m], T)}
<1>. HIDE DEF T, Z, n
<1>5. 0 \in A
  BY <1>3, <1>4, <1>8
<1>6. ASSUME NEW m \in 1 .. n, m - 1 \in A
      PROVE  m \in A
  <2>1. 2 * m \in DOMAIN vs /\ (2 * m) % 2 = 0 /\ m \in 0 .. n /\ vs # <<>>
    BY <1>1, <1>6, <1>8
  <2>2. Typed(f[m - 1], T) /\ Typed(vs[2 * m], Inner(T)) /\ Inner(T) # Unknown /\ Base(Keys(T)) = "String"
    BY <1>2, <1>6, <2>1
  <2>3. Typed(DictSet(f[m - 1], vs[2 * m - 1], vs[2 * m]), T)
    BY <1>2, <2>2, DictSetTyped
  <2> QED
    BY <1>3, <2>1, <2>3
<1>7. 0 .. n \subseteq A
  <2>. HIDE DEF A
  <2> QED
    BY <1>5, <1>6, <1>8, UpTo
<1> QED
  BY <1>3, <1>7, <1>8 DEF T

\* Only texts are compatible with texts.
LEMMA CompatibleText ==
  ASSUME NEW I, IsType(I), NEW K, IsSequence(K), K # <<>>, Base(K) = "String", Compatible(I, K)
  PROVE  Base(I) = "String"
<1>1. PICK n \in DOMAIN I \cap DOMAIN K :
         /\ \A i \in 1 .. (n - 1) : Alike(I[i], K[i])
         /\ \/ AtOnce(From(I, n), From(K, n))
            \/ I[n].base = "Array" /\ K[n].base = "Array" /\ From(I, n + 1) = Unknown
            \/ I[n].base = "Dict" /\ K[n].base = "Dict" /\ From(I, n) = DictOf(Unknown, Unknown)
  BY DEF Compatible
<1>2. n \in Nat /\ 1 <= n
  BY <1>1, TypeIs
<1>3. ~ Alike(I[1], K[1])
  BY DEF Alike, Base
<1>4. n = 1
  <2>1. n # 1 => 1 \in 1 .. (n - 1)
    BY <1>2
  <2> QED
    BY <1>1, <1>3, <2>1
<1>5. AtOnce(From(I, 1), From(K, 1))
  BY <1>1, <1>4 DEF Base
<1>6. From(I, 1) = I /\ From(K, 1) = K
  <2>1. Len(I) \in Nat \ {0} /\ Len(K) \in Nat \ {0} /\ IsSequence(I)
    BY TypeIs, SequenceIs
  <2> QED
    BY <2>1, FromIs
<1> QED
  BY <1>5, <1>6 DEF AtOnce

LEMMA NextIs ==
  ASSUME NEW n \in Nat, n % 2 = 0, NEW j \in 1 .. n, j % 2 = 1
  PROVE  j + 1 \in 1 .. n /\ (j + 1) % 2 = 0
OBVIOUS

LEMMA IndexTyped ==
  ASSUME NEW T, IsType(T), NEW I, IsType(I), IndexType(T, I) # None, Base(T) = "Dict" => Base(Keys(T)) = "String",
         NEW c, Typed(c, T), NEW i, Typed(i, I)
  PROVE  IndexOp(c, i) = Abort \/ Typed(IndexOp(c, i), IndexType(T, I))
<1>1. /\ IsSequence(c.kids) /\ (c.t = Base(T) \/ Base(T) = "Optional")
      /\ i.t = Base(I) \/ Base(I) = "Optional"
  BY TypedIs
<1>2. T # None /\ I # None
  BY NoneIs
<1>3. CASE IndexOp(c, i) = Abort
  BY <1>3
<1>4. CASE Base(T) = "Dict" /\ IndexOp(c, i) # Abort
  <2>1. IndexType(T, I) = Inner(T) /\ Compatible(I, Keys(T))
    BY <1>2, <1>4 DEF IndexType
  <2>2. Base(I) = "String" /\ c.t = "Dict" /\ i.t = "String"
    BY <1>1, <1>4, <2>1, TypeIs, CompatibleText
  <2>3. /\ Len(c.kids) % 2 = 0 /\ \A j \in DOMAIN c.kids : j % 2 = 0 => Typed(c.kids[j], Inner(T))
    BY <1>4, TypedIs
  <2>. DEFINE j == CHOOSE j \in KeyAt(c, i.names) : TRUE
  <2>4. KeyAt(c, i.names) # {} /\ IndexOp(c, i) = c.kids[j + 1]
    BY <1>4, <2>2 DEF IndexOp, Unwrapped
  <2>5. j \in DOMAIN c.kids /\ j % 2 = 1
    BY <2>4 DEF KeyAt
  <2>. HIDE DEF j
  <2>6. j + 1 \in DOMAIN c.kids /\ (j + 1) % 2 = 0
    <3>1. Len(c.kids) \in Nat /\ DOMAIN c.kids = 1 .. Len(c.kids)
      BY <1>1, SequenceIs
    <3> QED
      BY <2>3, <2>5, <3>1, NextIs
  <2> QED
    BY <2>1, <2>3, <2>4, <2>6
<1>5. CASE Base(T) = "Array" /\ IndexOp(c, i) # Abort
  <2>1. IndexType(T, I) = Inner(T) /\ c.t = "Array" /\ i.t = "Int"
    BY <1>1, <1>2, <1>5 DEF IndexType
  <2>2. Place(i, Len(c.kids)) \in 1 .. Len(c.kids) /\ IndexOp(c, i) = c.kids[Place(i, Len(c.kids))]
    BY <1>5, <2>1 DEF IndexOp, Unwrapped
  <2>3. \A j \in DOMAIN c.kids : Typed(c.kids[j], Inner(T))
    BY <1>5, TypedIs
  <2> QED
    BY <1>1, <2>1, <2>2, <2>3, SequenceIs
<1>6. CASE Base(T) = "String" /\ IndexOp(c, i) # Abort
  <2>1. IndexType(T, I) = T /\ c.t = "String" /\ i.t = "Int"
    BY <1>1, <1>2, <1>6 DEF IndexType
  <2>2. \E w : IndexOp(c, i) = TextV(w)
    BY <1>6, <2>1 DEF IndexOp, Unwrapped
  <2> QED
    BY <1>6, <2>1, <2>2, MadeTyped
<1>7. Base(T) \in {"Dict", "Array", "String"}
  BY <1>2 DEF IndexType
<1> QED
  BY <1>3, <1>4, <1>5, <1>6, <1>7

LEMMA LengthTyped ==
  ASSUME NEW c, NEW op, op = "?." => Unwrapped(c).t # "Nil", NEW T, Base(T) = "Int"
  PROVE  MemberOp(c, op, "length") = Abort \/ Typed(MemberOp(c, op, "length"), T)
<1>1. MemberOp(c, op, "length") = Abort \/ \E n : MemberOp(c, op, "length") = IntV(n)
  BY DEF MemberOp
<1> QED
  BY <1>1, MadeTyped

LEMMA MemberTyped ==
  ASSUME NEW T, IsType(T), NEW m, MemberType(T, m) \notin {None, Unknown}, NEW op, NEW c, Typed(c, T),
         ~ (op = "?." /\ m = "length" /\ Base(T) \in {"Nil", "Optional"})
  PROVE  MemberOp(c, op, m) = Abort \/ Typed(MemberOp(c, op, m), MemberType(T, m))
<1>1. IsSequence(c.kids) /\ (c.t = Base(T) \/ Base(T) = "Optional")
  BY TypedIs
<1>2. T # None
  BY NoneIs
<1>3. CASE m = "length"
  <2>1. MemberType(T, m) = Primitive("Int") /\ Base(Primitive("Int")) = "Int"
    BY <1>2, <1>3, PrimitiveIs DEF MemberType
  <2>2. op = "?." => Unwrapped(c).t # "Nil"
    BY <1>1, <1>3 DEF Unwrapped
  <2> QED
    BY <1>3, <2>1, <2>2, LengthTyped
<1>4. CASE MemberOp(c, op, m) = Abort
  BY <1>4
<1>5. CASE m # "length" /\ Base(T) = "Dict" /\ MemberOp(c, op, m) # Abort
  <2>1. MemberType(T, m) = Inner(T) /\ c.t = "Dict"
    BY <1>1, <1>2, <1>5 DEF MemberType
  <2>2. /\ Len(c.kids) % 2 = 0 /\ \A j \in DOMAIN c.kids : j % 2 = 0 => Typed(c.kids[j], Inner(T))
    BY <1>5, TypedIs
  <2>. DEFINE j == CHOOSE j \in KeyAt(c, <<m>>) : TRUE
  <2>3. KeyAt(c, <<m>>) # {} /\ MemberOp(c, op, m) = c.kids[j + 1]
    BY <1>5, <2>1 DEF MemberOp, Unwrapped
  <2>4. j \in DOMAIN c.kids /\ j % 2 = 1
    BY <2>3 DEF KeyAt
  <2>. HIDE DEF j
  <2>5. j + 1 \in DOMAIN c.kids /\ (j + 1) % 2 = 0
    <3>1. Len(c.kids) \in Nat /\ DOMAIN c.kids = 1 .. Len(c.kids)
      BY <1>1, SequenceIs
    <3> QED
      BY <2>2, <2>4, <3>1, NextIs
  <2> QED
    BY <2>1, <2>2, <2>3, <2>5
<1>6. CASE m # "length" /\ Base(T) = "Struct" /\ MemberOp(c, op, m) # Abort
  <2>1. c.t = "Struct" /\ m \in Fields(NameOf(T[1])) /\ MemberType(T, m) = Structs[NameOf(T[1])][m]
    BY <1>1, <1>2, <1>6 DEF MemberType
  <2>. DEFINE j == CHOOSE j \in FieldOf(c, m) : TRUE
  <2>2. FieldOf(c, m) # {} /\ MemberOp(c, op, m) = c.kids[j]
    BY <1>6, <2>1 DEF MemberOp, Unwrapped
  <2>3. j \in DOMAIN c.kids /\ c.names[j + 1] = m
    BY <2>2 DEF FieldOf
  <2>. HIDE DEF j
  <2>4. \A n \in DOMAIN c.kids : c.names[n + 1] \in Fields(NameOf(T[1])) =>
           Typed(c.kids[n], Structs[NameOf(T[1])][c.names[n + 1]])
    BY <1>6, TypedIs
  <2> QED
    BY <2>1, <2>2, <2>3, <2>4
<1>7. m = "length" \/ Base(T) \in {"Dict", "Struct"}
  BY <1>2 DEF MemberType
<1> QED
  BY <1>3, <1>4, <1>5, <1>6, <1>7

\* The fields that the struct declares are looked at, the others are not.
LEMMA StructFromTyped ==
  ASSUME NEW w, NEW ts, NEW vs, IsSequence(vs),
         \A j \in DOMAIN vs : w[j + 1] \in Fields(w[1]) =>
            IsType(ts[j]) /\ Typed(vs[j], ts[j]) /\ Compatible(ts[j], Structs[w[1]][w[j + 1]])
  PROVE  Typed(Val("Struct", 0, 1, w, vs), StructOf(w, ts))
<1>. DEFINE v == Val("Struct", 0, 1, w, vs)
            T == StructOf(w, ts)
<1>1. IsValue(v) /\ v.t = "Struct" /\ v.names = w /\ v.kids = vs
  BY DEF IsValue, Val
<1>2. Base(T) = "Struct" /\ NameOf(T[1]) = w[1]
  BY StructOfIs
<1>3. ASSUME NEW j \in DOMAIN vs, w[j + 1] \in Fields(w[1])
      PROVE  Typed(vs[j], Structs[w[1]][w[j + 1]])
  <2>1. IsType(Structs[w[1]][w[j + 1]])
    BY <1>3, StructsAssumption DEF Fields
  <2> QED
    BY <1>3, <2>1, CompatibleTyped
<1>. HIDE DEF v, T
<1>4. Typed(v, T)
  BY <1>1, <1>2, <1>3, StructTyped
<1> QED
  BY <1>4 DEF v, T

-----------------------------------------------------------------------------
(* What is built in a node is of the type of the node, or of a type that   *)
(* nobody told, or the process has ended.                                  *)

Computes(tree, k) ==
  \/ Unboxed(tree, env)[k].v = Abort
  \/ Untold(tree, k)
  \/ Typed(Unboxed(tree, env)[k].v, TypesOf(tree, types)[k])

VarsOK(tree) ==
  /\ \A x \in DOMAIN types : IsType(types[x])
  /\ \A x \in Vars(tree) : Typed(env[x].v, types[x]) /\ RawOK(env[x])

Ready(tree, k) ==
  /\ IsTree(tree) /\ Analysed(tree, types) /\ VarsOK(tree)
  /\ k \in DOMAIN tree /\ ~ Unsound(tree, k)
  /\ \A j \in DOMAIN tree[k].kids : Computes(tree, tree[k].kids[j])

LEMMA NodeIs ==
  ASSUME NEW tree, NEW k, Ready(tree, k)
  PROVE  /\ TypesOf(tree, types)[k] = NodeType(tree[k], PartTypes(tree, k), types)
         /\ TypesOf(tree, types)[k] # None /\ IsType(TypesOf(tree, types)[k])
         /\ Builds(tree, Unboxed(tree, env), env, k)
         /\ CanUnbox(tree)[k] = Unboxable(tree[k], OfParts(tree[k], CanUnbox(tree)))
         /\ Len(tree[k].kids) \in Nat /\ DOMAIN tree[k].kids = 1 .. Len(tree[k].kids)
         /\ IsSequence(PartTypes(tree, k)) /\ Len(PartTypes(tree, k)) = Len(tree[k].kids)
         /\ tree[k].kids # <<>> <=> Len(tree[k].kids) # 0
<1>1. IsTree(tree) /\ k \in DOMAIN tree /\ Analysed(tree, types) /\ \A x \in DOMAIN types : IsType(types[x])
  BY DEF Ready, VarsOK
<1>2. TypesOf(tree, types)[k] = NodeType(tree[k], PartTypes(tree, k), types)
  BY <1>1, TypesOfIs DEF PartTypes
<1>3. TypesOf(tree, types)[k] # None
  BY <1>1 DEF Analysed
<1>4. IsType(TypesOf(tree, types)[k])
  BY <1>1, TypesAre
<1>5. Builds(tree, Unboxed(tree, env), env, k)
  BY <1>1, BuiltIs
<1>6. CanUnbox(tree)[k] = Unboxable(tree[k], OfParts(tree[k], CanUnbox(tree)))
  BY <1>1, CanUnboxIs
<1>7. Len(tree[k].kids) \in Nat /\ DOMAIN tree[k].kids = 1 .. Len(tree[k].kids)
  BY <1>1, TreeIs
<1>8. IsSequence(PartTypes(tree, k)) /\ Len(PartTypes(tree, k)) = Len(tree[k].kids)
  BY <1>1, PartsAre DEF PartTypes
<1>9. tree[k].kids # <<>> <=> Len(tree[k].kids) # 0
  <2>1. tree[k].kids \in Seq(1 .. (k - 1))
    BY <1>1 DEF IsTree
  <2> QED
    BY <2>1
<1> QED
  BY <1>2, <1>3, <1>4, <1>5, <1>6, <1>7, <1>8, <1>9

LEMMA KidIs ==
  ASSUME NEW tree, NEW k, Ready(tree, k), NEW j \in DOMAIN tree[k].kids, NEW i, i = tree[k].kids[j]
  PROVE  /\ i \in DOMAIN tree /\ PartTypes(tree, k)[j] = TypesOf(tree, types)[i] /\ IsType(TypesOf(tree, types)[i])
         /\ TypesOf(tree, types)[i] \in Range(PartTypes(tree, k)) /\ Base(TypesOf(tree, types)[i]) \in PartBases(tree, k)
         /\ RawOK(Unboxed(tree, env)[i])
         /\ TypesOf(tree, types)[i] # Unknown => ~ Untold(tree, i)
         /\ ~ Untold(tree, i) => Typed(Unboxed(tree, env)[i].v, TypesOf(tree, types)[i]) \/ Unboxed(tree, env)[i].v = Abort
<1>1. i \in DOMAIN tree /\ IsTree(tree) /\ k \in DOMAIN tree
  BY TreeIs DEF Ready
<1>2. IsType(TypesOf(tree, types)[i])
  BY <1>1, TypesAre DEF Ready, VarsOK
<1>3. RawOK(Unboxed(tree, env)[i])
  BY <1>1, SlotsRaw DEF Ready, VarsOK
<1>4. PartTypes(tree, k)[j] = TypesOf(tree, types)[i] /\ j \in DOMAIN PartTypes(tree, k)
  BY <1>1, PartsAre DEF PartTypes
<1>5. TypesOf(tree, types)[i] \in Range(PartTypes(tree, k)) /\ Base(TypesOf(tree, types)[i]) \in PartBases(tree, k)
  BY <1>4 DEF Range, PartBases
<1>6. ~ Untold(tree, i) => Typed(Unboxed(tree, env)[i].v, TypesOf(tree, types)[i]) \/ Unboxed(tree, env)[i].v = Abort
  BY DEF Ready, Computes
<1>7. TypesOf(tree, types)[i] # Unknown => ~ Untold(tree, i)
  BY DEF Untold
<1> QED
  BY <1>1, <1>2, <1>3, <1>4, <1>5, <1>6, <1>7

LEMMA LeafNode ==
  ASSUME NEW tree, NEW k, Ready(tree, k), tree[k].kind \in {"literal", "string", "var", "method_call"}
  PROVE  Computes(tree, k)
<1>. DEFINE T == TypesOf(tree, types)[k]
            v == Unboxed(tree, env)[k].v
            w == tree[k].words[1]
            s == Unboxed(tree, env)
<1>1. T = NodeType(tree[k], PartTypes(tree, k), types) /\ T # None /\ IsType(T) /\ Builds(tree, s, env, k)
  BY NodeIs
<1>2. CanUnbox(tree)[k] = Unboxable(tree[k], OfParts(tree[k], CanUnbox(tree)))
  BY NodeIs
<1>3. CASE tree[k].kind = "literal"
  <2>1. w \in {"nil", "true", "false"} \cup DOMAIN Meaning /\ T = LiteralType(w)
    BY <1>1, <1>3 DEF Ready, IsTree, NodeType
  <2>2. v = LiteralValue(w)
    <3>1. CASE CanUnbox(tree)[k]
      BY <1>1, <1>3, <3>1 DEF Builds, Raw, Slot
    <3>2. CASE ~ CanUnbox(tree)[k]
      <4>1. v = NilValue
        BY <1>1, <1>3, <3>2 DEF Builds, Boxed, Slot, FromParts
      <4>2. w = "nil"
        BY <1>2, <1>3, <3>2 DEF Unboxable
      <4> QED
        BY <4>1, <4>2 DEF LiteralValue
    <3> QED
      BY <3>1, <3>2
  <2>. HIDE DEF T, v, w
  <2>3. CASE w = "nil"
    <3>1. v = NilValue /\ Base(T) = "Nil"
      BY <2>1, <2>2, <2>3, UnknownIs DEF LiteralValue, LiteralType
    <3>2. Typed(v, T)
      BY <3>1, MadeTyped
    <3> QED
      BY <3>2 DEF Computes, v, T
  <2>4. CASE w \in {"true", "false"}
    <3>1. v = BoolV(w = "true") /\ Base(T) = "Bool"
      BY <2>1, <2>2, <2>4, PrimitiveIs DEF LiteralValue, LiteralType
    <3>2. Typed(v, T)
      BY <3>1, MadeTyped
    <3> QED
      BY <3>2 DEF Computes, v, T
  <2>5. CASE w \notin {"nil", "true", "false"}
    <3>1. v = Meaning[w] /\ Base(T) = Meaning[w].t
      BY <2>1, <2>2, <2>5, PrimitiveIs DEF LiteralValue, LiteralType
    <3>2. IsValue(v) /\ v.kids = <<>> /\ v.t \in {"Int", "Double"}
      BY <2>1, <2>5, <3>1, MeaningAssumption DEF Numeric
    <3>3. Typed(v, T)
      BY <3>1, <3>2, EmptyIs, ScalarTyped
    <3> QED
      BY <3>3 DEF Computes, v, T
  <2> QED
    BY <2>3, <2>4, <2>5
<1>4. CASE tree[k].kind = "string"
  <2>1. v = TextV(<<"s">>)
    BY <1>1, <1>4 DEF Builds, Boxed, Slot, FromParts
  <2>2. Base(T) = "String"
    BY <1>1, <1>4, PrimitiveIs DEF NodeType
  <2>3. Typed(v, T)
    BY <2>1, <2>2, MadeTyped
  <2> QED
    BY <2>3 DEF Computes
<1>5. CASE tree[k].kind = "var"
  <2>1. CanUnbox(tree)[k]
    BY <1>2, <1>5 DEF Unboxable
  <2>2. s[k] = env[w] /\ w \in Vars(tree)
    BY <1>1, <1>5, <2>1 DEF Builds
  <2>3. T = types[w]
    BY <1>1, <1>5 DEF NodeType
  <2>4. Typed(env[w].v, types[w])
    BY <2>2 DEF Ready, VarsOK
  <2> QED
    BY <2>2, <2>3, <2>4 DEF Computes
<1>6. CASE tree[k].kind = "method_call"
  <2>1. T = Unknown
    BY <1>1, <1>6 DEF NodeType
  <2> QED
    BY <1>6, <2>1 DEF Computes, Untold
<1> QED
  BY <1>3, <1>4, <1>5, <1>6

LEMMA BinaryNode ==
  ASSUME NEW tree, NEW k, Ready(tree, k), tree[k].kind = "binary"
  PROVE  Computes(tree, k)
<1>. DEFINE T == TypesOf(tree, types)
            s == Unboxed(tree, env)
            op == tree[k].words[1]
            l == tree[k].kids[1]
            r == tree[k].kids[2]
            vs == [j \in DOMAIN tree[k].kids |-> s[tree[k].kids[j]].v]
<1>1. /\ T[k] = NodeType(tree[k], PartTypes(tree, k), types) /\ T[k] # None /\ IsType(T[k]) /\ Builds(tree, s, env, k)
      /\ op \in Arithmetic \cup Comparisons \cup {"&&", "||"}
      /\ DOMAIN tree[k].kids = {1, 2}
  BY NodeIs, PlacesAre DEF Ready, IsTree
<1>2. /\ PartTypes(tree, k)[1] = T[l] /\ IsType(T[l]) /\ Base(T[l]) \in PartBases(tree, k) /\ RawOK(s[l])
      /\ T[l] # Unknown => Typed(s[l].v, T[l]) \/ s[l].v = Abort
  BY <1>1, KidIs
<1>3. /\ PartTypes(tree, k)[2] = T[r] /\ IsType(T[r]) /\ Base(T[r]) \in PartBases(tree, k) /\ RawOK(s[r])
      /\ T[r] # Unknown => Typed(s[r].v, T[r]) \/ s[r].v = Abort
  BY <1>1, KidIs
<1>4. PartBases(tree, k) = {Base(T[l]), Base(T[r])}
  <2>1. DOMAIN PartTypes(tree, k) = {1, 2}
    BY <1>1 DEF PartTypes, OfParts
  <2>2. Range(PartTypes(tree, k)) = {T[l], T[r]}
    BY <1>2, <1>3, <2>1 DEF Range
  <2> QED
    BY <2>2 DEF PartBases
<1>5. T[k] = BinaryType(op, T[l], T[r])
  BY <1>1, <1>2, <1>3 DEF NodeType
<1>6. ~ Incomparable(tree, k) /\ ~ Remainder(tree, k)
  BY DEF Ready, Unsound
<1>. HIDE DEF T, s, l, r
<1>7. Sensible(op, T[l], T[r])
  <2>1. op \in Comparisons => Base(T[l]) = Base(T[r]) /\ ~ PartBases(tree, k) \subseteq {"Nil", "Optional"}
    BY <1>4, <1>6 DEF Incomparable
  <2>2. op \in Comparisons /\ Base(T[l]) \in {"Array", "Dict", "Struct"} => op \in {"==", "!="}
    <3>1. op \in Comparisons => Base(T[l]) = Base(T[r])
      BY <2>1
    <3>2. op \in Comparisons /\ PartBases(tree, k) \subseteq {"Array", "Dict", "Struct"} => op \in {"==", "!="}
      BY <1>6 DEF Incomparable
    <3> QED
      BY <1>4, <3>1, <3>2
  <2>3. ~ (op = "%" /\ Base(T[l]) = "Double")
    <3>1. SUFFICES ASSUME op = "%", Base(T[l]) = "Double"
                   PROVE  FALSE
      OBVIOUS
    <3>2. T[l] = T[r]
      BY <1>1, <1>5, <3>1 DEF BinaryType, Comparisons
    <3> QED
      BY <1>4, <1>6, <3>1, <3>2 DEF Remainder
  <2> QED
    BY <1>1, <1>2, <1>3, <1>4, <1>5, <2>1, <2>2, <2>3 DEF Sensible
<1>8. T[l] # Unknown /\ T[r] # Unknown
  <2>1. Base(T[l]) # "Nil" /\ Base(T[r]) # "Nil"
    <3>1. op \in Comparisons => Base(T[l]) # "Nil" /\ Base(T[r]) # "Nil"
      BY <1>7 DEF Sensible
    <3>2. op \notin Comparisons => Base(T[l]) # "Nil" /\ Base(T[r]) # "Nil"
      BY <1>1, <1>7, SensibleIs DEF Numeric
    <3> QED
      BY <3>1, <3>2
  <2> QED
    BY <2>1, UnknownIs
<1>9. CASE CanUnbox(tree)[k]
  <2>1. s[k] = BinaryUnboxed(op, s[l], s[r])
    BY <1>1, <1>9 DEF Builds, l, r
  <2>2. s[k].v = Abort \/ Typed(s[k].v, T[k])
    BY <1>1, <1>2, <1>3, <1>5, <1>7, <1>8, <2>1, BinarySlotTyped
  <2> QED
    BY <2>2 DEF Computes, s, T
<1>10. CASE ~ CanUnbox(tree)[k]
  <2>1. s[k].v = BinaryOp(op, vs[1], vs[2])
    BY <1>1, <1>10 DEF Builds, Boxed, Slot, FromParts
  <2>2. vs[1] = s[l].v /\ vs[2] = s[r].v
    BY <1>1 DEF l, r
  <2>. HIDE DEF vs
  <2>3. CASE Abort \in {s[l].v, s[r].v}
    <3>1. s[k].v = Abort
      BY <2>1, <2>2, <2>3 DEF BinaryOp
    <3> QED
      BY <3>1 DEF Computes, s
  <2>4. CASE Abort \notin {s[l].v, s[r].v}
    <3>1. s[k].v = Abort \/ Typed(s[k].v, T[k])
      BY <1>1, <1>2, <1>3, <1>5, <1>7, <1>8, <2>1, <2>2, <2>4, BinaryTyped
    <3> QED
      BY <3>1 DEF Computes, s, T
  <2> QED
    BY <2>3, <2>4
<1> QED
  BY <1>9, <1>10

LEMMA UnaryNode ==
  ASSUME NEW tree, NEW k, Ready(tree, k), tree[k].kind = "unary"
  PROVE  Computes(tree, k)
<1>. DEFINE T == TypesOf(tree, types)
            s == Unboxed(tree, env)
            op == tree[k].words[1]
            i == tree[k].kids[1]
            vs == [j \in DOMAIN tree[k].kids |-> s[tree[k].kids[j]].v]
<1>1. /\ T[k] = NodeType(tree[k], PartTypes(tree, k), types) /\ T[k] # None /\ Builds(tree, s, env, k)
      /\ op \in {"-", "!"}
      /\ DOMAIN tree[k].kids = {1}
  BY NodeIs, PlacesAre DEF Ready, IsTree
<1>2. /\ PartTypes(tree, k)[1] = T[i] /\ IsType(T[i]) /\ RawOK(s[i])
      /\ T[i] # Unknown => Typed(s[i].v, T[i]) \/ s[i].v = Abort
  BY <1>1, KidIs
<1>3. T[k] = UnaryType(op, T[i])
  BY <1>1, <1>2 DEF NodeType
<1>4. CanUnbox(tree)[k] /\ op = "-" => s[i].kind # "box"
  BY DEF Ready, Unsound, BoxedMinus
<1>. HIDE DEF T, s, i
<1>5. T[i] # Unknown
  BY <1>1, <1>3, UnknownIs DEF UnaryType, Numeric
<1>6. CASE CanUnbox(tree)[k]
  <2>1. s[k] = UnaryUnboxed(op, s[i])
    BY <1>1, <1>6 DEF Builds, i
  <2>2. s[k].v = Abort \/ Typed(s[k].v, T[k])
    BY <1>1, <1>2, <1>3, <1>4, <1>5, <1>6, <2>1, UnarySlotTyped
  <2> QED
    BY <2>2 DEF Computes, s, T
<1>7. CASE ~ CanUnbox(tree)[k]
  <2>1. s[k].v = IF op = "!" THEN UnaryNot(vs[1]) ELSE BinaryOp("-", IntV(0), vs[1])
    BY <1>1, <1>7 DEF Builds, Boxed, Slot, FromParts
  <2>2. vs[1] = s[i].v
    BY <1>1 DEF i
  <2>. HIDE DEF vs
  <2>3. s[k].v = Abort \/ Typed(s[k].v, T[k])
    BY <1>1, <1>2, <1>3, <1>5, <2>1, <2>2, UnaryTyped
  <2> QED
    BY <2>3 DEF Computes, s, T
<1> QED
  BY <1>6, <1>7

\* The values of the parts, when there is no unboxed way.
KidValues(tree, k) == [j \in DOMAIN tree[k].kids |-> Unboxed(tree, env)[tree[k].kids[j]].v]

LEMMA BoxNode ==
  ASSUME NEW tree, NEW k, Ready(tree, k), tree[k].kind \notin {"literal", "var", "binary", "unary"},
         NEW vs, vs = KidValues(tree, k)
  PROVE  /\ Unboxed(tree, env)[k].v = FromParts(tree[k], vs)
         /\ IsSequence(vs) /\ Len(vs) = Len(tree[k].kids) /\ DOMAIN vs = DOMAIN tree[k].kids
         /\ vs # <<>> <=> tree[k].kids # <<>>
         /\ \A j \in DOMAIN tree[k].kids : vs[j] = Unboxed(tree, env)[tree[k].kids[j]].v
<1>1. /\ Builds(tree, Unboxed(tree, env), env, k)
      /\ Len(tree[k].kids) \in Nat /\ DOMAIN tree[k].kids = 1 .. Len(tree[k].kids)
      /\ tree[k].kids # <<>> <=> Len(tree[k].kids) # 0
  BY NodeIs
<1>2. Unboxed(tree, env)[k].v = FromParts(tree[k], vs)
  <2>1. ~ CanUnbox(tree)[k]
    BY <1>1 DEF Builds
  <2>2. Unboxed(tree, env)[k] = Boxed(FromParts(tree[k], vs))
    BY <1>1, <2>1 DEF Builds, KidValues
  <2>3. \A u : Boxed(u).v = u
    BY DEF Boxed, Slot
  <2> QED
    BY <2>2, <2>3
<1>3. vs = [j \in 1 .. Len(tree[k].kids) |-> vs[j]]
  BY <1>1 DEF KidValues
<1>4. IsSequence(vs) /\ Len(vs) = Len(tree[k].kids) /\ DOMAIN vs = DOMAIN tree[k].kids
  BY <1>1, <1>3, MakeSequence
<1>5. vs # <<>> <=> Len(vs) # 0
  BY <1>4, SequenceIs
<1>6. \A j \in DOMAIN tree[k].kids : vs[j] = Unboxed(tree, env)[tree[k].kids[j]].v
  BY DEF KidValues
<1> QED
  BY <1>1, <1>2, <1>4, <1>5, <1>6

\* Elements, keys and values have one type each, which is not the unknown type.
LEMMA AlikeParts ==
  ASSUME NEW ts, IsSequence(ts), ts # <<>>
  PROVE  /\ ArrayType(ts) # None => ArrayType(ts) = ArrayOf(ts[1]) /\ \A j \in DOMAIN ts : ts[j] = ts[1]
         /\ DictType(ts) # None /\ Len(ts) % 2 = 0 =>
               DictType(ts) = DictOf(ts[1], ts[2]) /\ \A j \in DOMAIN ts : j % 2 = 0 => ts[j] = ts[2]
<1>1. Len(ts) \in Nat \ {0} /\ DOMAIN ts = 1 .. Len(ts)
  BY SequenceIs
<1>2. ArrayType(ts) # None => ArrayType(ts) = ArrayOf(ts[1]) /\ \A j \in DOMAIN ts : ts[j] = ts[1]
  BY DEF ArrayType, SameTypes
<1>3. ASSUME DictType(ts) # None, Len(ts) % 2 = 0, NEW j \in DOMAIN ts, j % 2 = 0
      PROVE  ts[j] = ts[2]
  <2>. DEFINE h == Len(ts) \div 2
  <2>1. SameTypes(Evens(ts))
    BY <1>3 DEF DictType
  <2>2. DOMAIN Evens(ts) = 1 .. h /\ \A i \in 1 .. h : Evens(ts)[i] = ts[2 * i]
    BY DEF Evens
  <2>3. j \div 2 \in 1 .. h /\ 1 \in 1 .. h /\ 2 * (j \div 2) = j /\ 2 * 1 = 2
    BY <1>1, <1>3
  <2>. HIDE DEF h
  <2>4. Evens(ts)[j \div 2] = ts[j] /\ Evens(ts)[1] = ts[2]
    BY <2>2, <2>3
  <2> QED
    BY <2>1, <2>2, <2>3, <2>4 DEF SameTypes
<1>4. DictType(ts) # None => DictType(ts) = DictOf(ts[1], ts[2])
  BY DEF DictType
<1> QED
  BY <1>2, <1>3, <1>4

LEMMA ArrayNode ==
  ASSUME NEW tree, NEW k, Ready(tree, k), tree[k].kind = "array"
  PROVE  Computes(tree, k)
<1>. DEFINE T == TypesOf(tree, types)
            s == Unboxed(tree, env)
            ts == PartTypes(tree, k)
            vs == KidValues(tree, k)
<1>1. /\ s[k].v = FromParts(tree[k], vs) /\ IsSequence(vs) /\ DOMAIN vs = DOMAIN tree[k].kids
      /\ vs # <<>> <=> tree[k].kids # <<>>
      /\ \A j \in DOMAIN tree[k].kids : vs[j] = s[tree[k].kids[j]].v
  BY BoxNode
<1>2. /\ T[k] = NodeType(tree[k], ts, types) /\ T[k] # None
      /\ IsSequence(ts) /\ Len(ts) = Len(tree[k].kids) /\ DOMAIN tree[k].kids = 1 .. Len(tree[k].kids)
      /\ tree[k].kids # <<>> <=> Len(tree[k].kids) # 0
  BY NodeIs
<1>3. DOMAIN ts = DOMAIN tree[k].kids /\ (ts # <<>> <=> tree[k].kids # <<>>)
  BY <1>2, SequenceIs
<1>4. ~ UnknownParts(tree, k)
  BY DEF Ready, Unsound
<1>5. \A j \in DOMAIN tree[k].kids : /\ ts[j] = T[tree[k].kids[j]] /\ IsType(ts[j]) /\ ts[j] \in Range(ts)
                                     /\ ts[j] # Unknown => Typed(vs[j], ts[j]) \/ vs[j] = Abort
  <2>1. TAKE j \in DOMAIN tree[k].kids
  <2> QED
    BY <1>1, <2>1, KidIs
<1>. HIDE DEF T, s, ts, vs
<1>6. s[k].v = Strict(vs, ArrayFrom(vs))
  BY <1>1 DEF FromParts, NewArray
<1>7. CASE \E j \in DOMAIN vs : vs[j] = Abort
  <2>1. s[k].v = Abort
    BY <1>6, <1>7 DEF Strict
  <2> QED
    BY <2>1 DEF Computes, s
<1>8. CASE ~ \E j \in DOMAIN vs : vs[j] = Abort
  <2>. DEFINE E == IF ts = <<>> THEN Unknown ELSE ts[1]
  <2>1. s[k].v = ArrayFrom(vs)
    BY <1>6, <1>8 DEF Strict
  <2>2. T[k] = ArrayType(ts)
    BY <1>2 DEF NodeType
  <2>3. T[k] = ArrayOf(E) /\ \A j \in DOMAIN ts : ts[j] = E
    <3>1. CASE ts = <<>>
      <4>1. DOMAIN ts = {}
        BY <3>1
      <4> QED
        BY <2>2, <3>1, <4>1 DEF ArrayType
    <3>2. CASE ts # <<>>
      BY <1>2, <2>2, <3>2, AlikeParts
    <3> QED
      BY <3>1, <3>2
  <2>4. IsType(E) /\ (ts # <<>> => E # Unknown)
    <3>1. CASE ts = <<>>
      BY <3>1, UnknownIs
    <3>2. CASE ts # <<>>
      <4>1. 1 \in DOMAIN ts
        BY <1>2, <3>2, SequenceIs
      <4>2. Unknown \notin Range(ts)
        BY <1>3, <1>4, <3>2 DEF UnknownParts, ts
      <4> QED
        BY <1>3, <1>5, <3>2, <4>1, <4>2
    <3> QED
      BY <3>1, <3>2
  <2>5. \A j \in DOMAIN vs : Typed(vs[j], E)
    <3>1. TAKE j \in DOMAIN vs
    <3>2. ts # <<>> /\ ts[j] = E /\ vs[j] # Abort
      <4>1. vs # <<>>
        BY <3>1
      <4> QED
        BY <1>1, <1>3, <1>8, <2>3, <3>1, <4>1
    <3> QED
      BY <1>1, <1>5, <2>4, <3>1, <3>2
  <2>. HIDE DEF E
  <2>6. Typed(ArrayFrom(vs), ArrayOf(E))
    BY <1>1, <1>3, <2>4, <2>5, ArrayFromTyped
  <2> QED
    BY <2>1, <2>3, <2>6 DEF Computes, s, T
<1> QED
  BY <1>7, <1>8

LEMMA DictNode ==
  ASSUME NEW tree, NEW k, Ready(tree, k), tree[k].kind = "dict"
  PROVE  Computes(tree, k)
<1>. DEFINE T == TypesOf(tree, types)
            s == Unboxed(tree, env)
            ts == PartTypes(tree, k)
            vs == KidValues(tree, k)
<1>1. /\ s[k].v = FromParts(tree[k], vs) /\ IsSequence(vs) /\ DOMAIN vs = DOMAIN tree[k].kids
      /\ vs # <<>> <=> tree[k].kids # <<>>
      /\ Len(vs) = Len(tree[k].kids)
      /\ \A j \in DOMAIN tree[k].kids : vs[j] = s[tree[k].kids[j]].v
  BY BoxNode
<1>2. /\ T[k] = NodeType(tree[k], ts, types) /\ T[k] # None
      /\ IsSequence(ts) /\ Len(ts) = Len(tree[k].kids) /\ DOMAIN tree[k].kids = 1 .. Len(tree[k].kids)
      /\ tree[k].kids # <<>> <=> Len(tree[k].kids) # 0
      /\ Len(tree[k].kids) \in Nat
  BY NodeIs
<1>3. DOMAIN ts = DOMAIN tree[k].kids /\ (ts # <<>> <=> tree[k].kids # <<>>)
  BY <1>2, SequenceIs
<1>4. ~ UnknownParts(tree, k) /\ ~ OddKeys(tree, k)
  BY DEF Ready, Unsound
<1>5. \A j \in DOMAIN tree[k].kids : /\ ts[j] = T[tree[k].kids[j]] /\ IsType(ts[j]) /\ ts[j] \in Range(ts)
                                     /\ ts[j] # Unknown => Typed(vs[j], ts[j]) \/ vs[j] = Abort
  <2>1. TAKE j \in DOMAIN tree[k].kids
  <2> QED
    BY <1>1, <2>1, KidIs
<1>9. Len(tree[k].kids) % 2 = 0
  <2>1. Len(tree[k].kids) \in Arity(tree[k])
    BY DEF Ready, IsTree
  <2> QED
    BY <2>1 DEF Arity
<1>10. ts # <<>> => Base(T[k]) # "Dict" \/ Base(Keys(T[k])) = "String"
  BY <1>3, <1>4 DEF OddKeys
<1>. HIDE DEF T, s, ts, vs
<1>6. s[k].v = Strict(vs, DictFrom(vs))
  BY <1>1 DEF FromParts, NewDict
<1>7. CASE \E j \in DOMAIN vs : vs[j] = Abort
  <2>1. s[k].v = Abort
    BY <1>6, <1>7 DEF Strict
  <2> QED
    BY <2>1 DEF Computes, s
<1>8. CASE ~ \E j \in DOMAIN vs : vs[j] = Abort
  <2>. DEFINE K == IF ts = <<>> THEN Unknown ELSE ts[1]
              E == IF ts = <<>> THEN Unknown ELSE ts[2]
  <2>1. s[k].v = DictFrom(vs)
    BY <1>6, <1>8 DEF Strict
  <2>2. T[k] = DictType(ts)
    BY <1>2 DEF NodeType
  <2>3. T[k] = DictOf(K, E) /\ \A j \in DOMAIN ts : j % 2 = 0 => ts[j] = E
    <3>1. CASE ts = <<>>
      <4>1. DOMAIN ts = {}
        BY <3>1
      <4> QED
        BY <2>2, <3>1, <4>1 DEF DictType
    <3>2. CASE ts # <<>>
      <4>1. /\ DictType(ts) = DictOf(ts[1], ts[2])
            /\ \A j \in DOMAIN ts : j % 2 = 0 => ts[j] = ts[2]
        BY <1>2, <1>9, <2>2, <3>2, AlikeParts
      <4> QED
        BY <2>2, <3>2, <4>1
    <3> QED
      BY <3>1, <3>2
  <2>4. IsType(K) /\ IsType(E) /\ (ts # <<>> => E # Unknown)
    <3>1. CASE ts = <<>>
      BY <3>1, UnknownIs
    <3>2. CASE ts # <<>>
      <4>1. 1 \in DOMAIN ts /\ 2 \in DOMAIN ts
        <5>1. \A n \in Nat : n # 0 /\ n % 2 = 0 => 1 \in 1 .. n /\ 2 \in 1 .. n
          OBVIOUS
        <5> QED
          BY <1>2, <1>3, <1>9, <3>2, <5>1
      <4>2. Unknown \notin Range(ts)
        BY <1>3, <1>4, <3>2 DEF UnknownParts, ts
      <4> QED
        BY <1>3, <1>5, <3>2, <4>1, <4>2
    <3> QED
      BY <3>1, <3>2
  <2>5. \A j \in DOMAIN vs : j % 2 = 0 => Typed(vs[j], E)
    <3>1. TAKE j \in DOMAIN vs
    <3>2. HAVE j % 2 = 0
    <3>3. ts # <<>> /\ ts[j] = E /\ vs[j] # Abort
      <4>1. vs # <<>>
        BY <3>1
      <4> QED
        BY <1>1, <1>3, <1>8, <2>3, <3>1, <3>2, <4>1
    <3> QED
      BY <1>1, <1>5, <2>4, <3>1, <3>3
  <2>. HIDE DEF K, E
  <2>6. Base(K) = "String" \/ vs = <<>>
    <3>1. Base(T[k]) = "Dict" /\ Keys(T[k]) = K
      BY <2>3, <2>4, DictOfIs
    <3> QED
      BY <1>1, <1>3, <1>10, <3>1
  <2>7. Typed(DictFrom(vs), DictOf(K, E))
    BY <1>1, <1>3, <1>9, <2>4, <2>5, <2>6, DictFromTyped
  <2> QED
    BY <2>1, <2>3, <2>7 DEF Computes, s, T
<1> QED
  BY <1>7, <1>8

LEMMA IndexNode ==
  ASSUME NEW tree, NEW k, Ready(tree, k), tree[k].kind = "index"
  PROVE  Computes(tree, k)
<1>. DEFINE T == TypesOf(tree, types)
            s == Unboxed(tree, env)
            c == tree[k].kids[1]
            i == tree[k].kids[2]
            vs == KidValues(tree, k)
<1>1. /\ T[k] = NodeType(tree[k], PartTypes(tree, k), types) /\ T[k] # None
      /\ DOMAIN tree[k].kids = {1, 2}
      /\ tree[k].kids # <<>> <=> Len(tree[k].kids) # 0
      /\ Len(tree[k].kids) \in Nat /\ DOMAIN tree[k].kids = 1 .. Len(tree[k].kids)
  BY NodeIs, PlacesAre DEF Ready, IsTree
<1>2. /\ s[k].v = FromParts(tree[k], vs) /\ vs[1] = s[c].v /\ vs[2] = s[i].v
  BY <1>1, BoxNode
<1>3. /\ PartTypes(tree, k)[1] = T[c] /\ IsType(T[c])
      /\ T[c] # Unknown => Typed(s[c].v, T[c]) \/ s[c].v = Abort
  BY <1>1, KidIs
<1>4. /\ PartTypes(tree, k)[2] = T[i] /\ IsType(T[i])
      /\ T[i] # Unknown => Typed(s[i].v, T[i]) \/ s[i].v = Abort
  BY <1>1, KidIs
<1>5. T[k] = IndexType(T[c], T[i])
  BY <1>1, <1>3, <1>4 DEF NodeType
<1>6. Base(T[c]) = "Dict" => Base(Keys(T[c])) = "String"
  <2>1. tree[k].kids # <<>>
    <3>1. 1 \in 1 .. Len(tree[k].kids)
      BY <1>1
    <3> QED
      BY <1>1, <3>1
  <2>2. ~ OddKeys(tree, k)
    BY DEF Ready, Unsound
  <2> QED
    BY <1>3, <2>1, <2>2 DEF OddKeys
<1>7. s[k].v = IndexOp(s[c].v, s[i].v)
  BY <1>2 DEF FromParts
<1>. HIDE DEF T, s, c, i, vs
<1>8. T[c] # Unknown /\ T[i] # Unknown
  <2>1. T[c] # None /\ T[i] # None
    BY <1>3, <1>4, NoneIs
  <2>2. Base(T[c]) \in {"Dict", "Array", "String"}
    BY <1>1, <1>5, <2>1 DEF IndexType
  <2>3. Base(T[i]) \in {"Int", "String"}
    <3>1. CASE Base(T[c]) = "Dict"
      <4>1. Compatible(T[i], Keys(T[c]))
        BY <1>1, <1>5, <2>1, <3>1 DEF IndexType
      <4>2. IsSequence(Keys(T[c])) /\ Keys(T[c]) # <<>>
        BY <1>3, <3>1, TypeIs
      <4> QED
        BY <1>4, <1>6, <3>1, <4>1, <4>2, CompatibleText
    <3>2. CASE Base(T[c]) \in {"Array", "String"}
      BY <1>1, <1>5, <2>1, <3>2 DEF IndexType
    <3> QED
      BY <2>2, <3>1, <3>2
  <2> QED
    BY <2>2, <2>3, UnknownIs
<1>9. CASE Abort \in {s[c].v, s[i].v}
  <2>1. s[k].v = Abort
    BY <1>7, <1>9 DEF IndexOp
  <2> QED
    BY <2>1 DEF Computes, s
<1>10. CASE Abort \notin {s[c].v, s[i].v}
  <2>1. s[k].v = Abort \/ Typed(s[k].v, T[k])
    BY <1>1, <1>3, <1>4, <1>5, <1>6, <1>7, <1>8, <1>10, IndexTyped
  <2> QED
    BY <2>1 DEF Computes, s, T
<1> QED
  BY <1>9, <1>10

LEMMA MemberNode ==
  ASSUME NEW tree, NEW k, Ready(tree, k), tree[k].kind = "member"
  PROVE  Computes(tree, k)
<1>. DEFINE T == TypesOf(tree, types)
            s == Unboxed(tree, env)
            c == tree[k].kids[1]
            op == tree[k].words[1]
            m == tree[k].words[2]
            vs == KidValues(tree, k)
<1>1. /\ T[k] = NodeType(tree[k], PartTypes(tree, k), types) /\ T[k] # None
      /\ DOMAIN tree[k].kids = {1}
  BY NodeIs, PlacesAre DEF Ready, IsTree
<1>2. s[k].v = FromParts(tree[k], vs) /\ vs[1] = s[c].v
  BY <1>1, BoxNode
<1>3. /\ PartTypes(tree, k)[1] = T[c] /\ IsType(T[c])
      /\ T[c] # Unknown => Typed(s[c].v, T[c]) \/ s[c].v = Abort
  BY <1>1, KidIs
<1>4. T[k] = MemberType(T[c], m)
  BY <1>1, <1>3 DEF NodeType
<1>5. op = "?." /\ m = "length" => Base(T[c]) \notin {"Nil", "Optional"}
  <2>1. DOMAIN PartTypes(tree, k) = {1}
    BY <1>1, PartsAre DEF Ready, PartTypes
  <2>2. Range(PartTypes(tree, k)) = {T[c]}
    BY <1>3, <2>1 DEF Range
  <2>3. PartBases(tree, k) = {Base(T[c])}
    BY <2>2 DEF PartBases
  <2>4. ~ LengthOfNone(tree, k)
    BY DEF Ready, Unsound
  <2> QED
    BY <2>3, <2>4 DEF LengthOfNone
<1>6. s[k].v = MemberOp(s[c].v, op, m)
  BY <1>2 DEF FromParts
<1>7. CASE T[k] = Unknown
  BY <1>7 DEF Computes, Untold
<1>. HIDE DEF T, s, c, op, m, vs
<1>8. CASE s[c].v = Abort
  <2>1. s[k].v = Abort
    BY <1>6, <1>8 DEF MemberOp
  <2> QED
    BY <2>1 DEF Computes, s
<1>9. CASE T[k] # Unknown /\ s[c].v # Abort
  <2>1. s[k].v = Abort \/ Typed(s[k].v, T[k])
    <3>1. CASE T[c] # Unknown
      BY <1>1, <1>3, <1>4, <1>5, <1>6, <1>9, <3>1, MemberTyped
    <3>2. CASE T[c] = Unknown
      <4>1. m = "length" /\ Base(T[k]) = "Int"
        BY <1>1, <1>3, <1>4, <3>2, NoneIs, UnknownIs, PrimitiveIs DEF MemberType
      <4>2. op # "?."
        BY <1>5, <3>2, <4>1, UnknownIs
      <4> QED
        BY <1>6, <4>1, <4>2, LengthTyped
    <3> QED
      BY <3>1, <3>2
  <2> QED
    BY <2>1 DEF Computes, s, T
<1> QED
  BY <1>7, <1>8, <1>9

LEMMA CallNode ==
  ASSUME NEW tree, NEW k, Ready(tree, k), tree[k].kind = "call"
  PROVE  Computes(tree, k)
<1>. DEFINE T == TypesOf(tree, types)
            s == Unboxed(tree, env)
            f == tree[k].words[1]
            vs == KidValues(tree, k)
<1>1. /\ T[k] = NodeType(tree[k], PartTypes(tree, k), types) /\ T[k] # None
      /\ s[k].v = FromParts(tree[k], vs)
  BY NodeIs, BoxNode
<1>. HIDE DEF T, s, f, vs
<1>2. s[k].v = Strict(vs, IF f = "str" THEN TextV(AsText(vs[1])) ELSE Functions1[f].value)
  BY <1>1 DEF FromParts, f
<1>3. T[k] = IF f = "str" THEN Primitive("String") ELSE IF f \in DOMAIN Functions1 THEN Functions1[f].type ELSE None
  BY <1>1 DEF NodeType, f
<1>4. s[k].v = Abort \/ Typed(s[k].v, T[k])
  <2>1. CASE f = "str"
    <3>1. s[k].v = Abort \/ s[k].v = TextV(AsText(vs[1]))
      BY <1>2, <2>1 DEF Strict
    <3>2. Base(T[k]) = "String"
      BY <1>3, <2>1, PrimitiveIs
    <3> QED
      BY <3>1, <3>2, MadeTyped
  <2>2. CASE f # "str"
    <3>. DEFINE v == Functions1[f].value
    <3>1. s[k].v = Abort \/ s[k].v = v
      BY <1>2, <2>2 DEF Strict
    <3>2. f \in DOMAIN Functions1 /\ T[k] = Functions1[f].type
      BY <1>1, <1>3, <2>2
    <3>3. IsValue(v) /\ v.kids = <<>> /\ v.t \in {"Int", "Double", "Bool", "String"} /\ T[k] = Primitive(v.t)
      BY <3>2, FunctionsAssumption
    <3>. HIDE DEF v
    <3>4. Base(T[k]) = v.t
      BY <3>3, PrimitiveIs
    <3>5. Typed(v, T[k])
      BY <3>3, <3>4, EmptyIs, ScalarTyped
    <3> QED
      BY <3>1, <3>5
  <2> QED
    BY <2>1, <2>2
<1> QED
  BY <1>4 DEF Computes, s, T

LEMMA StructNode ==
  ASSUME NEW tree, NEW k, Ready(tree, k), tree[k].kind = "struct_literal"
  PROVE  Computes(tree, k)
<1>. DEFINE T == TypesOf(tree, types)
            s == Unboxed(tree, env)
            w == tree[k].words
            ts == PartTypes(tree, k)
            vs == KidValues(tree, k)
<1>1. /\ s[k].v = FromParts(tree[k], vs) /\ IsSequence(vs) /\ DOMAIN vs = DOMAIN tree[k].kids
      /\ \A j \in DOMAIN tree[k].kids : vs[j] = s[tree[k].kids[j]].v
  BY BoxNode
<1>2. T[k] = NodeType(tree[k], ts, types) /\ T[k] # None
  BY NodeIs
<1>3. \A j \in DOMAIN tree[k].kids : /\ IsType(ts[j])
                                     /\ ~ Untold(tree, tree[k].kids[j]) => Typed(vs[j], ts[j]) \/ vs[j] = Abort
  <2>1. TAKE j \in DOMAIN tree[k].kids
  <2> QED
    BY <1>1, <2>1, KidIs
<1>4. \A j \in DOMAIN tree[k].kids : w[j + 1] \in Fields(w[1]) =>
         Compatible(ts[j], Structs[w[1]][w[j + 1]]) /\ ~ Untold(tree, tree[k].kids[j])
  BY DEF Ready, Unsound, OtherFields
<1>. HIDE DEF T, s, w, ts, vs
<1>5. s[k].v = Strict(vs, Val("Struct", 0, 1, w, vs))
  BY <1>1 DEF FromParts, NewStruct, w
<1>6. T[k] = StructOf(w, ts)
  BY <1>2 DEF NodeType, w
<1>7. CASE \E j \in DOMAIN vs : vs[j] = Abort
  <2>1. s[k].v = Abort
    BY <1>5, <1>7 DEF Strict
  <2> QED
    BY <2>1 DEF Computes, s
<1>8. CASE ~ \E j \in DOMAIN vs : vs[j] = Abort
  <2>1. s[k].v = Val("Struct", 0, 1, w, vs)
    BY <1>5, <1>8 DEF Strict
  <2>2. \A j \in DOMAIN vs : w[j + 1] \in Fields(w[1]) =>
           IsType(ts[j]) /\ Typed(vs[j], ts[j]) /\ Compatible(ts[j], Structs[w[1]][w[j + 1]])
    BY <1>1, <1>3, <1>4, <1>8
  <2>3. Typed(Val("Struct", 0, 1, w, vs), StructOf(w, ts))
    BY <1>1, <2>2, StructFromTyped
  <2> QED
    BY <1>6, <2>1, <2>3 DEF Computes, s, T
<1> QED
  BY <1>7, <1>8

\* Node by node, whole expressions.
LEMMA TreeComputes ==
  ASSUME NEW tree, IsTree(tree), Analysed(tree, types), VarsOK(tree), \A k \in DOMAIN tree : ~ Unsound(tree, k)
  PROVE  \A k \in DOMAIN tree : Computes(tree, k)
<1>. DEFINE A == {k \in DOMAIN tree : Computes(tree, k)}
            n == Len(tree)
<1>1. n \in Nat /\ DOMAIN tree = 1 .. n
  BY TreeIs
<1>2. ASSUME NEW k \in 1 .. n, 1 .. (k - 1) \subseteq A
      PROVE  k \in A
  <2>1. k \in DOMAIN tree /\ \A j \in DOMAIN tree[k].kids : Computes(tree, tree[k].kids[j])
    BY <1>1, <1>2, TreeIs
  <2>2. Ready(tree, k)
    BY <2>1 DEF Ready
  <2>3. tree[k].kind \in {"literal", "string", "var", "method_call", "binary", "unary", "array", "dict", "index", "member",
                          "call", "struct_literal"}
    <3>1. TypesOf(tree, types)[k] = NodeType(tree[k], PartTypes(tree, k), types) /\ TypesOf(tree, types)[k] # None
      BY <2>2, NodeIs
    <3> QED
      BY <3>1 DEF NodeType
  <2>4. Computes(tree, k)
    BY <2>2, <2>3, LeafNode, BinaryNode, UnaryNode, ArrayNode, DictNode, IndexNode, MemberNode, CallNode, StructNode
  <2> QED
    BY <2>1, <2>4
<1>3. 1 .. n \subseteq A
  <2>. HIDE DEF A, n
  <2> QED
    BY <1>1, <1>2, Climb
<1> QED
  BY <1>1, <1>3

-----------------------------------------------------------------------------
(* Statements.                                                             *)

\* What is known of the run, of code that is sound so far: the variables hold values of their types, an optional
\* variable of the program an optional, and the last statement computed a value of its type and stored it.
HeldOK(x) == /\ Typed(env[x].v, types[x])
             /\ ~ inFunction /\ Base(types[x]) = "Optional" => env[x].v.t = "Optional"
LastType(st) == IF st.op \in {"let", "="} THEN TypeOf(st.tree, types) ELSE types[st.name]
LastOK(st) == /\ Typed(value, LastType(st))
              /\ \/ env[st.name].v = value
                 \/ ~ inFunction /\ Base(types[st.name]) = "Optional" /\ env[st.name].v.kids \in {<<value>>, <<>>}
WellTyped ==
  phase \in {"running", "finished"} /\ SoundSoFar(Executed) =>
     /\ \A x \in DOMAIN env : HeldOK(x)
     /\ Executed > 0 => LastOK(code[Executed])

\* The statement at hand.
SoundHere == /\ ~ Meaningless(Here) /\ ~ Untold(Here.tree, Len(Here.tree))
             /\ \A k \in DOMAIN Here.tree : ~ Unsound(Here.tree, k)

LEMMA BuildTyped ==
  ASSUME Scoped, phase = "running", SoundHere, \A x \in DOMAIN env : HeldOK(x)
  PROVE  /\ IsType(TypeOf(Here.tree, types))
         /\ Typed(Build(Here.tree, env), TypeOf(Here.tree, types)) \/ Build(Here.tree, env) = Abort
         /\ RawOK(Unboxed(Here.tree, env)[Len(Here.tree)])
         /\ \A x \in DOMAIN env : RawOK(env[x])
<1>1. IsTree(Here.tree) /\ Analysed(Here.tree, types) /\ Vars(Here.tree) \subseteq DOMAIN env
  BY RunningIs
<1>2. \A x \in DOMAIN env : RawOK(env[x])
  BY DEF Scoped, SlotOK, RawOK
<1>3. VarsOK(Here.tree)
  BY <1>1, <1>2 DEF VarsOK, Scoped, HeldOK
<1>4. Len(Here.tree) \in DOMAIN Here.tree
  BY <1>1, TreeIs
<1>5. Computes(Here.tree, Len(Here.tree))
  BY <1>1, <1>3, <1>4, TreeComputes DEF SoundHere
<1>6. IsType(TypeOf(Here.tree, types))
  BY <1>1, <1>3, <1>4, TypesAre DEF TypeOf, VarsOK
<1>7. RawOK(Unboxed(Here.tree, env)[Len(Here.tree)])
  BY <1>1, <1>3, <1>4, SlotsRaw DEF VarsOK
<1> QED
  BY <1>2, <1>5, <1>6, <1>7 DEF Computes, Build, TypeOf, SoundHere

\* It computes a value of its type, and of the type of the variable.
LEMMA ComputedTyped ==
  ASSUME Scoped, phase = "running", SoundHere, \A x \in DOMAIN env : HeldOK(x), Computed # Abort
  PROVE  /\ Typed(Computed, LastType(Here)) /\ Typed(Computed, types[Here.name])
         /\ Numbered(Computed, pc) = Computed
<1>. DEFINE T == TypeOf(Here.tree, types)
            W == types[Here.name]
            b == Build(Here.tree, env)
            s == Unboxed(Here.tree, env)[Len(Here.tree)]
            old == env[Here.name]
<1>1. /\ pc \in Nat \ {0} /\ IsType(W) /\ Here.op \in {"let", "="} \cup Arithmetic /\ Compatible(T, W)
      /\ Here.op = "let" <=> Here.name \notin DOMAIN env
  BY RunningIs
<1>2. IsType(T) /\ (Typed(b, T) \/ b = Abort) /\ RawOK(s) /\ \A x \in DOMAIN env : RawOK(env[x])
  BY BuildTyped
<1>3. b = s.v
  BY DEF Build
<1>4. CASE Here.op \in {"let", "="}
  <2>1. Computed = Numbered(b, pc) /\ LastType(Here) = T
    BY <1>4 DEF Computed, LastType
  <2>. HIDE DEF T, W, b, s, old
  <2>2. b # Abort
    <3>1. Numbered(Abort, pc) = Abort
      BY ValuesAre DEF Numbered
    <3> QED
      BY <2>1, <3>1
  <2>3. Typed(b, T) /\ IsValue(b)
    BY <1>2, <2>2, TypedIs
  <2>4. Typed(Computed, T) /\ Numbered(Computed, pc) = Computed
    BY <1>1, <1>2, <2>1, <2>3, NumberedTyped, NumberedIs
  <2>5. Typed(Computed, W)
    BY <1>1, <1>2, <2>4, CompatibleTyped
  <2> QED
    BY <2>1, <2>4, <2>5 DEF W
<1>5. CASE Here.op \notin {"let", "="}
  <2>1. Here.op \in Arithmetic /\ LastType(Here) = W
    BY <1>1, <1>5 DEF LastType
  <2>2. Computed = IF inFunction /\ old.kind # "box" THEN BinaryUnboxed(Here.op, old, s).v ELSE BinaryOp(Here.op, old.v, b)
    BY <1>5 DEF Computed
  <2>3. RawOK(old) /\ Typed(old.v, W)
    BY <1>1, <1>2, <1>5 DEF HeldOK
  <2>4. Base(W) \in (IF Here.op = "+" THEN {"Int", "Double", "String"} ELSE IF Here.op = "%" THEN {"Int"} ELSE {"Int", "Double"})
    BY <1>5 DEF SoundHere, Meaningless, Numeric
  <2>. DEFINE op == Here.op
  <2>. HIDE DEF T, W, b, s, old, op
  <2>5. T = W
    BY <1>1, <1>2, <2>4, CompatibleIs DEF AtOnce, Holders
  <2>6. Sensible(op, W, W)
    <3>1. W # None /\ op \notin Comparisons /\ op \notin {"&&", "||"}
      BY <1>1, <2>1, NoneIs DEF Arithmetic, Comparisons, op
    <3>2. BinaryType(op, W, W) = W
      BY <2>4, <3>1 DEF BinaryType, Numeric, op
    <3> QED
      BY <1>1, <2>4, <3>1, <3>2 DEF Sensible, op
  <2>7. BinaryType(op, W, W) = W /\ op \in Arithmetic \cup Comparisons \cup {"&&", "||"}
    BY <2>1, <2>6, SensibleIs DEF op
  <2>8. Typed(Computed, W)
    <3>1. CASE inFunction /\ old.kind # "box"
      BY <1>2, <1>3, <2>2, <2>3, <2>5, <2>6, <2>7, <3>1, BinarySlotTyped DEF op
    <3>2. CASE ~ (inFunction /\ old.kind # "box")
      <4>1. Computed = BinaryOp(op, old.v, b)
        BY <2>2, <3>2 DEF op
      <4>2. b # Abort
        BY <4>1 DEF BinaryOp
      <4> QED
        BY <1>2, <2>3, <2>5, <2>6, <2>7, <4>1, <4>2, BinaryTyped
    <3> QED
      BY <3>1, <3>2
  <2>9. Numbered(Computed, pc) = Computed
    <3>1. IsValue(Computed) /\ Computed.t = Base(W)
      BY <1>1, <2>4, <2>8, TypedIs
    <3> QED
      BY <2>4, <3>1, NumberedIs
  <2> QED
    BY <2>1, <2>8, <2>9 DEF W
<1> QED
  BY <1>4, <1>5

\* What is kept of it in a box.
LEMMA KeptTyped ==
  ASSUME NEW T, IsType(T), NEW v, Typed(v, T), Numbered(v, pc) = v, NEW base, inFunction \/ base = Base(T), NEW other
  PROVE  LET s == Kept(v, Coerced(base, v), other)
         IN  /\ s.kind = "box" /\ Typed(s.v, T)
             /\ s.v = v \/ (~ inFunction /\ Base(T) = "Optional" /\ s.v.kids \in {<<v>>, <<>>})
             /\ ~ inFunction /\ Base(T) = "Optional" => s.v.t = "Optional"
<1>. DEFINE s == Kept(v, Coerced(base, v), other)
            c == Coerced(base, v)
<1>1. /\ IsValue(v) /\ (v.t = Base(T) \/ Base(T) = "Optional")
      /\ (Base(T) = "Optional" /\ v.t \notin {"Optional", "Nil"}) => Typed(v, Inner(T))
      /\ Base(T) \in Leaves \cup Holders
  BY TypedIs, TypeIs
<1>2. s.kind = "box" /\ s.v = IF inFunction THEN v ELSE IF c = Refusal THEN other ELSE Numbered(c, pc)
  BY DEF Kept, Boxed, Slot
<1>3. Refusal.t = "refused"
  BY DEF Refusal, Val
<1>4. CASE inFunction
  BY <1>2, <1>4
<1>5. CASE ~ inFunction /\ v.t = Base(T)
  <2>1. c = v
    BY <1>5 DEF Coerced
  <2>2. c # Refusal
    BY <1>1, <1>3, <1>5, <2>1 DEF Leaves, Holders
  <2> QED
    BY <1>2, <1>5, <2>1, <2>2
<1>6. CASE ~ inFunction /\ v.t # Base(T)
  <2>. DEFINE kids == IF v.t = "Nil" THEN <<>> ELSE <<v>>
  <2>1. Base(T) = "Optional" /\ base = "Optional" /\ v.t # "Optional"
    BY <1>1, <1>6
  <2>2. c = Val("Optional", 0, 1, <<>>, kids)
    BY <2>1 DEF Coerced
  <2>3. IsSequence(kids) /\ \A j \in DOMAIN kids : kids[j] = v
    <3>1. CASE v.t = "Nil"
      BY <3>1, EmptyIs
    <3>2. CASE v.t # "Nil"
      <4>1. kids = [j \in 1 .. 1 |-> kids[j]] /\ kids = <<v>>
        BY <3>2
      <4> QED
        BY <4>1, MakeSequence
    <3> QED
      BY <3>1, <3>2
  <2>4. (\A j \in DOMAIN kids : v.t # "Nil") /\ kids \in {<<v>>, <<>>}
    OBVIOUS
  <2>. HIDE DEF kids
  <2>5. IsValue(c) /\ c.t = "Optional" /\ c.kids = kids /\ c # Refusal
    BY <1>3, <2>2 DEF IsValue, Val
  <2>. HIDE DEF c, s
  <2>6. \A j \in DOMAIN c.kids : Typed(c.kids[j], Inner(T))
    BY <1>1, <2>1, <2>3, <2>4, <2>5
  <2>7. Typed(c, T)
    BY <2>1, <2>3, <2>5, <2>6, OptionalTyped
  <2>8. Typed(Numbered(c, pc), T) /\ Numbered(c, pc).t = "Optional" /\ Numbered(c, pc).kids = kids
    BY <2>5, <2>7, NumberedTyped, NumberedIs
  <2> QED
    BY <1>2, <1>6, <2>1, <2>4, <2>5, <2>8 DEF s
<1> QED
  BY <1>4, <1>5, <1>6

\* What the variables hold does not decide what is sound, but for the boxes,
LEMMA SoundStays ==
  ASSUME NEW j, NEW k, UNCHANGED <<code, types>>, (~ Unsound(code[j].tree, k))',
         BoxedMinus(code[j].tree, k, env)' <=> BoxedMinus(code[j].tree, k, env)
  PROVE  ~ Unsound(code[j].tree, k)
<1>1. Incomparable(code[j].tree, k)' <=> Incomparable(code[j].tree, k)
  BY DEF Incomparable, PartBases, PartTypes
<1>2. Remainder(code[j].tree, k)' <=> Remainder(code[j].tree, k)
  BY DEF Remainder, PartBases, PartTypes
<1>3. OddKeys(code[j].tree, k)' <=> OddKeys(code[j].tree, k)
  BY DEF OddKeys, PartTypes
<1>4. LengthOfNone(code[j].tree, k)' <=> LengthOfNone(code[j].tree, k)
  BY DEF LengthOfNone, PartBases, PartTypes
<1>5. OtherFields(code[j].tree, k)' <=> OtherFields(code[j].tree, k)
  BY DEF OtherFields, PartTypes, Untold
<1>6. UnknownParts(code[j].tree, k)' <=> UnknownParts(code[j].tree, k)
  BY DEF UnknownParts, PartTypes
<1> QED
  BY <1>1, <1>2, <1>3, <1>4, <1>5, <1>6 DEF Unsound

\* which a step of the run leaves as they are.
LEMMA SoundBefore ==
  ASSUME Scoped, NEW v, NEW slot, Stores(v, slot), Here.name \in DOMAIN env => slot.kind = env[Here.name].kind,
         SoundSoFar(Executed)'
  PROVE  SoundSoFar(Executed) /\ SoundHere
<1>1. /\ phase = "running" /\ env' = With(env, Here.name, slot) /\ UNCHANGED <<code, types>> /\ pc \in Nat \ {0}
      /\ code \in Codes /\ pc \in 1 .. Len(code) /\ DOMAIN env = Lets(code, pc)
  BY RunningIs DEF Stores
<1>2. Executed = pc - 1 /\ Executed' = pc
  <2>1. Executed = pc - 1
    BY <1>1 DEF Executed
  <2>2. CASE pc' = pc + 1 /\ phase' = "running"
    BY <1>1, <2>2 DEF Executed
  <2>3. CASE pc = Len(code) /\ phase' = "finished"
    BY <1>1, <2>3 DEF Executed
  <2> QED
    BY <2>1, <2>2, <2>3 DEF Stores
<1>3. ASSUME NEW j \in 1 .. pc
      PROVE  /\ ~ Meaningless(code[j]) /\ ~ Untold(code[j].tree, Len(code[j].tree))
             /\ \A k \in DOMAIN code[j].tree : ~ Unsound(code[j].tree, k)
  <2>1. /\ (~ Meaningless(code[j]))' /\ (~ Untold(code[j].tree, Len(code[j].tree)))'
        /\ \A k \in DOMAIN code[j].tree : (~ Unsound(code[j].tree, k))'
    BY <1>1, <1>2 DEF SoundSoFar
  <2>2. ~ Meaningless(code[j]) /\ ~ Untold(code[j].tree, Len(code[j].tree))
    BY <1>1, <2>1 DEF Meaningless, Untold
  <2>3. IsTree(code[j].tree) /\ Vars(code[j].tree) \subseteq DOMAIN env
    <3>1. j \in 1 .. Len(code) /\ Lets(code, j) \subseteq Lets(code, pc)
      <4>1. j \in 1 .. Len(code)
        BY <1>1, CodeIs
      <4>2. \A i \in 1 .. pc : Lets(code, i) \subseteq Lets(code, pc)
        BY <1>1, LetsAre
      <4> QED
        BY <4>1, <4>2
    <3>2. Okay(code, types, j)
      BY <1>1, <3>1 DEF Scoped
    <3> QED
      BY <1>1, <3>1, <3>2, CodeIs DEF Okay
  <2>4. \A x \in DOMAIN env : env[x].kind = (env')[x].kind
    <3>1. /\ (env')[Here.name] = slot
          /\ \A x \in DOMAIN env : x # Here.name => (env')[x] = env[x]
      BY <1>1 DEF With
    <3> QED
      BY <3>1
  <2>5. ASSUME NEW k \in DOMAIN code[j].tree
        PROVE  ~ Unsound(code[j].tree, k)
    <3>1. CASE code[j].tree[k].kind = "unary"
      <4>1. code[j].tree[k].kids[1] \in DOMAIN code[j].tree
        BY <2>3, <3>1, PlacesAre, TreeIs
      <4>2. Unboxed(code[j].tree, env)[code[j].tree[k].kids[1]].kind = Unboxed(code[j].tree, env')[code[j].tree[k].kids[1]].kind
        BY <2>3, <2>4, <4>1, KindsStay
      <4>3. BoxedMinus(code[j].tree, k, env)' <=> BoxedMinus(code[j].tree, k, env)
        BY <1>1, <4>2 DEF BoxedMinus
      <4> QED
        BY <1>1, <2>1, <4>3, SoundStays
    <3>2. CASE code[j].tree[k].kind # "unary"
      <4>1. BoxedMinus(code[j].tree, k, env)' <=> BoxedMinus(code[j].tree, k, env)
        BY <1>1, <3>2 DEF BoxedMinus
      <4> QED
        BY <1>1, <2>1, <4>1, SoundStays
    <3> QED
      BY <3>1, <3>2
  <2> QED
    BY <2>2, <2>5
<1>4. 1 .. (pc - 1) \subseteq 1 .. pc /\ pc \in 1 .. pc
  BY <1>1
<1> QED
  BY <1>2, <1>3, <1>4 DEF SoundSoFar, SoundHere, Here

\* The slot that a statement stores in holds a value of the type of the variable.
SlotFits(slot) ==
  /\ Typed(slot.v, types[Here.name])
  /\ ~ inFunction /\ Base(types[Here.name]) = "Optional" => slot.v.t = "Optional"
  /\ slot.v = Computed \/ (~ inFunction /\ Base(types[Here.name]) = "Optional" /\ slot.v.kids \in {<<Computed>>, <<>>})

LEMMA StoresTyped ==
  ASSUME Scoped, WellTyped, NEW slot, Stores(Computed, slot), Here.name \in DOMAIN env => slot.kind = env[Here.name].kind,
         SoundHere /\ (\A x \in DOMAIN env : HeldOK(x)) => SlotFits(slot)
  PROVE  WellTyped'
<1>1. SUFFICES ASSUME SoundSoFar(Executed)'
               PROVE  (\A x \in DOMAIN env : HeldOK(x))' /\ (Executed > 0 => LastOK(code[Executed]))'
  BY DEF WellTyped
<1>2. /\ phase = "running" /\ env' = With(env, Here.name, slot) /\ value' = Computed /\ Computed # Abort
      /\ UNCHANGED <<code, inFunction, types>> /\ pc \in Nat \ {0}
  BY RunningIs DEF Stores
<1>3. SoundSoFar(Executed) /\ SoundHere
  BY <1>1, SoundBefore
<1>4. \A x \in DOMAIN env : HeldOK(x)
  BY <1>2, <1>3 DEF WellTyped
<1>5. SlotFits(slot) /\ Typed(Computed, LastType(Here))
  BY <1>2, <1>3, <1>4, ComputedTyped
<1>6. /\ DOMAIN env' = {Here.name} \cup DOMAIN env /\ (env')[Here.name] = slot
      /\ \A x \in DOMAIN env : x # Here.name => (env')[x] = env[x]
  BY <1>2 DEF With
<1>7. (\A x \in DOMAIN env : HeldOK(x))'
  <2>1. ASSUME NEW x \in DOMAIN env'
        PROVE  HeldOK(x)'
    <3>1. CASE x = Here.name
      BY <1>2, <1>5, <1>6, <3>1 DEF SlotFits, HeldOK
    <3>2. CASE x # Here.name
      <4>1. x \in DOMAIN env /\ (env')[x] = env[x] /\ HeldOK(x)
        BY <1>4, <1>6, <2>1, <3>2
      <4> QED
        BY <1>2, <4>1 DEF HeldOK
    <3> QED
      BY <3>1, <3>2
  <2> QED
    BY <2>1
<1>8. Executed' = pc
  BY <1>2 DEF Stores, Executed
<1>9. LastOK(code[Executed])'
  <2>1. (code[Executed])' = Here
    BY <1>2, <1>8 DEF Here
  <2>2. LastType(code[Executed])' = LastType(Here)
    BY <1>2, <2>1 DEF LastType
  <2>3. (env')[Here.name].v = Computed \/ (~ inFunction /\ Base(types[Here.name]) = "Optional" /\ (env')[Here.name].v.kids \in {<<Computed>>, <<>>})
    BY <1>5, <1>6 DEF SlotFits
  <2> QED
    BY <1>2, <1>5, <2>1, <2>2, <2>3 DEF LastOK
<1> QED
  BY <1>7, <1>9

\* In a slot without a box: what is computed is of the declared type, and is stored as it is.
LEMMA RawFits ==
  ASSUME Scoped, phase = "running", inFunction, Declared \in {"Int", "Double", "Bool"}, Computed # Abort,
         SoundHere, \A x \in DOMAIN env : HeldOK(x)
  PROVE  SlotFits(Slot(Declared, Unbox(Declared, Computed)))
<1>1. Typed(Computed, types[Here.name]) /\ IsType(types[Here.name])
  BY ComputedTyped, RunningIs
<1>2. Computed.t = Declared
  BY <1>1, TypedIs DEF Declared
<1>3. Unbox(Declared, Computed) = Computed
  BY <1>2, UnboxIs
<1> QED
  BY <1>1, <1>3 DEF SlotFits, Slot

\* In a box: it is coerced to that type, by its base.
LEMMA KeptFits ==
  ASSUME Scoped, phase = "running", Computed # Abort, SoundHere, \A x \in DOMAIN env : HeldOK(x),
         NEW base, inFunction \/ base = Base(types[Here.name]), NEW other
  PROVE  SlotFits(Kept(Computed, Coerced(base, Computed), other))
<1>1. Typed(Computed, types[Here.name]) /\ IsType(types[Here.name]) /\ Numbered(Computed, pc) = Computed
  BY ComputedTyped, RunningIs
<1> QED
  BY <1>1, KeptTyped DEF SlotFits

\* What a variable of the program holds has the base of its type.
LEMMA HeldBase ==
  ASSUME Scoped, phase = "running", Here.name \in DOMAIN env, HeldOK(Here.name)
  PROVE  inFunction \/ env[Here.name].v.t = Base(types[Here.name])
<1>1. Typed(env[Here.name].v, types[Here.name]) /\ IsType(types[Here.name])
  BY RunningIs DEF HeldOK
<1> QED
  BY <1>1, TypedIs DEF HeldOK

LEMMA AnalyseTyped ==
  ASSUME Scoped, Analyse
  PROVE  WellTyped'
<1>1. SUFFICES ASSUME phase' \in {"running", "finished"}
               PROVE  (\A x \in DOMAIN env : HeldOK(x))' /\ ~ (Executed > 0)'
  BY DEF WellTyped
<1>2. phase = "analysis" /\ env' = env /\ pc' = 1 /\ phase' = "running"
  BY <1>1 DEF Analyse
<1>3. DOMAIN env = {}
  BY <1>2 DEF Scoped
<1>4. Executed' = 0
  BY <1>2 DEF Executed
<1> QED
  BY <1>2, <1>3, <1>4

LEMMA NextTyped == Scoped /\ WellTyped /\ [Next]_vars => WellTyped'
<1>1. ASSUME Scoped, Analyse
      PROVE  WellTyped'
  BY <1>1, AnalyseTyped
<1>2. ASSUME RefuseCode \/ End
      PROVE  WellTyped'
  BY <1>2 DEF RefuseCode, End, WellTyped
<1>3. ASSUME Scoped, WellTyped, LetRaw
      PROVE  WellTyped'
  <2>1. /\ inFunction /\ Declared \in {"Int", "Double", "Bool"} /\ Here.op = "let"
        /\ Stores(Computed, Slot(Declared, Unbox(Declared, Computed)))
    BY <1>3, LetRawStores
  <2>2. phase = "running" /\ Computed # Abort /\ Here.name \notin DOMAIN env
    BY <1>3, <2>1, RunningIs DEF Stores
  <2> QED
    BY <1>3, <2>1, <2>2, RawFits, StoresTyped
<1>4. ASSUME Scoped, WellTyped, LetBoxed
      PROVE  WellTyped'
  <2>1. Here.op = "let" /\ Stores(Computed, Kept(Computed, Coerced(Declared, Computed), Zero(Declared)))
    BY <1>4, LetBoxedStores
  <2>2. phase = "running" /\ Computed # Abort /\ Here.name \notin DOMAIN env
    BY <1>4, <2>1, RunningIs DEF Stores
  <2>3. SoundHere /\ (\A x \in DOMAIN env : HeldOK(x)) => SlotFits(Kept(Computed, Coerced(Declared, Computed), Zero(Declared)))
    BY <1>4, <2>2, KeptFits DEF Declared
  <2> QED
    BY <1>4, <2>1, <2>2, <2>3, StoresTyped
<1>5. ASSUME Scoped, WellTyped, AssignRaw
      PROVE  WellTyped'
  <2>1. /\ inFunction /\ Declared \in {"Int", "Double", "Bool"} /\ env[Here.name].kind = Declared
        /\ Stores(Computed, Slot(Declared, Unbox(Declared, Computed)))
    BY <1>5, AssignRawStores
  <2>2. phase = "running" /\ Computed # Abort
    BY <2>1 DEF Stores
  <2> QED
    BY <1>5, <2>1, <2>2, RawFits, StoresTyped DEF Slot
<1>6. ASSUME Scoped, WellTyped, AssignBoxed
      PROVE  WellTyped'
  <2>1. /\ Here.name \in DOMAIN env /\ env[Here.name].kind = "box"
        /\ Stores(Computed, Kept(Computed, Coerced(env[Here.name].v.t, Computed), env[Here.name].v))
    BY <1>6, AssignBoxedStores
  <2>2. phase = "running" /\ Computed # Abort
    BY <2>1 DEF Stores
  <2>3. SoundHere /\ (\A x \in DOMAIN env : HeldOK(x)) => SlotFits(Kept(Computed, Coerced(env[Here.name].v.t, Computed), env[Here.name].v))
    BY <1>6, <2>1, <2>2, HeldBase, KeptFits
  <2>4. Kept(Computed, Coerced(env[Here.name].v.t, Computed), env[Here.name].v).kind = "box"
    BY DEF Kept, Boxed, Slot
  <2> QED
    BY <1>6, <2>1, <2>3, <2>4, StoresTyped
<1>7. ASSUME WellTyped, UNCHANGED vars
      PROVE  WellTyped'
  <2>1. SUFFICES ASSUME phase' \in {"running", "finished"}, SoundSoFar(Executed)'
                 PROVE  (\A x \in DOMAIN env : HeldOK(x))' /\ (Executed > 0 => LastOK(code[Executed]))'
    BY DEF WellTyped
  <2>2. UNCHANGED <<code, inFunction, pc, phase, types, env, value>>
    BY <1>7 DEF vars
  <2>3. UNCHANGED Executed
    BY <2>2 DEF Executed
  <2>4. SoundSoFar(Executed)
    <3>1. ASSUME NEW j \in 1 .. Executed
          PROVE  /\ ~ Meaningless(code[j]) /\ ~ Untold(code[j].tree, Len(code[j].tree))
                 /\ \A k \in DOMAIN code[j].tree : ~ Unsound(code[j].tree, k)
      <4>1. /\ (~ Meaningless(code[j]))' /\ (~ Untold(code[j].tree, Len(code[j].tree)))'
            /\ \A k \in DOMAIN code[j].tree : (~ Unsound(code[j].tree, k))'
        BY <2>1, <2>2, <2>3 DEF SoundSoFar
      <4>2. \A k : BoxedMinus(code[j].tree, k, env)' <=> BoxedMinus(code[j].tree, k, env)
        BY <2>2 DEF BoxedMinus
      <4>3. \A k \in DOMAIN code[j].tree : ~ Unsound(code[j].tree, k)
        BY <2>2, <4>1, <4>2, SoundStays
      <4> QED
        BY <2>2, <4>1, <4>3 DEF Meaningless, Untold
    <3> QED
      BY <3>1 DEF SoundSoFar
  <2>5. (\A x \in DOMAIN env : HeldOK(x)) /\ (Executed > 0 => LastOK(code[Executed]))
    BY <1>7, <2>1, <2>2, <2>4 DEF WellTyped
  <2> QED
    BY <2>2, <2>3, <2>5 DEF HeldOK, LastOK, LastType
<1>8. ASSUME WellTyped, Done
      PROVE  WellTyped'
  BY <1>7, <1>8 DEF Done
<1> QED
  BY <1>1, <1>2, <1>3, <1>4, <1>5, <1>6, <1>7, <1>8 DEF Next

\* What has been executed had a type, and so has what it stored in.
LEMMA ExecutedIs ==
  ASSUME Scoped, phase \in {"running", "finished"}, Executed > 0
  PROVE  /\ Executed \in 1 .. Len(code) /\ IsTree(code[Executed].tree) /\ Okay(code, types, Executed)
         /\ \A x \in DOMAIN types : IsType(types[x])
         /\ DOMAIN env \subseteq DOMAIN types
<1>1. code \in Codes /\ Len(code) \in Nat \ {0} /\ pc \in 1 .. Len(code)
  BY CodeIs DEF Scoped
<1>2. Executed \in 1 .. Len(code)
  BY <1>1 DEF Executed
<1>3. Okay(code, types, Executed) /\ \A x \in DOMAIN types : IsType(types[x])
  BY <1>2 DEF Scoped
<1>4. DOMAIN env \subseteq DOMAIN types
  BY RunningIs DEF Scoped
<1> QED
  BY <1>1, <1>2, <1>3, <1>4, CodeIs

\* The value that accepted code computes at each statement, and what each of its
\* variables holds, are of the types that the analysis gave, in the program and
\* in functions, for code of any length without what it should not have
\* accepted.
THEOREM TypeSoundHolds == Spec => []TypeSound
<1>1. Init => WellTyped
  BY DEF Init, WellTyped
<1>2. Scoped /\ WellTyped => TypeSound
  <2>1. SUFFICES ASSUME Scoped, WellTyped, phase \in {"running", "finished"}, Executed > 0, SoundSoFar(Executed)
                 PROVE  /\ HasType(value, LastType(code[Executed]))
                        /\ \A x \in DOMAIN env : HasType(env[x].v, types[x])
                        /\ \/ env[code[Executed].name].v = value
                           \/ /\ ~ inFunction /\ Base(types[code[Executed].name]) = "Optional"
                              /\ env[code[Executed].name].v.kids \in {<<value>>, <<>>}
    BY DEF TypeSound, LastType
  <2>. DEFINE st == code[Executed]
  <2>2. (\A x \in DOMAIN env : HeldOK(x)) /\ LastOK(st)
    BY <2>1 DEF WellTyped
  <2>3. \A x \in DOMAIN env : HasType(env[x].v, types[x])
    BY <2>1, <2>2, ExecutedIs, TypedHasType DEF HeldOK
  <2>4. IsType(LastType(st))
    <3>1. IsTree(st.tree) /\ Analysed(st.tree, types) /\ st.name \in DOMAIN types /\ \A x \in DOMAIN types : IsType(types[x])
      BY <2>1, ExecutedIs DEF Okay
    <3>. HIDE DEF st
    <3>2. Vars(st.tree) \subseteq DOMAIN types
      BY <3>1, VarsTyped
    <3>3. IsType(TypeOf(st.tree, types))
      BY <3>1, <3>2, TypesAre, TreeIs DEF TypeOf
    <3> QED
      BY <3>1, <3>3 DEF LastType
  <2> QED
    BY <2>2, <2>3, <2>4, TypedHasType DEF LastOK
<1> QED
  BY <1>1, <1>2, NextTyped, ScopedHolds, PTL DEF Spec
=============================================================================
