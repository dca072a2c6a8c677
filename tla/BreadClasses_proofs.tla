-------------------------- MODULE BreadClasses_proofs --------------------------
(***************************************************************************)
(* Proofs about BreadClasses, for any programs, however their classes are  *)
(* ordered and extend each other, and for both backends.  The registry     *)
(* holds what the compiler knows of each class, so that the walk over the  *)
(* parents of definitions is the walk over the declarations.               *)
(***************************************************************************)
EXTENDS BreadClasses, SequenceTheorems, WellFoundedInduction, TLAPS

-----------------------------------------------------------------------------
(* Least members, recursion and induction.                                 *)

LEMMA MinIs ==
  ASSUME NEW S \in SUBSET Nat, S # {}
  PROVE  Min(S) \in S /\ \A x \in S : Min(S) <= x
<1>. DEFINE Less == {p \in Nat \X Nat : p[1] < p[2]}
<1>1. IsWellFoundedOn(Less, Nat)
  BY NatLessThanWellFounded DEF OpToRel
<1>2. PICK m \in S : \A x \in S : ~ (<<x, m>> \in Less)
  <2>. HIDE DEF Less
  <2> QED
    BY <1>1, WFMin
<1>3. ASSUME NEW x \in S
      PROVE  m <= x
  <2>1. x \in Nat /\ m \in Nat /\ ~ (<<x, m>> \in Less)
    BY <1>2
  <2>2. ~ (x < m)
    BY <2>1
  <2> QED
    BY <2>1, <2>2
<1> QED
  BY <1>3 DEF Min

LEMMA FirstIs ==
  ASSUME NEW n \in Nat, NEW I \in SUBSET (1 .. n), NEW r, r = IF I # {} THEN Min(I) ELSE 0
  PROVE  /\ r \in 0 .. n
         /\ r = 0 <=> I = {}
         /\ r # 0 => r \in I /\ \A i \in I : r <= i
<1>1. I \in SUBSET Nat
  OBVIOUS
<1>2. CASE I # {}
  <2>1. r \in I /\ \A i \in I : r <= i
    BY <1>1, <1>2, MinIs
  <2> QED
    BY <1>2, <2>1
<1>3. CASE I = {}
  BY <1>3
<1> QED
  BY <1>2, <1>3

LEMMA UpTo ==
  ASSUME NEW n \in Nat, NEW A, 0 \in A, \A m \in 1 .. n : m - 1 \in A => m \in A
  PROVE  0 .. n \subseteq A
<1>. DEFINE Bad == {m \in 0 .. n : m \notin A}
            b   == Min(Bad)
<1>1. ASSUME Bad # {}
      PROVE  FALSE
  <2>1. Bad \in SUBSET Nat
    OBVIOUS
  <2>2. b \in Bad /\ \A x \in Bad : b <= x
    <3>. HIDE DEF Bad
    <3> QED
      BY <1>1, <2>1, MinIs
  <2>. HIDE DEF b
  <2>3. b \in 1 .. n /\ b \notin A
    BY <2>2
  <2>4. b - 1 \in 0 .. n /\ ~ (b <= b - 1)
    BY <2>3
  <2>5. b - 1 \notin Bad
    BY <2>2, <2>4
  <2> QED
    BY <2>3, <2>4, <2>5
<1> QED
  BY <1>1

\* A function that is defined step by step exists.
IsStep(F, n, S) == F \in [(1 .. n) \X S -> S]
FollowsIn(f, n, S, z, F) ==
  f \in [0 .. n -> S] /\ f[0] = z /\ \A m \in 1 .. n : f[m] = F[<<m, f[m - 1]>>]

LEMMA Recursion ==
  ASSUME NEW S, NEW z \in S, NEW n \in Nat, NEW F, IsStep(F, n, S)
  PROVE  \E f : FollowsIn(f, n, S, z, F)
<1>. DEFINE Follows(f, k) == FollowsIn(f, k, S, z, F)
            A == {k \in 0 .. n : \E f : Follows(f, k)}
<1>. F \in [(1 .. n) \X S -> S]
  BY DEF IsStep
<1>. USE DEF FollowsIn
<1>1. 0 \in A
  <2>. DEFINE f == [m \in 0 .. 0 |-> z]
  <2>1. f \in [0 .. 0 -> S] /\ f[0] = z /\ \A m \in 1 .. 0 : f[m] = F[<<m, f[m - 1]>>]
    OBVIOUS
  <2>2. Follows(f, 0)
    BY <2>1
  <2>3. 0 \in 0 .. n
    OBVIOUS
  <2>. HIDE DEF Follows, f
  <2> QED
    BY <2>2, <2>3
<1>2. ASSUME NEW k \in 1 .. n, k - 1 \in A
      PROVE  k \in A
  <2>1. PICK f : Follows(f, k - 1)
    BY <1>2
  <2>. DEFINE g == [m \in 0 .. k |-> IF m = k THEN F[<<k, f[k - 1]>>] ELSE f[m]]
  <2>2. f[k - 1] \in S
    BY <2>1
  <2>3. g \in [0 .. k -> S]
    BY <2>1, <2>2
  <2>4. g[0] = z /\ \A m \in 1 .. k : g[m - 1] = f[m - 1]
    BY <2>1
  <2>5. ASSUME NEW m \in 1 .. k
        PROVE  g[m] = F[<<m, g[m - 1]>>]
    <3>1. g[m - 1] = f[m - 1]
      BY <2>4
    <3>2. CASE m = k
      <4>1. g[k] = F[<<k, f[k - 1]>>]
        OBVIOUS
      <4>. HIDE DEF g
      <4> QED
        BY <3>1, <3>2, <4>1
    <3>3. CASE m # k
      <4>1. m \in 1 .. (k - 1) /\ g[m] = f[m]
        BY <3>3
      <4> QED
        BY <2>1, <3>1, <4>1
    <3> QED
      BY <3>2, <3>3
  <2>6. Follows(g, k)
    BY <2>3, <2>4, <2>5
  <2>7. k \in 0 .. n
    OBVIOUS
  <2>. HIDE DEF Follows, g
  <2> QED
    BY <2>6, <2>7
<1>3. n \in A
  <2>. HIDE DEF A
  <2>1. \A m \in 1 .. n : m - 1 \in A => m \in A
    BY <1>2
  <2> QED
    BY <1>1, <2>1, UpTo
<1> QED
  BY <1>3

-----------------------------------------------------------------------------
(* Searches and lists.                                                     *)

LEMMA NamedIs ==
  ASSUME NEW T, NEW s \in Seq(T), NEW m
  PROVE  /\ Named(s, m) \in 0 .. Len(s)
         /\ Named(s, m) = 0 <=> \A i \in 1 .. Len(s) : s[i].name # m
         /\ Named(s, m) # 0 => /\ s[Named(s, m)].name = m
                               /\ \A i \in 1 .. Len(s) : s[i].name = m => Named(s, m) <= i
<1>. DEFINE I == {i \in 1 .. Len(s) : s[i].name = m}
<1>1. Named(s, m) = IF I # {} THEN Min(I) ELSE 0
  BY DEF Named, SelectInSeq
<1>2. /\ Named(s, m) \in 0 .. Len(s)
      /\ Named(s, m) = 0 <=> I = {}
      /\ Named(s, m) # 0 => Named(s, m) \in I /\ \A i \in I : Named(s, m) <= i
  <2>1. I \in SUBSET (1 .. Len(s))
    OBVIOUS
  <2>. HIDE DEF I
  <2> QED
    BY <1>1, <2>1, FirstIs
<1> QED
  BY <1>2

LEMMA ReverseIs ==
  ASSUME NEW T, NEW s \in Seq(T)
  PROVE  /\ Reverse(s) \in Seq(T) /\ Len(Reverse(s)) = Len(s)
         /\ \A i \in 1 .. Len(s) : Reverse(s)[i] = s[Len(s) - i + 1]
         /\ ToSet(Reverse(s)) = ToSet(s)
<1>1. Reverse(s) = [i \in 1 .. Len(s) |-> s[(Len(s) - i) + 1]]
  BY DEF Reverse
<1>2. \A i \in 1 .. Len(s) : (Len(s) - i) + 1 \in 1 .. Len(s) /\ (Len(s) - ((Len(s) - i) + 1)) + 1 = i
  OBVIOUS
<1>3. Reverse(s) \in Seq(T) /\ Len(Reverse(s)) = Len(s)
  BY <1>1, <1>2
<1>4. \A i \in 1 .. Len(s) : Reverse(s)[i] = s[Len(s) - i + 1]
  BY <1>1
<1>5. ASSUME NEW x \in ToSet(Reverse(s))
      PROVE  x \in ToSet(s)
  <2>1. PICK i \in 1 .. Len(s) : x = Reverse(s)[i]
    BY <1>3, <1>5 DEF ToSet
  <2> QED
    BY <1>2, <1>4, <2>1 DEF ToSet
<1>6. ASSUME NEW x \in ToSet(s)
      PROVE  x \in ToSet(Reverse(s))
  <2>1. PICK i \in 1 .. Len(s) : x = s[i]
    BY <1>6 DEF ToSet
  <2>2. x = Reverse(s)[(Len(s) - i) + 1]
    BY <1>2, <1>4, <2>1
  <2>3. (Len(s) - i) + 1 \in DOMAIN Reverse(s)
    BY <1>2, <1>3
  <2> QED
    BY <2>2, <2>3 DEF ToSet
<1> QED
  BY <1>3, <1>4, <1>5, <1>6

LEMMA JoinedIs ==
  ASSUME NEW T, NEW x \in Seq(T), NEW y \in Seq(T)
  PROVE  x \o y \in Seq(T) /\ ToSet(x \o y) = ToSet(x) \cup ToSet(y)
<1>1. /\ x \o y \in Seq(T) /\ Len(x \o y) = Len(x) + Len(y)
      /\ \A i \in 1 .. Len(x) + Len(y) : (x \o y)[i] = IF i <= Len(x) THEN x[i] ELSE y[i - Len(x)]
  OBVIOUS
<1>2. ToSet(x \o y) \subseteq ToSet(x) \cup ToSet(y)
  <2>1. ASSUME NEW i \in 1 .. Len(x) + Len(y)
        PROVE  (x \o y)[i] \in ToSet(x) \cup ToSet(y)
    <3>1. CASE i <= Len(x)
      BY <1>1, <3>1 DEF ToSet
    <3>2. CASE ~ (i <= Len(x))
      <4>1. i - Len(x) \in 1 .. Len(y)
        BY <3>2
      <4> QED
        BY <1>1, <3>2, <4>1 DEF ToSet
    <3> QED
      BY <3>1, <3>2
  <2> QED
    BY <1>1, <2>1 DEF ToSet
<1>3. ToSet(x) \subseteq ToSet(x \o y)
  BY <1>1 DEF ToSet
<1>4. ToSet(y) \subseteq ToSet(x \o y)
  <2>1. ASSUME NEW i \in 1 .. Len(y)
        PROVE  y[i] \in ToSet(x \o y)
    <3>1. i + Len(x) \in 1 .. Len(x) + Len(y) /\ ~ (i + Len(x) <= Len(x)) /\ (i + Len(x)) - Len(x) = i
      OBVIOUS
    <3>2. (x \o y)[i + Len(x)] = y[i]
      BY <1>1, <3>1
    <3> QED
      BY <1>1, <3>1, <3>2 DEF ToSet
  <2> QED
    BY <2>1 DEF ToSet
<1> QED
  BY <1>1, <1>2, <1>3, <1>4

\* What a concatenation of lists holds.
LEMMA FlattenIs ==
  ASSUME NEW T, NEW ss \in Seq(Seq(T))
  PROVE  /\ FlattenSeq(ss) \in Seq(T)
         /\ ToSet(FlattenSeq(ss)) = UNION {ToSet(ss[i]) : i \in DOMAIN ss}
<1>1. CASE Len(ss) = 0
  BY <1>1 DEF FlattenSeq, ToSet
<1>2. CASE Len(ss) # 0
  <2>. DEFINE n == Len(ss)
              S == Seq(T)
              F == [x \in (1 .. n) \X S |-> x[2] \o ss[x[1]]]
              Sat(g) == g = [i \in 1 .. n |-> IF i = 1 THEN ss[i] ELSE g[i - 1] \o ss[i]]
              h == CHOOSE g : Sat(g)
  <2>1. n \in Nat /\ n # 0 /\ \A i \in 1 .. n : ss[i] \in S
    BY <1>2
  <2>2. \E g : Sat(g)
    <3>1. IsStep(F, n, S) /\ <<>> \in S /\ n \in Nat
      BY <2>1 DEF IsStep
    <3>. HIDE DEF F, n, S
    <3>2. PICK f : FollowsIn(f, n, S, <<>>, F)
      BY <3>1, Recursion, Zenon
    <3>. USE DEF F, n, S, FollowsIn
    <3>3. ASSUME NEW m \in 1 .. n
          PROVE  f[m] = f[m - 1] \o ss[m]
      <4>1. m - 1 \in 0 .. n
        BY <2>1
      <4>2. f[m - 1] \in S
        BY <3>2, <4>1
      <4>3. F[<<m, f[m - 1]>>] = f[m - 1] \o ss[m]
        BY <4>2
      <4> QED
        BY <3>2, <4>3
    <3>. DEFINE g == [i \in 1 .. n |-> f[i]]
    <3>4. f[1] = ss[1]
      <4>1. 1 \in 1 .. n /\ ss[1] \in Seq(T)
        BY <2>1
      <4>2. f[1] = f[1 - 1] \o ss[1]
        BY <3>3, <4>1
      <4>3. <<>> \o ss[1] = ss[1]
        BY <4>1
      <4> QED
        <5>1. f[1 - 1] = <<>>
          BY <3>2
        <5>. HIDE DEF FollowsIn
        <5> QED
          BY <4>2, <4>3, <5>1
    <3>5. ASSUME NEW i \in 1 .. n
          PROVE  g[i] = IF i = 1 THEN ss[i] ELSE g[i - 1] \o ss[i]
      <4>1. g[i] = f[i] /\ (i # 1 => i - 1 \in 1 .. n)
        BY <2>1
      <4>2. i # 1 => g[i - 1] = f[i - 1]
        BY <4>1
      <4>. HIDE DEF g
      <4> QED
        BY <3>3, <3>4, <4>1, <4>2
    <3>6. Sat(g)
      <4>. DEFINE e == [i \in 1 .. n |-> IF i = 1 THEN ss[i] ELSE g[i - 1] \o ss[i]]
      <4>1. \A i \in 1 .. n : g[i] = e[i]
        BY <3>5
      <4>2. DOMAIN g = 1 .. n /\ g = [i \in DOMAIN g |-> g[i]] /\ DOMAIN e = 1 .. n /\ e = [i \in DOMAIN e |-> e[i]]
        OBVIOUS
      <4>. HIDE DEF g, e
      <4>3. g = e
        BY <4>1, <4>2
      <4> QED
        BY <4>3 DEF e
    <3>. HIDE DEF Sat
    <3> QED
      BY <3>6
  <2>3. Sat(h)
    BY <2>2
  <2>4. FlattenSeq(ss) = h[n]
    BY <1>2 DEF FlattenSeq
  <2>. DEFINE Holds(i) == h[i] \in S /\ ToSet(h[i]) = UNION {ToSet(ss[j]) : j \in 1 .. i}
              A == {0} \cup {i \in 1 .. n : Holds(i)}
  <2>. HIDE DEF h
  <2>5. ASSUME NEW i \in 1 .. n, i - 1 \in A
        PROVE  i \in A
    <3>1. CASE i = 1
      <4>1. h[1] = ss[1]
        BY <2>1, <2>3
      <4> QED
        BY <2>1, <3>1, <4>1
    <3>2. CASE i # 1
      <4>1. i - 1 \in 1 .. n /\ Holds(i - 1)
        BY <2>5, <3>2
      <4>2. h[i] = h[i - 1] \o ss[i]
        BY <2>3, <3>2
      <4>3. \A x \in Seq(T), y \in Seq(T) : x \o y \in Seq(T) /\ ToSet(x \o y) = ToSet(x) \cup ToSet(y)
        BY JoinedIs
      <4>4. 1 .. i = (1 .. (i - 1)) \cup {i}
        OBVIOUS
      <4>5. h[i] \in S /\ ToSet(h[i]) = ToSet(h[i - 1]) \cup ToSet(ss[i])
        BY <2>1, <4>1, <4>2, <4>3
      <4>6. ToSet(h[i]) = UNION {ToSet(ss[j]) : j \in 1 .. i}
        BY <4>1, <4>4, <4>5
      <4> QED
        BY <4>5, <4>6
    <3> QED
      BY <3>1, <3>2
  <2>6. n \in A
    <3>1. 0 \in A /\ n \in Nat /\ n \in 0 .. n
      BY <2>1
    <3>. HIDE DEF A, n
    <3>2. \A i \in 1 .. n : i - 1 \in A => i \in A
      BY <2>5
    <3> QED
      BY <3>1, <3>2, UpTo
  <2>7. Holds(n)
    BY <2>1, <2>6
  <2>8. DOMAIN ss = 1 .. n
    OBVIOUS
  <2>. HIDE DEF n
  <2> QED
    BY <2>4, <2>7, <2>8
<1> QED
  BY <1>1, <1>2

-----------------------------------------------------------------------------
(* Classes by name.                                                        *)

InSource == program \in Programs

LEMMA ClassesAre ==
  ASSUME InSource
  PROVE  /\ Classes \in Seq(ToSet(program))
         /\ \A i \in 1 .. Len(Classes) : ~ Classes[i].function /\ IsClass(Classes[i])
         /\ \A i \in 1 .. Len(program) : ~ program[i].function => \E k \in 1 .. Len(Classes) : Classes[k] = program[i]
<1>. DEFINE n == Len(program)
            T == ToSet(program)
            S == Seq(T)
            Sat(g) == g = [m \in 0 .. n |-> IF m = 0 THEN <<>>
                                            ELSE IF program[m].function THEN g[m - 1]
                                                 ELSE Append(g[m - 1], program[m])]
            F == [x \in (1 .. n) \X S |-> IF program[x[1]].function THEN x[2] ELSE Append(x[2], program[x[1]])]
            h == CHOOSE g : Sat(g)
<1>1. program \in S /\ \A i \in 1 .. n : /\ program[i].function \in BOOLEAN
                                         /\ ~ program[i].function => IsClass(program[i])
  BY ProgramsAssumption DEF InSource, IsList
<1>2. n \in Nat /\ (\A i \in 1 .. n : program[i] \in T) /\ <<>> \in S
  BY <1>1
<1>3. IsStep(F, n, S)
  BY <1>2 DEF IsStep
<1>4. \E g : Sat(g)
  <2>1. \E f : FollowsIn(f, n, S, <<>>, F)
    <3>. HIDE DEF F, n, S
    <3> QED
      BY <1>2, <1>3, Recursion, Zenon
  <2>2. PICK f : FollowsIn(f, n, S, <<>>, F)
    BY <2>1
  <2>3. DOMAIN f = 0 .. n /\ f = [m \in DOMAIN f |-> f[m]] /\ f[0] = <<>> /\ \A m \in 0 .. n : f[m] \in S
    BY <2>2 DEF FollowsIn
  <2>4. ASSUME NEW m \in 1 .. n
        PROVE  f[m] = IF program[m].function THEN f[m - 1] ELSE Append(f[m - 1], program[m])
    <3>1. f[m - 1] \in S
      BY <1>2, <2>3
    <3>2. f[m] = F[<<m, f[m - 1]>>]
      BY <2>2 DEF FollowsIn
    <3> QED
      BY <3>1, <3>2
  <2>. DEFINE e == [m \in 0 .. n |-> IF m = 0 THEN <<>>
                                    ELSE IF program[m].function THEN f[m - 1]
                                         ELSE Append(f[m - 1], program[m])]
  <2>5. ASSUME NEW m \in 0 .. n
        PROVE  f[m] = e[m]
    <3>1. CASE m = 0
      BY <2>3, <3>1
    <3>2. CASE m # 0
      <4>1. m \in 1 .. n
        BY <1>2, <3>2
      <4>2. f[m] = IF program[m].function THEN f[m - 1] ELSE Append(f[m - 1], program[m])
        BY <2>4, <4>1
      <4>3. e[m] = IF program[m].function THEN f[m - 1] ELSE Append(f[m - 1], program[m])
        BY <3>2
      <4>. HIDE DEF e
      <4> QED
        BY <4>2, <4>3
    <3> QED
      BY <3>1, <3>2
  <2>6. DOMAIN e = 0 .. n /\ e = [m \in DOMAIN e |-> e[m]]
    OBVIOUS
  <2>7. f = e
    <3>. HIDE DEF e
    <3> QED
      BY <2>3, <2>5, <2>6
  <2>8. Sat(f)
    BY <2>7
  <2>. HIDE DEF Sat
  <2> QED
    BY <2>8
<1>5. Sat(h)
  <2>. HIDE DEF Sat
  <2> QED
    BY <1>4
<1>6. Classes = h[n]
  BY DEF Classes
<1>. HIDE DEF h
<1>. DEFINE Holds(m) == /\ h[m] \in S
                        /\ \A i \in 1 .. Len(h[m]) : ~ h[m][i].function /\ IsClass(h[m][i])
                        /\ \A i \in 1 .. m : ~ program[i].function => \E k \in 1 .. Len(h[m]) : h[m][k] = program[i]
            A == {m \in 0 .. n : Holds(m)}
<1>7. 0 \in A
  <2>1. h[0] = <<>>
    BY <1>2, <1>5
  <2> QED
    <3>1. 0 \in 0 .. n
      BY <1>2
    <3>2. Holds(0)
      BY <1>2, <2>1
    <3>. HIDE DEF Holds
    <3> QED
      BY <3>1, <3>2
<1>8. ASSUME NEW m \in 1 .. n, m - 1 \in A
      PROVE  m \in A
  <2>1. Holds(m - 1) /\ m \in 0 .. n
    BY <1>8
  <2>2. h[m] = IF program[m].function THEN h[m - 1] ELSE Append(h[m - 1], program[m])
    <3>. DEFINE e == [k \in 0 .. n |-> IF k = 0 THEN <<>>
                                      ELSE IF program[k].function THEN h[k - 1]
                                           ELSE Append(h[k - 1], program[k])]
    <3>1. e[m] = IF program[m].function THEN h[m - 1] ELSE Append(h[m - 1], program[m])
      BY <1>2, <2>1
    <3>2. h = e
      BY <1>5
    <3>. HIDE DEF e
    <3> QED
      BY <3>1, <3>2
  <2>3. \A i \in 1 .. m : i \in 1 .. (m - 1) \/ i = m
    OBVIOUS
  <2>4. CASE program[m].function
    BY <2>1, <2>2, <2>3, <2>4
  <2>5. CASE ~ program[m].function
    <3>. DEFINE s == h[m - 1]
    <3>1. s \in S /\ h[m] = Append(s, program[m])
      BY <2>1, <2>2, <2>5
    <3>. HIDE DEF s
    <3>2. /\ h[m] \in S /\ Len(h[m]) = Len(s) + 1 /\ Len(s) \in Nat
          /\ h[m][Len(s) + 1] = program[m] /\ \A i \in 1 .. Len(s) : h[m][i] = s[i]
      BY <1>2, <3>1
    <3>3. \A i \in 1 .. Len(h[m]) : i \in 1 .. Len(s) \/ i = Len(s) + 1
      BY <3>2
    <3>4. \A i \in 1 .. Len(h[m]) : ~ h[m][i].function /\ IsClass(h[m][i])
      BY <1>1, <2>1, <2>5, <3>2, <3>3 DEF s
    <3>5. \A i \in 1 .. Len(s) : i \in 1 .. Len(h[m])
      BY <3>2
    <3>6. Len(s) + 1 \in 1 .. Len(h[m])
      BY <3>2
    <3>7. \A i \in 1 .. (m - 1) : ~ program[i].function => \E k \in 1 .. Len(s) : s[k] = program[i]
      BY <2>1 DEF s
    <3>8. \A i \in 1 .. m : ~ program[i].function => \E k \in 1 .. Len(h[m]) : h[m][k] = program[i]
      BY <2>3, <3>2, <3>5, <3>6, <3>7
    <3> QED
      BY <2>1, <3>2, <3>4, <3>8
  <2> QED
    BY <1>1, <2>4, <2>5
<1>9. n \in A
  <2>. HIDE DEF A, n
  <2>1. \A m \in 1 .. n : m - 1 \in A => m \in A
    BY <1>8
  <2>2. n \in 0 .. n
    BY <1>2
  <2> QED
    BY <1>2, <1>7, <2>1, <2>2, UpTo
<1>10. Holds(n)
  BY <1>9
<1> QED
  BY <1>6, <1>10

LEMMA DeclIs ==
  ASSUME InSource, NEW c, Declared(c)
  PROVE  /\ \E i \in 1 .. Len(Classes) : Decl(c) = Classes[i]
         /\ Decl(c).name = c /\ IsClass(Decl(c)) /\ c # None
<1>. DEFINE I == {i \in 1 .. Len(Classes) : Classes[i].name = c}
<1>1. Decl(c) = Classes[IF I # {} THEN Min(I) ELSE 0]
  BY DEF Decl, SelectInSeq
<1>2. Classes \in Seq(ToSet(program))
  BY ClassesAre
<1>3. I # {}
  BY <1>2 DEF Declared
<1>4. I \in SUBSET Nat
  OBVIOUS
<1>5. Min(I) \in I
  <2>. HIDE DEF I
  <2> QED
    BY <1>3, <1>4, MinIs
<1>6. Min(I) \in 1 .. Len(Classes) /\ Classes[Min(I)].name = c /\ Decl(c) = Classes[Min(I)]
  BY <1>1, <1>3, <1>5
<1>7. IsClass(Decl(c))
  BY <1>6, ClassesAre
<1> QED
  BY <1>6, <1>7 DEF IsClass

-----------------------------------------------------------------------------
(* Walks up a line of classes.                                             *)

ClassNames == {Classes[i].name : i \in 1 .. Len(Classes)}

LEMMA DeclaredIs ==
  ASSUME InSource, NEW c
  PROVE  Declared(c) <=> c \in ClassNames
BY ClassesAre DEF Declared, ClassNames

\* A walk after n steps, each up to the parent of the last class if there is one.
Walks(f, c, n) ==
  /\ f[0] = <<c>>
  /\ \A m \in 0 .. n : f[m] \in Seq(ClassNames) /\ f[m] # <<>>
  /\ \A m \in 1 .. n : LET p == Decl(Last(f[m - 1])).parent
                       IN  f[m] = IF Declared(p) THEN Append(f[m - 1], p) ELSE f[m - 1]

LEMMA LineageWalks ==
  ASSUME InSource, NEW c, Declared(c)
  PROVE  \E f : Walks(f, c, Len(Classes)) /\ Lineage(c) = f[Len(Classes)]
<1>. DEFINE n == Len(Classes)
            T == ClassNames
            S == Seq(T)
            Next1(s) == LET p == Decl(Last(s)).parent IN IF Declared(p) THEN Append(s, p) ELSE s
            Sat(g) == g = [m \in 0 .. n |-> IF m = 0 THEN <<c>>
                                            ELSE LET p == Decl(Last(g[m - 1])).parent
                                                 IN  IF Declared(p) THEN Append(g[m - 1], p) ELSE g[m - 1]]
            F == [x \in (1 .. n) \X S |-> Next1(x[2])]
            h == CHOOSE g : Sat(g)
<1>1. n \in Nat
  BY ClassesAre
<1>2. <<c>> \in S
  BY DeclaredIs
<1>3. ASSUME NEW s \in S
      PROVE  Next1(s) \in S /\ (s # <<>> => Next1(s) # <<>>)
  <2>. DEFINE p == Decl(Last(s)).parent
  <2>1. CASE Declared(p)
    <3>1. p \in T
      BY <2>1, DeclaredIs
    <3>2. Next1(s) = Append(s, p)
      BY <2>1
    <3>. HIDE DEF p, Next1
    <3> QED
      BY <3>1, <3>2
  <2>2. CASE ~ Declared(p)
    BY <2>2
  <2> QED
    BY <2>1, <2>2
<1>. HIDE DEF Next1
<1>4. IsStep(F, n, S)
  BY <1>3 DEF IsStep
<1>5. PICK f : FollowsIn(f, n, S, <<c>>, F)
  <2>. HIDE DEF F, n, S
  <2> QED
    BY <1>1, <1>2, <1>4, Recursion, Zenon
<1>6. DOMAIN f = 0 .. n /\ f = [m \in DOMAIN f |-> f[m]] /\ f[0] = <<c>> /\ \A m \in 0 .. n : f[m] \in S
  BY <1>5 DEF FollowsIn
<1>7. ASSUME NEW m \in 1 .. n
      PROVE  f[m] = Next1(f[m - 1])
  <2>1. f[m - 1] \in S
    BY <1>1, <1>6
  <2>2. f[m] = F[<<m, f[m - 1]>>]
    BY <1>5 DEF FollowsIn
  <2> QED
    BY <2>1, <2>2
<1>8. Sat(f)
  <2>. DEFINE e == [m \in 0 .. n |-> IF m = 0 THEN <<c>> ELSE Next1(f[m - 1])]
  <2>1. ASSUME NEW m \in 0 .. n
        PROVE  f[m] = e[m]
    <3>1. CASE m = 0
      BY <1>6, <3>1
    <3>2. CASE m # 0
      <4>1. m \in 1 .. n /\ e[m] = Next1(f[m - 1])
        BY <1>1, <3>2
      <4>. HIDE DEF e
      <4> QED
        BY <1>7, <4>1
    <3> QED
      BY <3>1, <3>2
  <2>2. DOMAIN e = 0 .. n /\ e = [m \in DOMAIN e |-> e[m]]
    OBVIOUS
  <2>3. f = e
    <3>. HIDE DEF e
    <3> QED
      BY <1>6, <2>1, <2>2
  <2> QED
    BY <2>3 DEF Next1
<1>9. Sat(h)
  <2>. HIDE DEF Sat
  <2> QED
    BY <1>8
<1>10. Lineage(c) = h[n]
  BY DEF Lineage
<1>. HIDE DEF h
<1>11. h[0] = <<c>> /\ \A m \in 1 .. n : h[m] = Next1(h[m - 1])
  <2>. DEFINE e == [m \in 0 .. n |-> IF m = 0 THEN <<c>> ELSE Next1(h[m - 1])]
  <2>1. h = e
    BY <1>9 DEF Next1
  <2>2. e[0] = <<c>>
    BY <1>1
  <2>3. ASSUME NEW m \in 1 .. n
        PROVE  e[m] = Next1(h[m - 1])
    BY <1>1
  <2>. HIDE DEF e
  <2> QED
    BY <2>1, <2>2, <2>3
<1>. DEFINE A == {m \in 0 .. n : h[m] \in S /\ h[m] # <<>>}
<1>12. 0 \in A
  <2>1. <<c>> # <<>> /\ 0 \in 0 .. n
    BY <1>1
  <2>. HIDE DEF S
  <2> QED
    BY <1>2, <1>11, <2>1
<1>13. ASSUME NEW m \in 1 .. n, m - 1 \in A
       PROVE  m \in A
  <2>1. h[m - 1] \in S /\ h[m - 1] # <<>> /\ m \in 0 .. n
    BY <1>13
  <2>. HIDE DEF S
  <2> QED
    BY <1>3, <1>11, <2>1
<1>14. 0 .. n \subseteq A
  <2>. HIDE DEF A, n
  <2>1. \A m \in 1 .. n : m - 1 \in A => m \in A
    BY <1>13
  <2> QED
    BY <1>1, <1>12, <2>1, UpTo
<1>15. Walks(h, c, n)
  <2>1. \A m \in 0 .. n : h[m] \in S /\ h[m] # <<>>
    BY <1>14
  <2> QED
    BY <1>11, <2>1 DEF Walks, Next1
<1> QED
  BY <1>10, <1>15

\* Each class is declared as the parent of the one before.
Chain(s) ==
  /\ s \in Seq(ClassNames) /\ s # <<>>
  /\ \A i \in 1 .. (Len(s) - 1) : s[i + 1] = Decl(s[i]).parent
Ends(s) == ~ Declared(Decl(s[Len(s)]).parent)

LEMMA LineageIs ==
  ASSUME InSource, NEW c, Declared(c)
  PROVE  /\ Chain(Lineage(c)) /\ Lineage(c)[1] = c
         /\ Len(Lineage(c)) \in 1 .. (Len(Classes) + 1)
         /\ ~ Endless(c) => Ends(Lineage(c))
<1>. DEFINE n == Len(Classes)
<1>1. n \in Nat
  BY ClassesAre
<1>2. PICK f : Walks(f, c, n) /\ Lineage(c) = f[n]
  BY LineageWalks
<1>. DEFINE Holds(m) == /\ Chain(f[m]) /\ f[m][1] = c
                        /\ Len(f[m]) \in 1 .. (m + 1)
                        /\ Len(f[m]) <= m => Ends(f[m])
            A == {m \in 0 .. n : Holds(m)}
<1>3. 0 \in A
  <2>1. f[0] = <<c>> /\ f[0] \in Seq(ClassNames)
    BY <1>1, <1>2 DEF Walks
  <2>2. Holds(0)
    BY <2>1 DEF Chain
  <2>. HIDE DEF Holds
  <2> QED
    BY <1>1, <2>2
<1>4. ASSUME NEW m \in 1 .. n, m - 1 \in A
      PROVE  m \in A
  <2>. DEFINE s == f[m - 1]
              p == Decl(s[Len(s)]).parent
  <2>1. Holds(m - 1) /\ m \in 0 .. n
    BY <1>4
  <2>2. Chain(s) /\ s[1] = c /\ Len(s) \in 1 .. m /\ (Len(s) <= m - 1 => Ends(s)) /\ s \in Seq(ClassNames)
    BY <2>1 DEF Chain
  <2>3. f[m] = IF Declared(p) THEN Append(s, p) ELSE s
    BY <1>2 DEF Walks, Last
  <2>4. CASE Declared(p)
    <3>1. p \in ClassNames /\ f[m] = Append(s, p)
      BY <2>3, <2>4, DeclaredIs
    <3>2. Len(s) = m
      BY <2>2, <2>4 DEF Ends
    <3>3. \A i \in 1 .. (Len(s) - 1) : s[i + 1] = Decl(s[i]).parent
      BY <2>2 DEF Chain
    <3>4. p = Decl(s[Len(s)]).parent
      OBVIOUS
    <3>. HIDE DEF s, p
    <3>5. /\ f[m] \in Seq(ClassNames) /\ f[m] # <<>> /\ Len(f[m]) = m + 1
          /\ \A i \in 1 .. m : f[m][i] = s[i]
          /\ f[m][m + 1] = p
      BY <2>2, <3>1, <3>2
    <3>6. ASSUME NEW i \in 1 .. (Len(f[m]) - 1)
          PROVE  f[m][i + 1] = Decl(f[m][i]).parent
      <4>1. i \in 1 .. m /\ f[m][i] = s[i]
        BY <3>5
      <4>2. CASE i = m
        BY <3>2, <3>4, <3>5, <4>1, <4>2
      <4>3. CASE i # m
        <5>1. i \in 1 .. (Len(s) - 1) /\ i + 1 \in 1 .. m
          BY <3>2, <4>1, <4>3
        <5> QED
          BY <3>3, <3>5, <4>1, <5>1
      <4> QED
        BY <4>2, <4>3
    <3>7. Holds(m)
      BY <2>2, <3>5, <3>6 DEF Chain
    <3>. HIDE DEF Holds
    <3> QED
      BY <2>1, <3>7
  <2>5. CASE ~ Declared(p)
    <3>1. f[m] = s /\ Ends(s)
      BY <2>3, <2>5 DEF Ends
    <3>2. Holds(m)
      BY <2>2, <3>1
    <3>. HIDE DEF Holds
    <3> QED
      BY <2>1, <3>2
  <2> QED
    BY <2>4, <2>5
<1>5. n \in A
  <2>. HIDE DEF A, n
  <2>1. \A m \in 1 .. n : m - 1 \in A => m \in A
    BY <1>4
  <2>2. n \in 0 .. n
    BY <1>1
  <2> QED
    BY <1>1, <1>3, <2>1, <2>2, UpTo
<1>6. Holds(n)
  BY <1>5
<1> QED
  BY <1>1, <1>2, <1>6 DEF Endless

LEMMA SameChain ==
  ASSUME NEW s, Chain(s), NEW t, Chain(t), s[1] = t[1]
  PROVE  \A i \in 1 .. Len(s) : i <= Len(t) => s[i] = t[i]
<1>. DEFINE A == {0} \cup {i \in 1 .. Len(s) : i <= Len(t) => s[i] = t[i]}
<1>1. Len(s) \in Nat /\ Len(t) \in Nat
  BY DEF Chain
<1>2. ASSUME NEW i \in 1 .. Len(s), i - 1 \in A
      PROVE  i \in A
  <2>1. CASE i = 1
    BY <2>1
  <2>2. CASE i # 1
    <3>1. i - 1 \in 1 .. (Len(s) - 1) /\ (i - 1) + 1 = i
      BY <1>1, <2>2
    <3>2. s[i] = Decl(s[i - 1]).parent
      BY <3>1 DEF Chain
    <3>3. ASSUME i <= Len(t)
          PROVE  s[i] = t[i]
      <4>1. i - 1 \in 1 .. (Len(t) - 1) /\ i - 1 <= Len(t)
        BY <1>1, <3>1, <3>3
      <4>2. t[i] = Decl(t[i - 1]).parent
        BY <3>1, <4>1 DEF Chain
      <4>3. s[i - 1] = t[i - 1]
        BY <1>2, <3>1, <4>1
      <4> QED
        BY <3>2, <4>2, <4>3
    <3> QED
      BY <3>3
  <2> QED
    BY <2>1, <2>2
<1>3. 0 .. Len(s) \subseteq A
  <2>1. 0 \in A
    OBVIOUS
  <2>. HIDE DEF A
  <2>2. \A i \in 1 .. Len(s) : i - 1 \in A => i \in A
    BY <1>2
  <2> QED
    BY <1>1, <2>1, <2>2, UpTo
<1> QED
  BY <1>1, <1>3

\* Above a class is the line of its parent.
LEMMA LineageAbove ==
  ASSUME InSource, NEW c, Declared(c), ~ Endless(c), NEW p, p = Decl(c).parent
  PROVE  /\ Len(Lineage(c)) > 1 <=> Declared(p)
         /\ Declared(p) => /\ ~ Endless(p)
                           /\ Len(Lineage(p)) = Len(Lineage(c)) - 1
                           /\ \A i \in 1 .. Len(Lineage(p)) : Lineage(p)[i] = Lineage(c)[i + 1]
<1>. DEFINE s == Lineage(c)
            t == Lineage(p)
            u == [i \in 1 .. (Len(s) - 1) |-> s[i + 1]]
<1>1. Chain(s) /\ s[1] = c /\ Len(s) \in 1 .. (Len(Classes) + 1) /\ Ends(s) /\ Len(Classes) \in Nat
  BY LineageIs, ClassesAre
<1>2. Len(s) <= Len(Classes)
  BY <1>1 DEF Endless
<1>3. s \in Seq(ClassNames) /\ \A i \in 1 .. (Len(s) - 1) : s[i + 1] = Decl(s[i]).parent
  BY <1>1 DEF Chain
<1>4. CASE Len(s) = 1
  BY <1>1, <1>4 DEF Ends
<1>5. CASE Len(s) # 1
  <2>1. Len(s) > 1 /\ s[2] = p
    <3>. HIDE DEF s
    <3>. DEFINE l == Len(s)
    <3>0. l \in 1 .. (Len(Classes) + 1) /\ Len(Classes) \in Nat /\ l # 1
      BY <1>1, <1>5
    <3>. HIDE DEF l
    <3>1. l > 1 /\ 1 \in 1 .. (l - 1) /\ 1 + 1 = 2
      BY <3>0
    <3>. USE DEF l
    <3>2. s[1 + 1] = Decl(s[1]).parent
      BY <1>3, <3>1
    <3> QED
      BY <1>1, <3>1, <3>2
  <2>2. Declared(p)
    BY <1>3, <2>1, DeclaredIs
  <2>3. Chain(t) /\ t[1] = p /\ Len(t) \in 1 .. (Len(Classes) + 1) /\ (~ Endless(p) => Ends(t))
    BY <2>2, LineageIs
  <2>. HIDE DEF s, t
  <2>4. u \in Seq(ClassNames) /\ Len(u) = Len(s) - 1 /\ u # <<>>
    <3>1. \A i \in 1 .. (Len(s) - 1) : s[i + 1] \in ClassNames
      BY <1>1, <1>3
    <3>2. Len(s) - 1 \in Nat
      BY <1>1
    <3>3. u \in Seq(ClassNames) /\ Len(u) = Len(s) - 1
      BY <3>1, <3>2
    <3>. HIDE DEF u
    <3> QED
      BY <2>1, <3>3
  <2>5. \A i \in 1 .. Len(u) : u[i] = s[i + 1]
    BY <2>4
  <2>. HIDE DEF u
  <2>6. ASSUME NEW i \in 1 .. (Len(u) - 1)
        PROVE  u[i + 1] = Decl(u[i]).parent
    <3>1. i \in 1 .. Len(u) /\ i + 1 \in 1 .. Len(u) /\ i + 1 \in 1 .. (Len(s) - 1)
      BY <1>1, <2>4
    <3> QED
      BY <1>3, <2>5, <3>1
  <2>7. Chain(u) /\ u[1] = t[1]
    BY <2>1, <2>3, <2>4, <2>5, <2>6 DEF Chain
  <2>8. \A i \in 1 .. Len(u) : i <= Len(t) => u[i] = t[i]
    BY <2>3, <2>7, SameChain
  <2>9. u[Len(u)] = s[Len(s)] /\ Len(u) \in 1 .. Len(Classes) /\ Len(t) \in Nat
    BY <1>1, <1>2, <2>1, <2>3, <2>4, <2>5
  <2>10. Len(t) <= Len(u)
    <3>1. ASSUME Len(t) > Len(u)
          PROVE  FALSE
      <4>1. Len(u) \in 1 .. (Len(t) - 1) /\ Len(u) + 1 \in 1 .. Len(t) /\ Len(u) <= Len(t) /\ Len(u) \in 1 .. Len(u)
        BY <2>9, <3>1
      <4>2. t[Len(u) + 1] = Decl(t[Len(u)]).parent /\ t[Len(u) + 1] \in ClassNames
        BY <2>3, <4>1 DEF Chain
      <4>3. t[Len(u)] = s[Len(s)]
        BY <2>8, <2>9, <4>1
      <4> QED
        BY <1>1, <4>2, <4>3, DeclaredIs DEF Ends
    <3> QED
      BY <2>9, <3>1
  <2>11. ~ Endless(p) /\ Ends(t)
    BY <1>1, <1>2, <2>3, <2>4, <2>10 DEF Endless, t
  <2>12. Len(t) = Len(u)
    <3>1. ASSUME Len(t) < Len(u)
          PROVE  FALSE
      <4>1. Len(t) \in 1 .. (Len(u) - 1) /\ Len(t) + 1 \in 1 .. Len(u) /\ Len(t) \in 1 .. Len(u) /\ Len(t) <= Len(t)
        BY <2>3, <2>9, <3>1
      <4>2. u[Len(t) + 1] = Decl(u[Len(t)]).parent /\ u[Len(t) + 1] \in ClassNames
        BY <2>4, <2>7, <4>1 DEF Chain
      <4>3. u[Len(t)] = t[Len(t)]
        BY <2>8, <4>1
      <4> QED
        BY <2>11, <4>2, <4>3, DeclaredIs DEF Ends
    <3> QED
      BY <2>9, <2>10, <3>1
  <2> QED
    BY <2>1, <2>2, <2>4, <2>5, <2>8, <2>9, <2>11, <2>12 DEF s, t
<1> QED
  BY <1>4, <1>5

-----------------------------------------------------------------------------
(* Functions by their symbols.                                             *)

\* Classes are told apart by their names.
Unique == \A i, k \in 1 .. Len(Classes) : Classes[i].name = Classes[k].name => i = k

\* A function of the program, or of a class.
CodeOK(code) ==
  code.class = None \/ (Declared(code.class) /\ code.index \in DOMAIN Decl(code.class).methods)

LEMMA DeclOf ==
  ASSUME InSource, Unique, NEW i \in 1 .. Len(program), ~ program[i].function
  PROVE  Declared(program[i].name) /\ Decl(program[i].name) = program[i]
<1>1. PICK k \in 1 .. Len(Classes) : Classes[k] = program[i]
  BY ClassesAre
<1>2. Declared(program[i].name)
  BY <1>1, ClassesAre DEF Declared
<1>3. PICK l \in 1 .. Len(Classes) : Decl(program[i].name) = Classes[l]
  BY <1>2, DeclIs
<1>4. Classes[l].name = Classes[k].name
  BY <1>1, <1>2, <1>3, DeclIs
<1>5. l = k
  BY <1>4 DEF Unique
<1> QED
  BY <1>1, <1>2, <1>3, <1>5

\* Every method of a class has a symbol, and a symbol is that of a function.
LEMMA FunctionNamedOK ==
  ASSUME InSource, Unique, NEW c, Declared(c), NEW j \in DOMAIN Decl(c).methods
  PROVE  CodeOK(FunctionNamed(Symbol(c, Decl(c).methods[j].name)))
<1>. DEFINE Of(d) == IF d.function THEN <<[name |-> d.name, code |-> Code(None, 1)]>>
                     ELSE [k \in DOMAIN d.methods |->
                             [name |-> Symbol(d.name, d.methods[k].name), code |-> Code(d.name, k)]]
            ss == [i \in DOMAIN program |-> Of(program[i])]
            T  == UNION {ToSet(ss[i]) : i \in DOMAIN program}
            x  == Symbol(c, Decl(c).methods[j].name)
<1>1. /\ program \in Seq(ToSet(program))
      /\ \A i \in DOMAIN program : ~ program[i].function => IsClass(program[i])
  BY ProgramsAssumption DEF InSource, IsList
<1>2. Symbols = FlattenSeq(ss)
  BY DEF Symbols
<1>3. ASSUME NEW i \in DOMAIN program
      PROVE  ss[i] \in Seq(T)
  <2>1. DOMAIN ss[i] = 1 .. Len(ss[i]) /\ Len(ss[i]) \in Nat /\ ss[i] = [k \in DOMAIN ss[i] |-> ss[i][k]]
    <3>1. CASE program[i].function
      <4>. DEFINE e == [name |-> program[i].name, code |-> Code(None, 1)]
      <4>1. ss[i] = <<e>>
        BY <3>1
      <4>. HIDE DEF ss, e
      <4>2. <<e>> \in Seq({e})
        OBVIOUS
      <4> QED
        BY <4>1, <4>2
    <3>2. CASE ~ program[i].function
      <4>1. program[i].methods \in Seq(ToSet(program[i].methods))
        BY <1>1, <3>2 DEF IsClass, IsList
      <4>. DEFINE l == Len(program[i].methods)
      <4>2. l \in Nat /\ DOMAIN program[i].methods = 1 .. l
        BY <4>1
      <4>3. ss[i] = [k \in 1 .. l |->
                       [name |-> Symbol(program[i].name, program[i].methods[k].name), code |-> Code(program[i].name, k)]]
        BY <3>2, <4>2
      <4>. DEFINE e == [k \in 1 .. l |->
                       [name |-> Symbol(program[i].name, program[i].methods[k].name), code |-> Code(program[i].name, k)]]
      <4>4. e = [k \in DOMAIN e |-> e[k]] /\ DOMAIN e = 1 .. l
        OBVIOUS
      <4>5. e = ss[i]
        BY <4>3
      <4>. HIDE DEF l, ss, e
      <4>6. Len(e) = l
        BY <4>2, <4>4
      <4> QED
        BY <4>2, <4>4, <4>5, <4>6
    <3> QED
      BY <3>1, <3>2
  <2>2. \A k \in DOMAIN ss[i] : ss[i][k] \in T
    BY DEF ToSet
  <2>. HIDE DEF ss, T
  <2> QED
    BY <2>1, <2>2
<1>4. ss \in Seq(Seq(T)) /\ DOMAIN ss = DOMAIN program
  <2>1. DOMAIN ss = 1 .. Len(program) /\ Len(program) \in Nat /\ DOMAIN program = 1 .. Len(program)
    BY <1>1
  <2>2. ss \in [1 .. Len(program) -> Seq(T)]
    BY <1>3, <2>1
  <2>. HIDE DEF ss, T
  <2> QED
    BY <2>1, <2>2
<1>5. Symbols \in Seq(T) /\ ToSet(Symbols) = T
  <2>1. ToSet(FlattenSeq(ss)) = UNION {ToSet(ss[i]) : i \in DOMAIN ss} /\ FlattenSeq(ss) \in Seq(T)
    <3>. HIDE DEF ss, T
    <3> QED
      BY <1>4, FlattenIs
  <2>. HIDE DEF ss
  <2> QED
    BY <1>2, <1>4, <2>1
<1>6. \E y \in T : y.name = x
  <2>1. PICK i \in 1 .. Len(Classes) : Decl(c) = Classes[i]
    BY DeclIs
  <2>2. PICK k \in DOMAIN program : Decl(c) = program[k]
    BY <2>1, ClassesAre DEF ToSet
  <2>3. ~ program[k].function /\ program[k].name = c
    BY <2>1, <2>2, ClassesAre, DeclIs
  <2>4. ss[k][j] = [name |-> x, code |-> Code(c, j)] /\ j \in DOMAIN ss[k]
    BY <2>2, <2>3
  <2>5. ss[k][j] \in T
    BY <2>4 DEF ToSet
  <2>6. ss[k][j].name = x
    BY <2>4
  <2>. HIDE DEF ss, T, x
  <2> QED
    BY <2>5, <2>6
<1>7. ASSUME NEW y \in T
      PROVE  CodeOK(y.code)
  <2>1. PICK i \in DOMAIN program : y \in ToSet(ss[i])
    OBVIOUS
  <2>2. PICK k \in DOMAIN ss[i] : y = ss[i][k]
    BY <2>1 DEF ToSet
  <2>3. CASE program[i].function
    BY <2>2, <2>3 DEF CodeOK, Code
  <2>4. CASE ~ program[i].function
    <3>1. k \in DOMAIN program[i].methods /\ y.code = Code(program[i].name, k)
      BY <2>2, <2>4
    <3>2. Declared(program[i].name) /\ Decl(program[i].name) = program[i]
      BY <1>1, <2>4, DeclOf
    <3> QED
      BY <3>1, <3>2 DEF CodeOK, Code
  <2> QED
    BY <2>3, <2>4
<1>8. Symbols[Named(Symbols, x)] \in T
  <2>. HIDE DEF T, x
  <2>1. PICK k \in 1 .. Len(Symbols) : Symbols[k].name = x
    BY <1>5, <1>6 DEF ToSet
  <2>2. Named(Symbols, x) \in 1 .. Len(Symbols)
    BY <1>5, <2>1, NamedIs
  <2> QED
    BY <1>5, <2>2
<1> QED
  BY <1>7, <1>8 DEF FunctionNamed

-----------------------------------------------------------------------------
(* Definitions.                                                            *)

\* The last method of a name, and the function that is put into a definition.
LastNamed(c, m) ==
  CHOOSE j \in DOMAIN Decl(c).methods :
    /\ Decl(c).methods[j].name = m
    /\ \A k \in j + 1 .. Len(Decl(c).methods) : Decl(c).methods[k].name # m
CodeFor(c, j) ==
  IF backend = "aot" THEN FunctionNamed(Symbol(c, Decl(c).methods[j].name)) ELSE Code(c, j)

\* A definition once its parent is resolved.
Linked(c) ==
  [Definition(c) EXCEPT !.parent = IF Declared(Decl(c).parent) THEN Decl(c).parent ELSE None]

LEMMA DefinitionIs ==
  ASSUME NEW c
  PROVE  Definition(c) =
    [name |-> c, parentName |-> Decl(c).parent, parent |-> None,
     fields |-> IF backend = "aot" THEN AllFields(c) ELSE Decl(c).fields,
     methods |-> [j \in DOMAIN Decl(c).methods |->
        [name |-> Decl(c).methods[j].name,
         code |-> IF Named(Decl(c).methods, Decl(c).methods[j].name) = j
                  THEN CodeFor(c, LastNamed(c, Decl(c).methods[j].name)) ELSE NoCode]]]
BY DEF Definition, LastNamed, CodeFor

LEMMA LinkedIs ==
  ASSUME NEW c
  PROVE  /\ Linked(c).name = c /\ Linked(c).parentName = Decl(c).parent
         /\ Linked(c).parent = IF Declared(Decl(c).parent) THEN Decl(c).parent ELSE None
         /\ Linked(c).fields = IF backend = "aot" THEN AllFields(c) ELSE Decl(c).fields
         /\ DOMAIN Linked(c).methods = DOMAIN Decl(c).methods
         /\ \A j \in DOMAIN Decl(c).methods :
              /\ Linked(c).methods[j].name = Decl(c).methods[j].name
              /\ Named(Decl(c).methods, Decl(c).methods[j].name) = j =>
                   Linked(c).methods[j].code = CodeFor(c, LastNamed(c, Decl(c).methods[j].name))
         /\ Linked(c).methods = [j \in DOMAIN Decl(c).methods |-> Linked(c).methods[j]]
BY DefinitionIs DEF Linked

LEMMA LastNamedIs ==
  ASSUME InSource, NEW c, Declared(c), NEW m, NEW i \in DOMAIN Decl(c).methods, Decl(c).methods[i].name = m
  PROVE  /\ LastNamed(c, m) \in DOMAIN Decl(c).methods
         /\ Decl(c).methods[LastNamed(c, m)].name = m
         /\ i <= LastNamed(c, m)
<1>. DEFINE ms == Decl(c).methods
            n  == Len(ms)
            Up == {n - j : j \in {k \in 1 .. n : ms[k].name = m}}
            Is(j) == ms[j].name = m /\ \A k \in j + 1 .. n : ms[k].name # m
<1>1. ms \in Seq(ToSet(ms))
  BY DeclIs DEF IsClass, IsList
<1>2. n \in Nat /\ DOMAIN ms = 1 .. n
  BY <1>1
<1>. HIDE DEF ms, n
<1>3. i \in 1 .. n /\ ms[i].name = m
  BY <1>2 DEF ms
<1>4. n - i \in Up /\ Up \in SUBSET Nat
  BY <1>2, <1>3
<1>5. PICK l \in {k \in 1 .. n : ms[k].name = m} : \A x \in Up : n - l <= x
  <2>1. Min(Up) \in Up /\ \A x \in Up : Min(Up) <= x
    <3>. HIDE DEF Up
    <3> QED
      BY <1>4, MinIs
  <2> QED
    BY <2>1
<1>6. ASSUME NEW k \in l + 1 .. n, ms[k].name = m
      PROVE  FALSE
  <2>1. k \in 1 .. n /\ n - k \in Up /\ ~ (n - l <= n - k)
    BY <1>2, <1>5, <1>6
  <2> QED
    BY <1>5, <2>1
<1>7. l \in DOMAIN ms /\ Is(l)
  BY <1>2, <1>5, <1>6
<1>8. LastNamed(c, m) = CHOOSE j \in DOMAIN ms : Is(j)
  BY DEF LastNamed, ms, n
<1>9. LastNamed(c, m) \in DOMAIN ms /\ Is(LastNamed(c, m))
  <2>. HIDE DEF Is
  <2> QED
    BY <1>7, <1>8
<1>10. i <= LastNamed(c, m)
  <2>1. LastNamed(c, m) \in 1 .. n
    BY <1>2, <1>9
  <2>2. ~ (i \in LastNamed(c, m) + 1 .. n)
    BY <1>3, <1>9
  <2> QED
    BY <1>2, <1>3, <2>1, <2>2
<1> QED
  BY <1>9, <1>10 DEF ms

\* The code that a definition has for a method is the method's, or another has
\* taken its place.
LEMMA MethodCode ==
  ASSUME InSource, Unique, backend \in {"aot", "jit"},
         NEW c, Declared(c), NEW m, NEW j, j = Named(Decl(c).methods, m), j # 0
  PROVE  /\ j \in DOMAIN Decl(c).methods /\ Decl(c).methods[j].name = m
         /\ Linked(c).methods[j].code = Code(c, j) \/ Replaced(Code(c, j))
         /\ CodeOK(Linked(c).methods[j].code)
<1>. DEFINE ms == Decl(c).methods
            l  == LastNamed(c, m)
<1>1. ms \in Seq(ToSet(ms))
  BY DeclIs DEF IsClass, IsList
<1>2. DOMAIN ms = 1 .. Len(ms) /\ j \in 1 .. Len(ms) /\ ms[j].name = m /\ Len(ms) \in Nat
  BY <1>1, NamedIs
<1>3. Linked(c).methods[j].code = CodeFor(c, l)
  <2>1. j \in DOMAIN Decl(c).methods /\ Decl(c).methods[j].name = m
    BY <1>2
  <2>2. Named(Decl(c).methods, Decl(c).methods[j].name) = j
    BY <2>1
  <2>3. Linked(c).methods[j].code = CodeFor(c, LastNamed(c, Decl(c).methods[j].name))
    BY <2>1, <2>2, LinkedIs
  <2> QED
    BY <2>1, <2>3
<1>4. l \in DOMAIN ms /\ ms[l].name = m /\ j <= l
  BY <1>2, LastNamedIs
<1>. HIDE DEF l
<1>5. CASE backend = "aot"
  <2>1. CodeFor(c, l) = FunctionNamed(Symbol(c, m))
    BY <1>4, <1>5 DEF CodeFor
  <2>2. CodeOK(FunctionNamed(Symbol(c, m)))
    BY <1>4, FunctionNamedOK
  <2>3. FunctionNamed(Symbol(c, m)) # Code(c, j) => Replaced(Code(c, j))
    BY <1>2, <1>5 DEF Replaced, Code
  <2> QED
    BY <1>2, <1>3, <2>1, <2>2, <2>3
<1>6. CASE backend = "jit"
  <2>1. CodeFor(c, l) = Code(c, l)
    BY <1>6 DEF CodeFor
  <2>2. CodeOK(Code(c, l))
    BY <1>4 DEF CodeOK, Code
  <2>3. l # j => Replaced(Code(c, j))
    <3>1. ASSUME l # j
          PROVE  l \in j + 1 .. Len(ms)
      BY <1>2, <1>4, <3>1
    <3> QED
      BY <1>2, <1>4, <1>6, <3>1 DEF Replaced, Code
  <2> QED
    BY <1>2, <1>3, <2>1, <2>2, <2>3
<1> QED
  BY <1>5, <1>6

-----------------------------------------------------------------------------
(* The registry of a program that runs.                                    *)

RegistryDone ==
  /\ registry \in Seq(ToSet(registry)) /\ Len(registry) = Len(Classes)
  /\ {registry[i].name : i \in 1 .. Len(registry)} = ClassNames
  /\ \A i \in 1 .. Len(registry) : registry[i] = Linked(registry[i].name)

LEMMA Registered ==
  ASSUME InSource, RegistryDone, NEW c
  PROVE  /\ Find(c) # 0 <=> Declared(c)
         /\ Declared(c) => registry[Find(c)] = Linked(c) /\ Find(c) \in 1 .. Len(registry)
<1>1. Declared(c) <=> \E i \in 1 .. Len(registry) : registry[i].name = c
  BY DeclaredIs DEF RegistryDone
<1>2. /\ Find(c) \in 0 .. Len(registry)
      /\ Find(c) = 0 <=> \A i \in 1 .. Len(registry) : registry[i].name # c
      /\ Find(c) # 0 => registry[Find(c)].name = c
  BY NamedIs DEF RegistryDone, Find
<1>3. Len(registry) \in Nat
  BY DEF RegistryDone
<1>4. Find(c) # 0 => Find(c) \in 1 .. Len(registry)
  BY <1>2, <1>3
<1> QED
  BY <1>1, <1>2, <1>4 DEF RegistryDone

\* The walk over parent_class is the walk over the declarations.
LEMMA DefinitionsAre ==
  ASSUME InSource, RegistryDone, NEW c, Declared(c)
  PROVE  /\ Definitions(c) \in Seq(ToSet(registry))
         /\ Len(Definitions(c)) = Len(Lineage(c))
         /\ \A i \in 1 .. Len(Lineage(c)) : Definitions(c)[i] = Linked(Lineage(c)[i])
<1>. DEFINE n == Len(registry)
            R == {registry[i] : i \in 0 .. n}
            S == Seq(R)
            Next1(s) == IF Last(s).parent = None THEN s ELSE Append(s, registry[Find(Last(s).parent)])
            Sat(g) == g = [m \in 0 .. n |-> IF m = 0 THEN <<registry[Find(c)]>>
                                            ELSE IF Last(g[m - 1]).parent = None THEN g[m - 1]
                                            ELSE Append(g[m - 1], registry[Find(Last(g[m - 1]).parent)])]
            F == [x \in (1 .. n) \X S |-> Next1(x[2])]
            h == CHOOSE g : Sat(g)
<1>1. n \in Nat /\ n = Len(Classes) /\ registry \in Seq(ToSet(registry))
  BY DEF RegistryDone
<1>2. \A x : registry[Find(x)] \in R
  BY <1>1, NamedIs DEF Find
<1>3. <<registry[Find(c)]>> \in S
  BY <1>2
<1>4. ASSUME NEW s \in S
      PROVE  Next1(s) \in S
  <2>. DEFINE p == Last(s).parent
              r == registry[Find(p)]
  <2>1. CASE p = None
    BY <2>1
  <2>2. CASE p # None
    <3>1. r \in R /\ Next1(s) = Append(s, r)
      BY <1>2, <2>2
    <3>. HIDE DEF r, R, Next1
    <3> QED
      BY <3>1
  <2> QED
    BY <2>1, <2>2
<1>. HIDE DEF Next1
<1>5. IsStep(F, n, S)
  BY <1>4 DEF IsStep
<1>. DEFINE z == <<registry[Find(c)]>>
<1>6. PICK f : FollowsIn(f, n, S, z, F)
  <2>. HIDE DEF F, n, S, z
  <2>1. z \in S
    BY <1>3 DEF z
  <2> QED
    BY <1>1, <1>5, <2>1, Recursion, Zenon
<1>7. DOMAIN f = 0 .. n /\ f = [m \in DOMAIN f |-> f[m]] /\ f[0] = z /\ \A m \in 0 .. n : f[m] \in S
  BY <1>6 DEF FollowsIn
<1>8. ASSUME NEW m \in 1 .. n
      PROVE  f[m] = Next1(f[m - 1])
  <2>1. f[m - 1] \in S
    BY <1>1, <1>7
  <2>2. f[m] = F[<<m, f[m - 1]>>]
    BY <1>6 DEF FollowsIn
  <2> QED
    BY <2>1, <2>2
<1>9. Sat(f)
  <2>. DEFINE e == [m \in 0 .. n |-> IF m = 0 THEN z ELSE Next1(f[m - 1])]
  <2>1. ASSUME NEW m \in 0 .. n
        PROVE  f[m] = e[m]
    <3>1. CASE m = 0
      BY <1>7, <3>1
    <3>2. CASE m # 0
      <4>1. m \in 1 .. n /\ e[m] = Next1(f[m - 1])
        BY <1>1, <3>2
      <4>. HIDE DEF e
      <4> QED
        BY <1>8, <4>1
    <3> QED
      BY <3>1, <3>2
  <2>2. DOMAIN e = 0 .. n /\ e = [m \in DOMAIN e |-> e[m]]
    OBVIOUS
  <2>3. f = e
    <3>. HIDE DEF e
    <3> QED
      BY <1>7, <2>1, <2>2
  <2> QED
    BY <2>3 DEF Next1
<1>10. Sat(h)
  <2>. HIDE DEF Sat
  <2> QED
    BY <1>9
<1>11. Definitions(c) = h[n]
  BY DEF Definitions
<1>. HIDE DEF h
<1>12. h[0] = z /\ \A m \in 1 .. n : h[m] = Next1(h[m - 1])
  <2>. DEFINE e == [m \in 0 .. n |-> IF m = 0 THEN z ELSE Next1(h[m - 1])]
  <2>1. h = e
    BY <1>10 DEF Next1
  <2>2. e[0] = z
    BY <1>1
  <2>3. ASSUME NEW m \in 1 .. n
        PROVE  e[m] = Next1(h[m - 1])
    BY <1>1
  <2>. HIDE DEF e, z
  <2> QED
    BY <2>1, <2>2, <2>3
<1>13. PICK w : Walks(w, c, n) /\ Lineage(c) = w[n]
  BY <1>1, LineageWalks
<1>. DEFINE Q == ToSet(registry)
            Holds(m) == /\ h[m] \in Seq(Q) /\ Len(h[m]) = Len(w[m])
                        /\ \A i \in 1 .. Len(w[m]) : h[m][i] = Linked(w[m][i])
            A == {m \in 0 .. n : Holds(m)}
<1>14. \A x : Declared(x) => registry[Find(x)] = Linked(x) /\ registry[Find(x)] \in Q
  BY <1>1, Registered DEF ToSet
<1>15. 0 \in A
  <2>. DEFINE r == registry[Find(c)]
  <2>1. h[0] = <<r>> /\ w[0] = <<c>> /\ r = Linked(c) /\ r \in Q /\ 0 \in 0 .. n
    BY <1>1, <1>12, <1>13, <1>14 DEF Walks
  <2>. HIDE DEF r, Q
  <2>2. Holds(0)
    BY <2>1
  <2>. HIDE DEF Holds
  <2> QED
    BY <2>1, <2>2
<1>16. ASSUME NEW m \in 1 .. n, m - 1 \in A
       PROVE  m \in A
  <2>. DEFINE s == w[m - 1]
              t == h[m - 1]
              p == Decl(s[Len(s)]).parent
  <2>1. Holds(m - 1) /\ m \in 0 .. n /\ m - 1 \in 0 .. n
    BY <1>1, <1>16
  <2>2. s \in Seq(ClassNames) /\ s # <<>> /\ w[m] = IF Declared(p) THEN Append(s, p) ELSE s
    BY <1>13, <2>1 DEF Walks, Last
  <2>3. Len(s) \in Nat \ {0} /\ t \in Seq(Q) /\ Len(t) = Len(s) /\ \A i \in 1 .. Len(s) : t[i] = Linked(s[i])
    <3>. HIDE DEF s, t, Q
    <3>1. t \in Seq(Q) /\ Len(t) = Len(s) /\ \A i \in 1 .. Len(s) : t[i] = Linked(s[i])
      BY <2>1 DEF s, t
    <3> QED
      BY <2>2, <3>1
  <2>4. Last(t) = Linked(s[Len(s)])
    <3>. HIDE DEF s, t, Q
    <3> QED
      BY <2>3 DEF Last
  <2>5. Last(t).parent = IF Declared(p) THEN p ELSE None
    BY <2>4, LinkedIs, ZenonT(60)
  <2>6. h[m] = IF Last(t).parent = None THEN t ELSE Append(t, registry[Find(Last(t).parent)])
    BY <1>12 DEF Next1
  <2>7. CASE Declared(p)
    <3>. DEFINE r == registry[Find(p)]
    <3>1. p # None /\ r = Linked(p) /\ r \in Q
      BY <1>14, <2>7, DeclIs
    <3>2. h[m] = Append(t, r) /\ w[m] = Append(s, p)
      BY <2>2, <2>5, <2>6, <2>7, <3>1
    <3>3. p \in ClassNames
      BY <2>7, DeclaredIs
    <3>. HIDE DEF r, p, s, t, Q
    <3>4. h[m] \in Seq(Q) /\ Len(h[m]) = Len(s) + 1 /\ h[m][Len(s) + 1] = r /\ \A i \in 1 .. Len(s) : h[m][i] = t[i]
      BY <2>3, <3>1, <3>2
    <3>5. Len(w[m]) = Len(s) + 1 /\ w[m][Len(s) + 1] = p /\ \A i \in 1 .. Len(s) : w[m][i] = s[i]
      BY <2>2, <2>3, <3>2, <3>3
    <3>6. ASSUME NEW i \in 1 .. Len(w[m])
          PROVE  h[m][i] = Linked(w[m][i])
      <4>1. i \in 1 .. Len(s) \/ i = Len(s) + 1
        BY <2>3, <3>5
      <4> QED
        BY <2>3, <3>1, <3>4, <3>5, <4>1
    <3>7. Holds(m)
      BY <3>4, <3>5, <3>6
    <3>. HIDE DEF Holds
    <3> QED
      BY <2>1, <3>7
  <2>8. CASE ~ Declared(p)
    <3>1. h[m] = t /\ w[m] = s
      BY <2>2, <2>5, <2>6, <2>8
    <3>2. Holds(m)
      BY <2>1, <3>1
    <3>. HIDE DEF Holds
    <3> QED
      BY <2>1, <3>2
  <2> QED
    BY <2>7, <2>8
<1>17. n \in A
  <2>. HIDE DEF A, n
  <2>1. \A m \in 1 .. n : m - 1 \in A => m \in A
    BY <1>16
  <2>2. n \in 0 .. n
    BY <1>1
  <2> QED
    BY <1>1, <1>15, <2>1, <2>2, UpTo
<1>18. Holds(n)
  BY <1>17
<1> QED
  BY <1>11, <1>13, <1>18

-----------------------------------------------------------------------------
(* The search for a method.                                                *)

LEMMA SameNames ==
  ASSUME NEW T, NEW s \in Seq(T), NEW U, NEW t \in Seq(U), Len(s) = Len(t),
         \A i \in 1 .. Len(s) : s[i].name = t[i].name, NEW m
  PROVE  Named(s, m) = Named(t, m)
<1>1. /\ Named(s, m) \in 0 .. Len(s)
      /\ Named(s, m) = 0 <=> \A i \in 1 .. Len(s) : s[i].name # m
      /\ Named(s, m) # 0 => s[Named(s, m)].name = m /\ \A i \in 1 .. Len(s) : s[i].name = m => Named(s, m) <= i
  BY NamedIs
<1>2. /\ Named(t, m) \in 0 .. Len(t)
      /\ Named(t, m) = 0 <=> \A i \in 1 .. Len(t) : t[i].name # m
      /\ Named(t, m) # 0 => t[Named(t, m)].name = m /\ \A i \in 1 .. Len(t) : t[i].name = m => Named(t, m) <= i
  BY NamedIs
<1>3. Len(s) \in Nat
  OBVIOUS
<1> QED
  BY <1>1, <1>2, <1>3

LEMMA MethodsAre ==
  ASSUME InSource, NEW c, Declared(c)
  PROVE  /\ Decl(c).methods \in Seq(ToSet(Decl(c).methods))
         /\ Len(Decl(c).methods) \in Nat \ {0}
         /\ DOMAIN Decl(c).methods = 1 .. Len(Decl(c).methods)
         /\ Decl(c).methods[1].name = InitName
         /\ Named(Decl(c).methods, InitName) = 1
<1>. DEFINE ms == Decl(c).methods
<1>1. ms \in Seq(ToSet(ms)) /\ ms # <<>> /\ ms[1].name = InitName
  BY DeclIs DEF IsClass, IsList
<1>2. Len(ms) \in Nat \ {0} /\ DOMAIN ms = 1 .. Len(ms)
  BY <1>1
<1>3. Named(ms, InitName) = 1
  <2>1. /\ Named(ms, InitName) \in 0 .. Len(ms)
        /\ Named(ms, InitName) = 0 <=> \A i \in 1 .. Len(ms) : ms[i].name # InitName
        /\ Named(ms, InitName) # 0 => \A i \in 1 .. Len(ms) : ms[i].name = InitName => Named(ms, InitName) <= i
    BY <1>1, NamedIs
  <2>. HIDE DEF ms
  <2> QED
    BY <1>1, <1>2, <2>1
<1> QED
  BY <1>1, <1>2, <1>3

\* The methods of a definition, found by name, are those of the declaration.
LEMMA LinkedNamed ==
  ASSUME InSource, NEW c, Declared(c), NEW m
  PROVE  /\ Linked(c).methods \in Seq(ToSet(Linked(c).methods))
         /\ Len(Linked(c).methods) = Len(Decl(c).methods)
         /\ Named(Linked(c).methods, m) = Named(Decl(c).methods, m)
<1>. DEFINE ms == Decl(c).methods
            ls == Linked(c).methods
            n  == Len(ms)
<1>1. ms \in Seq(ToSet(ms)) /\ n \in Nat /\ DOMAIN ms = 1 .. n
  BY MethodsAre
<1>2. ls = [j \in 1 .. n |-> ls[j]] /\ \A j \in 1 .. n : ls[j].name = ms[j].name
  BY <1>1, LinkedIs
<1>. HIDE DEF ms, ls, n
<1>3. ls \in Seq(ToSet(ls)) /\ Len(ls) = n
  <2>1. DOMAIN ls = 1 .. n
    BY <1>2
  <2>2. \A j \in 1 .. n : ls[j] \in ToSet(ls)
    BY <2>1 DEF ToSet
  <2> QED
    BY <1>1, <1>2, <2>1, <2>2
<1>4. Named(ls, m) = Named(ms, m)
  BY <1>1, <1>2, <1>3, SameNames, ZenonT(60) DEF n
<1> QED
  BY <1>3, <1>4 DEF ms, ls, n

\* An object has the methods of its class, with one function for each name.
MethodsOf(c) ==
  [j \in DOMAIN Linked(c).methods |->
     [name |-> Linked(c).methods[j].name,
      code |-> Linked(c).methods[Named(Linked(c).methods, Linked(c).methods[j].name)].code]]

LEMMA OwnMethod ==
  ASSUME InSource, NEW c, Declared(c), NEW m
  PROVE  /\ Named(MethodsOf(c), m) = Named(Decl(c).methods, m)
         /\ Named(MethodsOf(c), m) # 0 =>
              MethodsOf(c)[Named(MethodsOf(c), m)].code = Linked(c).methods[Named(Decl(c).methods, m)].code
<1>. DEFINE ms == Decl(c).methods
            ls == Linked(c).methods
            os == MethodsOf(c)
            n  == Len(ms)
<1>1. ms \in Seq(ToSet(ms)) /\ n \in Nat /\ DOMAIN ms = 1 .. n
  BY MethodsAre
<1>2. ls \in Seq(ToSet(ls)) /\ Len(ls) = n /\ (\A x : Named(ls, x) = Named(ms, x)) /\ \A j \in 1 .. n : ls[j].name = ms[j].name
  <2>1. ls \in Seq(ToSet(ls)) /\ Len(ls) = n
    BY LinkedNamed
  <2>2. \A x : Named(ls, x) = Named(ms, x)
    BY LinkedNamed
  <2>3. \A j \in 1 .. n : ls[j].name = ms[j].name
    <3>1. \A j \in DOMAIN Decl(c).methods : Linked(c).methods[j].name = Decl(c).methods[j].name
      BY LinkedIs
    <3> QED
      BY <1>1, <3>1
  <2> QED
    BY <2>1, <2>2, <2>3
<1>3. os = [j \in 1 .. n |-> os[j]] /\ \A j \in 1 .. n : /\ os[j].name = ms[j].name
                                                       /\ os[j].code = ls[Named(ls, ms[j].name)].code
  BY <1>2 DEF MethodsOf
<1>. HIDE DEF ms, ls, os, n
<1>4. os \in Seq(ToSet(os)) /\ Len(os) = n
  <2>1. DOMAIN os = 1 .. n
    BY <1>3
  <2>2. \A j \in 1 .. n : os[j] \in ToSet(os)
    BY <2>1 DEF ToSet
  <2> QED
    BY <1>1, <1>3, <2>1, <2>2
<1>5. Named(os, m) = Named(ms, m)
  BY <1>1, <1>3, <1>4, SameNames, ZenonT(60) DEF n
<1>6. Named(ms, m) # 0 => Named(ms, m) \in 1 .. n /\ ms[Named(ms, m)].name = m
  BY <1>1, NamedIs DEF n
<1>7. Named(os, m) # 0 => os[Named(os, m)].code = ls[Named(ms, m)].code
  BY <1>2, <1>3, <1>5, <1>6
<1> QED
  BY <1>5, <1>7 DEF ms, ls, os

\* The code of a call: the method that is nearest, unless another has its place.
Dispatched(code, c, m) == code = Nearest(c, m) \/ Replaced(Nearest(c, m))

\* What the runtime keeps of an object, apart from its fields.
IsInstance(o, c) ==
  o.class = c /\ o.parent = Linked(c).parent /\ o.methods = MethodsOf(c)

LEMMA NearestOwn ==
  ASSUME InSource, NEW c, Declared(c), NEW m, Named(Decl(c).methods, m) # 0
  PROVE  Nearest(c, m) = Code(c, Named(Decl(c).methods, m))
<1>. DEFINE l == Lineage(c)
            I == {i \in 1 .. Len(l) : Named(Decl(l[i]).methods, m) # 0}
            r == IF I # {} THEN Min(I) ELSE 0
<1>1. l[1] = c /\ Len(l) \in Nat /\ 1 \in 1 .. Len(l)
  BY LineageIs, ClassesAre
<1>2. Nearest(c, m) = Code(l[r], Named(Decl(l[r]).methods, m))
  BY DEF Nearest, SelectInSeq
<1>. HIDE DEF l
<1>3. 1 \in I /\ I \in SUBSET (1 .. Len(l))
  BY <1>1
<1>4. r \in I /\ r <= 1
  <2>. HIDE DEF I
  <2>1. \A x \in I : Min(I) <= x
    BY <1>1, <1>3, MinIs
  <2>2. Min(I) \in I
    BY <1>1, <1>3, MinIs
  <2> QED
    BY <1>3, <2>1, <2>2
<1>5. r = 1
  BY <1>3, <1>4
<1>. HIDE DEF r
<1> QED
  BY <1>1, <1>2, <1>5

LEMMA FindMethodIs ==
  ASSUME InSource, Unique, RegistryDone, backend \in {"aot", "jit"},
         NEW c, Declared(c), ~ Endless(c), NEW o, IsInstance(o, c), NEW m
  PROVE  /\ CodeOK(FindMethod(o, m))
         /\ FindMethod(o, m) = NoCode \/ Dispatched(FindMethod(o, m), c, m)
         /\ Named(Decl(c).methods, m) # 0 =>
              /\ Dispatched(FindMethod(o, m), c, m)
              /\ FindMethod(o, m) = Linked(c).methods[Named(Decl(c).methods, m)].code
         /\ FindMethod(o, m) = NoCode \/
              \E k \in ToSet(Lineage(c)) :
                /\ Declared(k) /\ Named(Decl(k).methods, m) # 0
                /\ FindMethod(o, m) = Linked(k).methods[Named(Decl(k).methods, m)].code
<1>. DEFINE own   == Named(o.methods, m)
            above == IF o.parent = None THEN <<>> ELSE Definitions(o.parent)
            I     == {i \in 1 .. Len(above) : Named(above[i].methods, m) # 0}
            n     == IF I # {} THEN Min(I) ELSE 0
            found == above[n].methods[Named(above[n].methods, m)].code
            l     == Lineage(c)
            p     == Decl(c).parent
            J     == {i \in 1 .. Len(l) : Named(Decl(l[i]).methods, m) # 0}
            r     == IF J # {} THEN Min(J) ELSE 0
<1>1. FindMethod(o, m) = IF own # 0 THEN o.methods[own].code ELSE IF n # 0 THEN found ELSE NoCode
  BY DEF FindMethod, SelectInSeq
<1>2. own = Named(Decl(c).methods, m) /\ (own # 0 => o.methods[own].code = Linked(c).methods[own].code)
  BY OwnMethod DEF IsInstance
<1>3. CASE own # 0
  <2>1. /\ Linked(c).methods[own].code = Code(c, own) \/ Replaced(Code(c, own))
        /\ CodeOK(Linked(c).methods[own].code)
    BY <1>2, <1>3, MethodCode
  <2>2. Nearest(c, m) = Code(c, own)
    BY <1>2, <1>3, NearestOwn
  <2>3. FindMethod(o, m) = Linked(c).methods[own].code
    BY <1>1, <1>2, <1>3
  <2>4. c \in ToSet(Lineage(c))
    BY LineageIs DEF ToSet, Chain
  <2> QED
    BY <1>2, <1>3, <2>1, <2>2, <2>3, <2>4 DEF Dispatched
<1>4. CASE own = 0 /\ n = 0
  <2>1. FindMethod(o, m) = NoCode
    BY <1>1, <1>4
  <2> QED
    BY <1>2, <1>4, <2>1 DEF CodeOK, NoCode, Code
<1>5. CASE own = 0 /\ n # 0
  <2>1. n \in I /\ \A i \in I : n <= i
    <3>1. I \in SUBSET Nat /\ I # {}
      BY <1>5
    <3>2. Min(I) \in I /\ \A i \in I : Min(I) <= i
      <4>. HIDE DEF I
      <4> QED
        BY <3>1, MinIs
    <3> QED
      BY <3>1, <3>2
  <2>2. o.parent # None
    BY <2>1
  <2>3. Declared(p) /\ o.parent = p /\ above = Definitions(p)
    BY <2>2, LinkedIs DEF IsInstance
  <2>4. Len(Lineage(p)) = Len(l) - 1 /\ \A i \in 1 .. Len(Lineage(p)) : Lineage(p)[i] = l[i + 1]
    BY <2>3, LineageAbove
  <2>5. Len(above) = Len(Lineage(p)) /\ \A i \in 1 .. Len(above) : above[i] = Linked(Lineage(p)[i])
    BY <2>3, DefinitionsAre
  <2>6. l \in Seq(ClassNames) /\ l[1] = c /\ Len(l) \in Nat
    BY LineageIs, ClassesAre DEF Chain
  <2>. HIDE DEF above, l, p, n
  <2>7. \A i \in 1 .. Len(above) : above[i] = Linked(l[i + 1]) /\ i + 1 \in 1 .. Len(l) /\ Declared(l[i + 1])
    BY <2>4, <2>5, <2>6, DeclaredIs
  <2>8. \A i \in 1 .. Len(above) : Named(above[i].methods, m) = Named(Decl(l[i + 1]).methods, m)
    BY <2>7, LinkedNamed
  <2>9. n \in 1 .. Len(above) /\ n + 1 \in J
    BY <2>1, <2>7, <2>8
  <2>10. ASSUME NEW j \in J
         PROVE  n + 1 <= j
    <3>1. j # 1
      BY <1>2, <1>5, <2>6
    <3>2. j - 1 \in 1 .. Len(above) /\ (j - 1) + 1 = j
      BY <2>4, <2>5, <2>6, <3>1
    <3>3. j - 1 \in I
      BY <2>8, <3>2
    <3> QED
      BY <2>1, <2>9, <3>2, <3>3
  <2>11. r = n + 1
    <3>1. J \in SUBSET Nat /\ J # {} /\ n + 1 \in Nat
      BY <2>9
    <3>2. Min(J) \in J /\ \A j \in J : Min(J) <= j
      <4>. HIDE DEF J
      <4> QED
        BY <3>1, MinIs
    <3>3. n + 1 <= Min(J) /\ Min(J) <= n + 1 /\ Min(J) \in Nat
      <4>. HIDE DEF J
      <4> QED
        BY <2>9, <2>10, <3>1, <3>2
    <3> QED
      BY <3>1, <3>3
  <2>. HIDE DEF r
  <2>. DEFINE k == l[n + 1]
              j == Named(Decl(k).methods, m)
  <2>12. Nearest(c, m) = Code(k, j)
    <3>1. Nearest(c, m) = Code(l[r], Named(Decl(l[r]).methods, m))
      BY DEF Nearest, SelectInSeq, l, r
    <3> QED
      BY <2>11, <3>1
  <2>13. above[n] = Linked(k) /\ Declared(k) /\ Named(above[n].methods, m) = j /\ j # 0
    BY <2>7, <2>8, <2>9
  <2>14. found = Linked(k).methods[j].code
    BY <2>13
  <2>15. k \in ToSet(l)
    BY <2>6, <2>7, <2>9 DEF ToSet
  <2>. HIDE DEF k, j, found
  <2>16. /\ Linked(k).methods[j].code = Code(k, j) \/ Replaced(Code(k, j))
         /\ CodeOK(Linked(k).methods[j].code)
    BY <2>13, MethodCode DEF j
  <2>17. FindMethod(o, m) = Linked(k).methods[j].code
    BY <1>1, <1>5, <2>14
  <2> QED
    BY <1>2, <1>5, <2>12, <2>13, <2>15, <2>16, <2>17 DEF Dispatched, j, l
<1> QED
  BY <1>3, <1>4, <1>5

-----------------------------------------------------------------------------
(* Fields.                                                                 *)

FieldNames == UNION {ToSet(Classes[i].fields) : i \in 1 .. Len(Classes)}

\* What a list of lists holds, the parents' first.
LEMMA ParentsFirstIs ==
  ASSUME NEW T, NEW n \in Nat, NEW f, \A i \in 1 .. n : f[i] \in Seq(T), DOMAIN f = 1 .. n, f = [i \in DOMAIN f |-> f[i]]
  PROVE  /\ FlattenSeq(Reverse(f)) \in Seq(T)
         /\ ToSet(FlattenSeq(Reverse(f))) = UNION {ToSet(f[i]) : i \in 1 .. n}
<1>1. f \in Seq(Seq(T)) /\ Len(f) = n
  <2>1. f \in [1 .. n -> Seq(T)]
    OBVIOUS
  <2> QED
    BY <2>1
<1>. DEFINE r == Reverse(f)
<1>2. r \in Seq(Seq(T)) /\ Len(r) = n /\ ToSet(r) = ToSet(f)
  BY <1>1, ReverseIs
<1>. HIDE DEF r
<1>3. FlattenSeq(r) \in Seq(T) /\ ToSet(FlattenSeq(r)) = UNION {ToSet(r[i]) : i \in DOMAIN r}
  BY <1>2, FlattenIs
<1>4. UNION {ToSet(r[i]) : i \in DOMAIN r} = UNION {ToSet(f[i]) : i \in 1 .. n}
  <2>1. ASSUME NEW i \in DOMAIN r
        PROVE  \E k \in 1 .. n : f[k] = r[i]
    <3>1. r[i] \in ToSet(f)
      <4>1. r[i] \in ToSet(r)
        BY DEF ToSet
      <4> QED
        BY <1>2, <4>1
    <3> QED
      BY <1>1, <3>1 DEF ToSet
  <2>2. ASSUME NEW k \in 1 .. n
        PROVE  \E i \in DOMAIN r : f[k] = r[i]
    BY <1>1, <1>2 DEF ToSet
  <2>3. UNION {ToSet(r[i]) : i \in DOMAIN r} \subseteq UNION {ToSet(f[i]) : i \in 1 .. n}
    BY <2>1
  <2>4. UNION {ToSet(f[i]) : i \in 1 .. n} \subseteq UNION {ToSet(r[i]) : i \in DOMAIN r}
    BY <2>2
  <2> QED
    BY <2>3, <2>4
<1> QED
  BY <1>3, <1>4 DEF r

LEMMA OwnFields ==
  ASSUME InSource, NEW c, Declared(c)
  PROVE  Decl(c).fields \in Seq(FieldNames)
<1>1. PICK i \in 1 .. Len(Classes) : Decl(c) = Classes[i]
  BY DeclIs
<1>2. ToSet(Decl(c).fields) \subseteq FieldNames
  BY <1>1 DEF FieldNames
<1>3. Decl(c).fields \in Seq(ToSet(Decl(c).fields))
  BY DeclIs DEF IsClass, IsList
<1>. DEFINE s == Decl(c).fields
<1>4. \A k \in 1 .. Len(s) : s[k] \in FieldNames
  BY <1>2, <1>3 DEF ToSet
<1>. HIDE DEF s
<1> QED
  BY <1>3, <1>4 DEF s

LEMMA AllFieldsAre ==
  ASSUME InSource, NEW c, Declared(c)
  PROVE  /\ AllFields(c) \in Seq(FieldNames)
         /\ ToSet(AllFields(c)) = UNION {ToSet(Decl(Lineage(c)[i]).fields) : i \in 1 .. Len(Lineage(c))}
<1>. DEFINE l == Lineage(c)
            n == Len(l)
            f == [i \in DOMAIN l |-> Decl(l[i]).fields]
<1>1. l \in Seq(ClassNames) /\ n \in Nat /\ DOMAIN l = 1 .. n
  BY LineageIs DEF Chain
<1>2. \A i \in 1 .. n : f[i] = Decl(l[i]).fields /\ Declared(l[i])
  BY <1>1, DeclaredIs
<1>3. \A i \in 1 .. n : f[i] \in Seq(FieldNames)
  BY <1>2, OwnFields
<1>4. DOMAIN f = 1 .. n /\ f = [i \in DOMAIN f |-> f[i]]
  BY <1>1
<1>5. AllFields(c) = FlattenSeq(Reverse(f))
  BY DEF AllFields, ParentsFirst
<1>. HIDE DEF f, n, l
<1>6. /\ FlattenSeq(Reverse(f)) \in Seq(FieldNames)
      /\ ToSet(FlattenSeq(Reverse(f))) = UNION {ToSet(f[i]) : i \in 1 .. n}
  BY <1>1, <1>3, <1>4, ParentsFirstIs
<1>7. UNION {ToSet(f[i]) : i \in 1 .. n} = UNION {ToSet(Decl(l[i]).fields) : i \in 1 .. n}
  BY <1>2
<1> QED
  BY <1>5, <1>6, <1>7 DEF n, l

\* The line of an ancestor is part of that of the class.
LEMMA LineageOfAncestor ==
  ASSUME InSource, NEW c, Declared(c), ~ Endless(c), NEW i \in 1 .. Len(Lineage(c))
  PROVE  /\ Declared(Lineage(c)[i]) /\ ~ Endless(Lineage(c)[i])
         /\ ToSet(Lineage(Lineage(c)[i])) \subseteq ToSet(Lineage(c))
<1>. DEFINE l == Lineage(c)
            n == Len(l)
            Holds(k) == Declared(l[k]) /\ ~ Endless(l[k]) /\ ToSet(Lineage(l[k])) \subseteq ToSet(l)
            A == {0} \cup {k \in 1 .. n : Holds(k)}
<1>1. l \in Seq(ClassNames) /\ n \in Nat /\ l[1] = c /\ \A k \in 1 .. (n - 1) : l[k + 1] = Decl(l[k]).parent
  BY LineageIs DEF Chain
<1>. HIDE DEF l, n
<1>2. ASSUME NEW k \in 1 .. n, k - 1 \in A
      PROVE  k \in A
  <2>1. Declared(l[k])
    BY <1>1, DeclaredIs DEF n
  <2>2. CASE k = 1
    BY <1>1, <2>1, <2>2 DEF l
  <2>3. CASE k # 1
    <3>1. k - 1 \in 1 .. (n - 1) /\ (k - 1) + 1 = k
      BY <1>1, <2>3
    <3>2. Holds(k - 1)
      BY <1>2, <3>1
    <3>3. l[k] = Decl(l[k - 1]).parent
      BY <1>1, <3>1
    <3>4. /\ ~ Endless(l[k])
          /\ Len(Lineage(l[k])) = Len(Lineage(l[k - 1])) - 1
          /\ \A j \in 1 .. Len(Lineage(l[k])) : Lineage(l[k])[j] = Lineage(l[k - 1])[j + 1]
      BY <2>1, <3>2, <3>3, LineageAbove
    <3>5. /\ Lineage(l[k]) \in Seq(ClassNames) /\ Lineage(l[k - 1]) \in Seq(ClassNames)
          /\ Len(Lineage(l[k])) \in Nat /\ Len(Lineage(l[k - 1])) \in Nat
      BY <2>1, <3>2, LineageIs DEF Chain
    <3>6. \A j \in 1 .. Len(Lineage(l[k])) : j + 1 \in 1 .. Len(Lineage(l[k - 1]))
      BY <3>4, <3>5
    <3>7. ToSet(Lineage(l[k])) \subseteq ToSet(Lineage(l[k - 1]))
      BY <3>4, <3>5, <3>6 DEF ToSet
    <3> QED
      BY <2>1, <3>2, <3>4, <3>7
  <2> QED
    BY <2>2, <2>3
<1>3. 0 .. n \subseteq A
  <2>1. 0 \in A
    OBVIOUS
  <2>. HIDE DEF A
  <2>2. \A k \in 1 .. n : k - 1 \in A => k \in A
    BY <1>2
  <2> QED
    BY <1>1, <2>1, <2>2, UpTo
<1>4. i \in 1 .. n /\ i \in 0 .. n
  BY <1>1 DEF n, l
<1>5. Holds(i)
  BY <1>3, <1>4
<1> QED
  BY <1>5 DEF l

\* The fields of an instance, from definitions with all fields or with their own.
LEMMA InstanceFields ==
  ASSUME InSource, RegistryDone, backend \in {"aot", "jit"}, NEW c, Declared(c), ~ Endless(c),
         NEW fs, fs = ParentsFirst(Definitions(c), LAMBDA k : k.fields)
  PROVE  fs \in Seq(FieldNames) /\ ToSet(fs) = ToSet(AllFields(c))
<1>. DEFINE l == Lineage(c)
            n == Len(l)
            d == Definitions(c)
            f == [i \in DOMAIN d |-> d[i].fields]
<1>1. l \in Seq(ClassNames) /\ n \in Nat /\ l[1] = c /\ 1 \in 1 .. n
  BY LineageIs, ClassesAre DEF Chain
<1>2. DOMAIN d = 1 .. n /\ \A i \in 1 .. n : d[i] = Linked(l[i])
  BY <1>1, DefinitionsAre
<1>3. \A i \in 1 .. n : Declared(l[i]) /\ ToSet(Lineage(l[i])) \subseteq ToSet(l)
  BY LineageOfAncestor
<1>4. \A i \in 1 .. n : f[i] = IF backend = "aot" THEN AllFields(l[i]) ELSE Decl(l[i]).fields
  BY <1>2, LinkedIs
<1>5. \A i \in 1 .. n : f[i] \in Seq(FieldNames)
  BY <1>3, <1>4, OwnFields, AllFieldsAre
<1>6. DOMAIN f = 1 .. n /\ f = [i \in DOMAIN f |-> f[i]]
  BY <1>2
<1>7. fs = FlattenSeq(Reverse(f))
  BY DEF ParentsFirst
<1>. HIDE DEF f, n, l, d
<1>8. fs \in Seq(FieldNames) /\ ToSet(fs) = UNION {ToSet(f[i]) : i \in 1 .. n}
  <2>1. /\ FlattenSeq(Reverse(f)) \in Seq(FieldNames)
        /\ ToSet(FlattenSeq(Reverse(f))) = UNION {ToSet(f[i]) : i \in 1 .. n}
    <3>1. n \in Nat
      BY <1>1
    <3>2. DOMAIN f = 1 .. n
      BY <1>6
    <3>3. f = [i \in DOMAIN f |-> f[i]]
      BY <1>6
    <3> QED
      BY <1>5, <3>1, <3>2, <3>3, ParentsFirstIs
  <2> QED
    BY <1>7, <2>1
<1>. DEFINE all == UNION {ToSet(Decl(l[i]).fields) : i \in 1 .. n}
<1>9. ToSet(AllFields(c)) = all
  BY AllFieldsAre DEF l, n
<1>10. CASE backend = "jit"
  <2>1. \A i \in 1 .. n : f[i] = Decl(l[i]).fields
    BY <1>4, <1>10
  <2>2. UNION {ToSet(f[i]) : i \in 1 .. n} = all
    BY <2>1
  <2> QED
    BY <1>8, <1>9, <2>2
<1>11. CASE backend = "aot"
  <2>1. \A i \in 1 .. n : f[i] = AllFields(l[i])
    BY <1>4, <1>11
  <2>2. ASSUME NEW i \in 1 .. n
        PROVE  ToSet(f[i]) \subseteq all
    <3>. DEFINE k == Lineage(l[i])
    <3>1. ToSet(f[i]) = UNION {ToSet(Decl(k[j]).fields) : j \in 1 .. Len(k)}
      BY <1>3, <2>1, AllFieldsAre
    <3>2. k \in Seq(ClassNames)
      BY <1>3, LineageIs DEF Chain
    <3>3. \A j \in 1 .. Len(k) : k[j] \in ToSet(l)
      <4>1. ToSet(k) \subseteq ToSet(l)
        BY <1>3
      <4>2. \A j \in 1 .. Len(k) : k[j] \in ToSet(k)
        BY <3>2 DEF ToSet
      <4> QED
        BY <4>1, <4>2
    <3>4. \A j \in 1 .. Len(k) : \E q \in 1 .. n : k[j] = l[q]
      BY <1>1, <3>3, SMTT(40) DEF ToSet, n
    <3>. HIDE DEF k
    <3> QED
      BY <3>1, <3>4
  <2>3. ToSet(f[1]) = all
    BY <1>1, <1>9, <2>1
  <2>4. UNION {ToSet(f[i]) : i \in 1 .. n} = all
    <3>. HIDE DEF all
    <3> QED
      BY <1>1, <2>2, <2>3
  <2> QED
    BY <1>8, <1>9, <2>4
<1> QED
  BY <1>10, <1>11

-----------------------------------------------------------------------------
(* Objects and calls.                                                      *)

SlotsOK(ss, fs) ==
  /\ ss \in Seq(ToSet(ss))
  /\ \A i \in 1 .. Len(ss) : ss[i] = [name |-> ss[i].name, value |-> ss[i].value]
  /\ {ss[i].name : i \in 1 .. Len(ss)} = fs

\* An object and what it is meant to remember.
ObjectOK(o, mt) ==
  /\ o = [class |-> o.class, parent |-> o.parent, slots |-> o.slots, methods |-> o.methods]
  /\ Declared(o.class) /\ ~ Endless(o.class) /\ IsInstance(o, o.class)
  /\ SlotsOK(o.slots, DOMAIN mt) /\ DOMAIN mt = ToSet(AllFields(o.class))

ExpectedIn(fr, objs) ==
  IF fr.via = "super" THEN Nearest(Decl(fr.by).parent, fr.asked)
  ELSE Nearest(objs[fr.self].class, fr.asked)

FrameOK(fr, objs) ==
  /\ fr = [code |-> fr.code, self |-> fr.self, pc |-> fr.pc, via |-> fr.via, by |-> fr.by,
           asked |-> fr.asked, locals |-> fr.locals]
  /\ CodeOK(fr.code) /\ fr.self \in DOMAIN objs
  /\ fr.pc \in 1 .. (Len(Body(fr.code)) + 1)
  /\ fr.via # "namesake" => fr.code = ExpectedIn(fr, objs) \/ Replaced(ExpectedIn(fr, objs))

ObjectsOK(objs, mts) ==
  /\ objs \in Seq(ToSet(objs)) /\ mts \in Seq(ToSet(mts))
  /\ Len(objs) <= MaxObjects /\ Len(mts) = Len(objs)
  /\ \A o \in 1 .. Len(objs) : ObjectOK(objs[o], mts[o])

StackOK(frs, objs) ==
  /\ frs \in Seq(ToSet(frs)) /\ Len(frs) <= MaxFrames
  /\ \A n \in 1 .. Len(frs) : FrameOK(frs[n], objs)

LEMMA BodyIs ==
  ASSUME InSource, NEW code, CodeOK(code)
  PROVE  Len(Body(code)) \in Nat /\ Len(Params(code)) \in Nat
         /\ \A i \in 1 .. Len(Body(code)) : Body(code)[i].do = "super" => IsList(Body(code)[i].args)
<1>1. CASE code.class = None
  BY <1>1 DEF Body, Params
<1>2. CASE code.class # None
  <2>. DEFINE d == Decl(code.class)
              b == d.methods[code.index].body
              I == {i \in 1 .. Len(b) : ~ Builds(d, b[i])}
              n == IF I # {} THEN Min(I) ELSE 0
  <2>1. IsClass(d) /\ code.index \in DOMAIN d.methods
    BY <1>2, DeclIs DEF CodeOK
  <2>2. b \in Seq(ToSet(b)) /\ Len(d.methods[code.index].params) \in Nat
    BY <2>1 DEF IsClass, IsList
  <2>3. \A i \in 1 .. Len(b) : b[i].do = "super" => IsList(b[i].args)
    BY <2>1, <2>2 DEF IsClass, ToSet
  <2>4. Body(code) = IF n = 0 THEN b ELSE SubSeq(b, 1, n - 1)
    BY <1>2 DEF Body, SelectInSeq
  <2>5. n \in 0 .. Len(b)
    <3>1. I \in SUBSET (1 .. Len(b)) /\ Len(b) \in Nat
      BY <2>2
    <3>. HIDE DEF I
    <3> QED
      BY <3>1, FirstIs
  <2>. HIDE DEF b, n
  <2>6. CASE n = 0
    BY <1>2, <2>2, <2>3, <2>4, <2>6 DEF Params
  <2>7. CASE n # 0
    <3>1. /\ Len(Body(code)) = n - 1 /\ n - 1 \in Nat
          /\ \A i \in 1 .. (n - 1) : Body(code)[i] = b[i] /\ i \in 1 .. Len(b)
      BY <2>2, <2>4, <2>5, <2>7
    <3> QED
      BY <1>2, <2>2, <2>3, <3>1 DEF Params
  <2> QED
    BY <2>6, <2>7
<1> QED
  BY <1>1, <1>2

\* Setting a field changes the first slot of its name and nothing else.
LEMMA SetFieldIs ==
  ASSUME NEW o, NEW fs, SlotsOK(o.slots, fs), NEW f, NEW x,
         o = [class |-> o.class, parent |-> o.parent, slots |-> o.slots, methods |-> o.methods],
         NEW p, p = SetField(o, f, x)
  PROVE  /\ p = [class |-> o.class, parent |-> o.parent, slots |-> p.slots, methods |-> o.methods]
         /\ SlotsOK(p.slots, fs)
         /\ \A g \in fs : /\ Named(p.slots, g) = Named(o.slots, g)
                          /\ p.slots[Named(p.slots, g)].value =
                               IF g = f THEN x ELSE o.slots[Named(o.slots, g)].value
<1>. DEFINE ss == o.slots
            i  == Named(ss, f)
<1>1. ss \in Seq(ToSet(ss)) /\ Len(ss) \in Nat /\ DOMAIN ss = 1 .. Len(ss)
  BY DEF SlotsOK
<1>2. /\ i \in 0 .. Len(ss) /\ (i = 0 => \A k \in 1 .. Len(ss) : ss[k].name # f)
      /\ (i # 0 => ss[i].name = f)
  BY <1>1, NamedIs
<1>3. p = IF i = 0 THEN o ELSE [o EXCEPT !.slots[i].value = x]
  BY DEF SetField
<1>4. \A g \in fs : Named(ss, g) \in 1 .. Len(ss) /\ ss[Named(ss, g)].name = g
  <2>1. ASSUME NEW g \in fs
        PROVE  Named(ss, g) \in 1 .. Len(ss) /\ ss[Named(ss, g)].name = g
    <3>1. \E k \in 1 .. Len(ss) : ss[k].name = g
      BY DEF SlotsOK
    <3>2. /\ Named(ss, g) \in 0 .. Len(ss) /\ (Named(ss, g) = 0 <=> \A k \in 1 .. Len(ss) : ss[k].name # g)
          /\ (Named(ss, g) # 0 => ss[Named(ss, g)].name = g)
      BY <1>1, NamedIs
    <3>. HIDE DEF ss
    <3> QED
      BY <1>1, <3>1, <3>2
  <2> QED
    BY <2>1
<1>5. CASE i = 0
  <2>1. p = o /\ \A g \in fs : g # f
    BY <1>2, <1>3, <1>4, <1>5
  <2> QED
    BY <2>1
<1>6. CASE i # 0
  <2>. DEFINE ps == [ss EXCEPT ![i].value = x]
  <2>1. p = [o EXCEPT !.slots = ps]
    BY <1>3, <1>6
  <2>2. p = [class |-> o.class, parent |-> o.parent, slots |-> ps, methods |-> o.methods] /\ p.slots = ps
    <3>. HIDE DEF ps
    <3> QED
      BY <2>1
  <2>3. i \in 1 .. Len(ss) /\ ss[i] = [name |-> ss[i].name, value |-> ss[i].value]
    BY <1>1, <1>2, <1>6 DEF SlotsOK
  <2>. HIDE DEF ss, i
  <2>4. DOMAIN ps = 1 .. Len(ss) /\ ps[i] = [ss[i] EXCEPT !.value = x] /\ \A k \in 1 .. Len(ss) : k # i => ps[k] = ss[k]
    BY <1>1, <2>3
  <2>5. ps[i] = [name |-> ss[i].name, value |-> x]
    BY <2>3, <2>4
  <2>6. ps = [k \in 1 .. Len(ss) |-> ps[k]]
    BY <1>1
  <2>. HIDE DEF ps
  <2>7. ps \in Seq(ToSet(ps)) /\ Len(ps) = Len(ss)
    <3>1. \A k \in 1 .. Len(ss) : ps[k] \in ToSet(ps)
      BY <2>4 DEF ToSet
    <3> QED
      BY <1>1, <2>6, <3>1
  <2>8. \A k \in 1 .. Len(ss) : ps[k] = [name |-> ps[k].name, value |-> ps[k].value] /\ ps[k].name = ss[k].name
    BY <2>3, <2>4, <2>5 DEF SlotsOK, ss
  <2>9. SlotsOK(ps, fs)
    <3>1. {ps[k].name : k \in 1 .. Len(ps)} = {ss[k].name : k \in 1 .. Len(ss)}
      BY <2>7, <2>8
    <3> QED
      BY <2>7, <2>8, <3>1 DEF SlotsOK, ss
  <2>10. ASSUME NEW g \in fs
         PROVE  /\ Named(ps, g) = Named(ss, g)
                /\ ps[Named(ps, g)].value = IF g = f THEN x ELSE ss[Named(ss, g)].value
    <3>1. Named(ps, g) = Named(ss, g)
      BY <1>1, <2>7, <2>8, SameNames
    <3>2. CASE g = f
      BY <2>5, <3>1, <3>2 DEF i
    <3>3. CASE g # f
      <4>1. Named(ss, g) # i
        BY <1>2, <1>4, <1>6, <3>3
      <4> QED
        BY <1>4, <2>4, <3>1, <3>3, <4>1
    <3> QED
      BY <3>2, <3>3
  <2> QED
    BY <2>2, <2>9, <2>10 DEF ss
<1> QED
  BY <1>5, <1>6

-----------------------------------------------------------------------------
(* The program does not change while it is compiled and runs, and so what the *)
(* compiler knows of it does not.                                          *)

Static == program' = program /\ backend' = backend

LEMMA ClassesStay ==
  ASSUME Static
  PROVE  /\ Classes' = Classes /\ ClassNames' = ClassNames /\ Unique' = Unique /\ InSource' = InSource
         /\ \A c : Decl(c)' = Decl(c) /\ Declared(c)' = Declared(c)
<1>1. Classes' = Classes
  BY DEF Static, Classes
<1>2. ClassNames' = ClassNames /\ Unique' = Unique /\ InSource' = InSource
  BY <1>1 DEF ClassNames, Unique, InSource, Static
<1>3. \A c : Decl(c)' = Decl(c)
  BY <1>1 DEF Decl, SelectInSeq
<1>4. \A c : Declared(c)' = Declared(c)
  BY <1>1 DEF Declared
<1> QED
  BY <1>1, <1>2, <1>3, <1>4

LEMMA LineagesStay ==
  ASSUME Static
  PROVE  \A c : Lineage(c)' = Lineage(c) /\ Endless(c)' = Endless(c) /\ AllFields(c)' = AllFields(c)
<1>1. Classes' = Classes /\ \A c : Decl(c)' = Decl(c) /\ Declared(c)' = Declared(c)
  BY ClassesStay
<1>2. \A c : Lineage(c)' = Lineage(c)
  BY <1>1 DEF Lineage
<1>3. \A c : Endless(c)' = Endless(c)
  BY <1>1, <1>2 DEF Endless
<1>4. \A c : AllFields(c)' = AllFields(c)
  BY <1>1, <1>2 DEF AllFields, ParentsFirst
<1> QED
  BY <1>2, <1>3, <1>4

LEMMA CodeStays ==
  ASSUME Static
  PROVE  \A k : Body(k)' = Body(k) /\ Params(k)' = Params(k) /\ CodeOK(k)' = CodeOK(k) /\ Replaced(k)' = Replaced(k)
<1>1. Classes' = Classes /\ \A c : Decl(c)' = Decl(c) /\ Declared(c)' = Declared(c)
  BY ClassesStay
<1>2. \A k : Body(k)' = Body(k)
  BY <1>1 DEF Body, SelectInSeq
<1>3. \A k : Params(k)' = Params(k)
  BY <1>1 DEF Params
<1>4. \A k : CodeOK(k)' = CodeOK(k)
  BY <1>1 DEF CodeOK
<1>5. Symbols' = Symbols
  BY DEF Symbols, Static
<1>6. \A s : FunctionNamed(s)' = FunctionNamed(s)
  BY <1>5 DEF FunctionNamed
<1>7. \A k : Replaced(k)' = Replaced(k)
  BY <1>1, <1>6 DEF Replaced, Static
<1> QED
  BY <1>2, <1>3, <1>4, <1>7

LEMMA LinkedStays ==
  ASSUME Static
  PROVE  /\ \A c : Definition(c)' = Definition(c) /\ Linked(c)' = Linked(c) /\ MethodsOf(c)' = MethodsOf(c)
         /\ \A c, m : Nearest(c, m)' = Nearest(c, m)
<1>1. Classes' = Classes /\ \A c : Decl(c)' = Decl(c) /\ Declared(c)' = Declared(c)
  BY ClassesStay
<1>2. \A c : Lineage(c)' = Lineage(c) /\ AllFields(c)' = AllFields(c)
  BY LineagesStay
<1>3. Symbols' = Symbols
  BY DEF Symbols, Static
<1>4. \A s : FunctionNamed(s)' = FunctionNamed(s)
  BY <1>3 DEF FunctionNamed
<1>5. \A c : Definition(c)' = Definition(c)
  <2>1. backend' = backend
    BY DEF Static
  <2>2. \A c : Decl(c)' = Decl(c)
    BY <1>1
  <2>3. \A c : AllFields(c)' = AllFields(c)
    BY <1>2
  <2>4. ASSUME NEW c
        PROVE  Definition(c)' = Definition(c)
    BY <1>4, <2>1, <2>2, <2>3, Zenon DEF Definition
  <2> QED
    BY <2>4
<1>6. \A c : Linked(c)' = Linked(c)
  BY <1>1, <1>5 DEF Linked
<1>7. \A c : MethodsOf(c)' = MethodsOf(c)
  BY <1>6 DEF MethodsOf
<1>8. \A c, m : Nearest(c, m)' = Nearest(c, m)
  BY <1>1, <1>2 DEF Nearest, SelectInSeq
<1> QED
  BY <1>5, <1>6, <1>7, <1>8

LEMMA ShapesStay ==
  ASSUME Static
  PROVE  /\ \A o, mt : ObjectOK(o, mt)' = ObjectOK(o, mt)
         /\ \A fr, objs : FrameOK(fr, objs)' = FrameOK(fr, objs)
         /\ \A objs, mts : ObjectsOK(objs, mts)' = ObjectsOK(objs, mts)
         /\ \A frs, objs : StackOK(frs, objs)' = StackOK(frs, objs)
         /\ registry' = registry => RegistryDone' = RegistryDone
<1>1. Classes' = Classes /\ ClassNames' = ClassNames /\ \A c : Decl(c)' = Decl(c) /\ Declared(c)' = Declared(c)
  BY ClassesStay
<1>2. \A c : Lineage(c)' = Lineage(c) /\ AllFields(c)' = AllFields(c) /\ Endless(c)' = Endless(c)
  BY LineagesStay
<1>3. \A k : Body(k)' = Body(k) /\ CodeOK(k)' = CodeOK(k) /\ Replaced(k)' = Replaced(k)
  BY CodeStays
<1>4. /\ \A c : Linked(c)' = Linked(c) /\ MethodsOf(c)' = MethodsOf(c)
      /\ \A c, m : Nearest(c, m)' = Nearest(c, m)
  BY LinkedStays
<1>5. \A o, c : IsInstance(o, c)' = IsInstance(o, c)
  BY <1>4 DEF IsInstance
<1>6. \A o, mt : ObjectOK(o, mt)' = ObjectOK(o, mt)
  BY <1>1, <1>2, <1>5 DEF ObjectOK
<1>7. \A fr, objs : ExpectedIn(fr, objs)' = ExpectedIn(fr, objs)
  BY <1>1, <1>4 DEF ExpectedIn
<1>8. \A fr, objs : FrameOK(fr, objs)' = FrameOK(fr, objs)
  BY <1>3, <1>7 DEF FrameOK
<1>9. \A objs, mts : ObjectsOK(objs, mts)' = ObjectsOK(objs, mts)
  BY <1>6 DEF ObjectsOK
<1>10. \A frs, objs : StackOK(frs, objs)' = StackOK(frs, objs)
  BY <1>8 DEF StackOK
<1>11. registry' = registry => RegistryDone' = RegistryDone
  BY <1>1, <1>4 DEF RegistryDone
<1> QED
  BY <1>6, <1>8, <1>9, <1>10, <1>11

-----------------------------------------------------------------------------
(* A new object, a call, and a return.                                     *)

LEMMA ListIs ==
  ASSUME NEW s, NEW n \in Nat, s = [k \in 1 .. n |-> s[k]]
  PROVE  s \in Seq(ToSet(s)) /\ Len(s) = n /\ DOMAIN s = 1 .. n
<1>1. DOMAIN s = 1 .. n
  OBVIOUS
<1>2. \A k \in 1 .. n : s[k] \in ToSet(s)
  BY <1>1 DEF ToSet
<1> QED
  BY <1>1, <1>2

LEMMA AppendIs ==
  ASSUME NEW T, NEW s \in Seq(T), NEW x
  PROVE  /\ Append(s, x) \in Seq(ToSet(Append(s, x))) /\ Len(Append(s, x)) = Len(s) + 1
         /\ DOMAIN Append(s, x) = 1 .. (Len(s) + 1)
         /\ \A k \in 1 .. (Len(s) + 1) : Append(s, x)[k] = IF k = Len(s) + 1 THEN x ELSE s[k]
<1>. DEFINE a == Append(s, x)
            n == Len(s) + 1
<1>1. s \in Seq(T \cup {x}) /\ x \in T \cup {x}
  OBVIOUS
<1>2. a \in Seq(T \cup {x}) /\ Len(a) = n /\ \A k \in 1 .. n : a[k] = IF k = n THEN x ELSE s[k]
  BY <1>1, AppendProperties
<1>. HIDE DEF a
<1>3. a = [k \in 1 .. n |-> a[k]] /\ n \in Nat
  BY <1>2
<1>. HIDE DEF n
<1>4. a \in Seq(ToSet(a)) /\ Len(a) = n /\ DOMAIN a = 1 .. n
  BY <1>3, ListIs
<1> QED
  BY <1>2, <1>4 DEF a, n

LEMMA InstanceIs ==
  ASSUME InSource, RegistryDone, backend \in {"aot", "jit"}, NEW c, Declared(c), ~ Endless(c)
  PROVE  ObjectOK(Instance(c), [f \in ToSet(AllFields(c)) |-> <<>>])
<1>. DEFINE fs == ParentsFirst(Definitions(c), LAMBDA k : k.fields)
            ss == [i \in DOMAIN fs |-> [name |-> fs[i], value |-> Nil]]
            o  == Instance(c)
            mt == [f \in ToSet(AllFields(c)) |-> <<>>]
<1>1. registry[Find(c)] = Linked(c)
  BY Registered
<1>2. o = [class |-> c, parent |-> Linked(c).parent, slots |-> ss, methods |-> MethodsOf(c)]
  BY <1>1 DEF Instance, MethodsOf
<1>3. fs \in Seq(FieldNames) /\ ToSet(fs) = ToSet(AllFields(c))
  BY InstanceFields
<1>. HIDE DEF fs
<1>4. ss \in Seq(ToSet(ss)) /\ Len(ss) = Len(fs) /\ DOMAIN fs = 1 .. Len(fs)
  <2>1. DOMAIN fs = 1 .. Len(fs) /\ Len(fs) \in Nat
    BY <1>3
  <2>2. \A i \in 1 .. Len(fs) : ss[i] \in ToSet(ss)
    BY <2>1 DEF ToSet
  <2>3. ss = [i \in 1 .. Len(fs) |-> ss[i]]
    BY <2>1
  <2>. HIDE DEF ss
  <2> QED
    BY <2>1, <2>2, <2>3
<1>5. \A i \in 1 .. Len(ss) : ss[i] = [name |-> ss[i].name, value |-> ss[i].value] /\ ss[i].name = fs[i]
  BY <1>4
<1>6. {ss[i].name : i \in 1 .. Len(ss)} = ToSet(fs)
  <2>. HIDE DEF ss
  <2> QED
    BY <1>4, <1>5 DEF ToSet
<1>. HIDE DEF ss
<1>7. DOMAIN mt = ToSet(AllFields(c))
  OBVIOUS
<1>8. SlotsOK(o.slots, DOMAIN mt)
  BY <1>2, <1>3, <1>4, <1>5, <1>6, <1>7 DEF SlotsOK
<1>9. IsInstance(o, c) /\ o.class = c
  BY <1>2 DEF IsInstance
<1>10. o = [class |-> o.class, parent |-> o.parent, slots |-> o.slots, methods |-> o.methods]
  BY <1>2
<1>. HIDE DEF o, mt
<1>11. ObjectOK(o, mt)
  BY <1>7, <1>8, <1>9, <1>10 DEF ObjectOK
<1> QED
  BY <1>11 DEF o, mt

\* Objects keep their classes, and so calls keep what they should run.
LEMMA FramesKept ==
  ASSUME NEW frs, NEW objs, StackOK(frs, objs), NEW new,
         \A o \in DOMAIN objs : o \in DOMAIN new /\ new[o].class = objs[o].class
  PROVE  StackOK(frs, new)
<1>1. ASSUME NEW n \in 1 .. Len(frs)
      PROVE  FrameOK(frs[n], new)
  <2>1. FrameOK(frs[n], objs)
    BY DEF StackOK
  <2>2. frs[n].self \in DOMAIN new /\ ExpectedIn(frs[n], new) = ExpectedIn(frs[n], objs)
    BY <2>1 DEF FrameOK, ExpectedIn
  <2> QED
    BY <2>1, <2>2 DEF FrameOK
<1> QED
  BY <1>1 DEF StackOK

LEMMA TopReplaced ==
  ASSUME NEW frs, NEW objs, StackOK(frs, objs), frs # <<>>, NEW fr, FrameOK(fr, objs),
         NEW new, new = [frs EXCEPT ![Len(frs)] = fr]
  PROVE  StackOK(new, objs) /\ Len(new) = Len(frs) /\ new # <<>> /\ new[Len(new)] = fr
<1>1. frs \in Seq(ToSet(frs)) /\ Len(frs) \in Nat \ {0} /\ DOMAIN frs = 1 .. Len(frs)
  BY DEF StackOK
<1>2. DOMAIN new = 1 .. Len(frs) /\ \A n \in 1 .. Len(frs) : new[n] = IF n = Len(frs) THEN fr ELSE frs[n]
  BY <1>1
<1>3. new = [n \in 1 .. Len(frs) |-> new[n]]
  BY <1>1
<1>4. new \in Seq(ToSet(new)) /\ Len(new) = Len(frs)
  BY <1>1, <1>3, ListIs
<1> QED
  BY <1>1, <1>2, <1>4 DEF StackOK

LEMMA TopIs ==
  ASSUME NEW objs, StackOK(frames, objs), frames # <<>>
  PROVE  /\ frames \in Seq(ToSet(frames)) /\ Len(frames) \in Nat \ {0}
         /\ Top = frames[Len(frames)] /\ FrameOK(Top, objs)
<1>1. frames \in Seq(ToSet(frames)) /\ Len(frames) \in Nat \ {0} /\ Len(frames) \in 1 .. Len(frames)
  BY DEF StackOK
<1>2. Top = frames[Len(frames)]
  BY DEF Top, Last
<1> QED
  BY <1>1, <1>2 DEF StackOK

LEMMA AdvancedOK ==
  ASSUME InSource, NEW objs, StackOK(frames, objs), frames # <<>>, Top.pc <= Len(Body(Top.code))
  PROVE  /\ StackOK(Advanced, objs) /\ Len(Advanced) = Len(frames) /\ Advanced # <<>>
         /\ FrameOK(Advanced[Len(frames)], objs)
<1>. DEFINE fr == [Top EXCEPT !.pc = @ + 1]
<1>1. Advanced = [frames EXCEPT ![Len(frames)] = fr]
  BY TopIs DEF Advanced
<1>2. FrameOK(Top, objs) /\ Len(Body(Top.code)) \in Nat
  BY TopIs, BodyIs DEF FrameOK
<1>3. fr = [code |-> Top.code, self |-> Top.self, pc |-> Top.pc + 1, via |-> Top.via, by |-> Top.by,
            asked |-> Top.asked, locals |-> Top.locals]
  BY <1>2 DEF FrameOK
<1>4. Top.pc + 1 \in 1 .. (Len(Body(Top.code)) + 1)
  BY <1>2 DEF FrameOK
<1>. HIDE DEF fr
<1>5. ExpectedIn(fr, objs) = ExpectedIn(Top, objs)
  BY <1>3 DEF ExpectedIn
<1>6. FrameOK(fr, objs)
  BY <1>2, <1>3, <1>4, <1>5 DEF FrameOK
<1> QED
  BY <1>1, <1>6, TopReplaced

LEMMA EnterOK ==
  ASSUME InSource, NEW objs, NEW stack, StackOK(stack, objs), StackOK(frames, objs), phase = "run",
         NEW code, CodeOK(code), NEW self, self \in DOMAIN objs, NEW args, Len(args) \in Nat,
         NEW via, NEW by, NEW asked,
         NEW want, want = (IF via = "super" THEN Nearest(Decl(by).parent, asked) ELSE Nearest(objs[self].class, asked)),
         via # "namesake" => code = want \/ Replaced(want),
         Enter(stack, code, self, args, via, by, asked)
  PROVE  StackOK(frames', objs) /\ phase' \in {"run", "undefined", "overflow"}
<1>. DEFINE fr == Frame(code, self, args, via, by, asked)
<1>1. Len(Body(code)) \in Nat /\ Len(Params(code)) \in Nat
  BY BodyIs
<1>2. stack \in Seq(ToSet(stack)) /\ Len(stack) \in Nat /\ Len(stack) <= MaxFrames /\ MaxFrames \in Nat
  BY BoundsAssumption DEF StackOK
<1>3. \/ frames' = stack /\ phase' = phase
      \/ phase' \in {"undefined", "overflow"} /\ frames' = frames
      \/ Len(stack) # MaxFrames /\ frames' = Append(stack, fr) /\ phase' = phase
  BY <1>1 DEF Enter
<1>4. /\ fr = [code |-> fr.code, self |-> fr.self, pc |-> fr.pc, via |-> fr.via, by |-> fr.by,
               asked |-> fr.asked, locals |-> fr.locals]
      /\ fr.code = code /\ fr.self = self /\ fr.pc = 1 /\ fr.via = via /\ fr.by = by /\ fr.asked = asked
  BY DEF Frame
<1>. HIDE DEF fr
<1>5. ExpectedIn(fr, objs) = want
  BY <1>4 DEF ExpectedIn
<1>6. FrameOK(fr, objs)
  BY <1>1, <1>4, <1>5 DEF FrameOK
<1>7. ASSUME Len(stack) # MaxFrames
      PROVE  StackOK(Append(stack, fr), objs)
  <2>. DEFINE s == Append(stack, fr)
  <2>1. /\ s \in Seq(ToSet(s)) /\ Len(s) = Len(stack) + 1
        /\ \A n \in 1 .. (Len(stack) + 1) : s[n] = IF n = Len(stack) + 1 THEN fr ELSE stack[n]
    BY <1>2, AppendIs
  <2>. HIDE DEF s
  <2>2. Len(s) <= MaxFrames
    BY <1>2, <1>7, <2>1
  <2>3. \A n \in 1 .. Len(s) : FrameOK(s[n], objs)
    BY <1>2, <1>6, <2>1 DEF StackOK
  <2>4. StackOK(s, objs)
    BY <2>1, <2>2, <2>3 DEF StackOK
  <2> QED
    BY <2>4 DEF s
<1> QED
  BY <1>3, <1>7

Put(s, o, x) == [s EXCEPT ![o] = x]

LEMMA ObjectSet ==
  ASSUME NEW objs, NEW mts, ObjectsOK(objs, mts), NEW o \in DOMAIN objs, NEW f, NEW x,
         NEW mt, DOMAIN mt = DOMAIN mts[o]
  PROVE  /\ ObjectsOK(Put(objs, o, SetField(objs[o], f, x)), Put(mts, o, mt))
         /\ \A k \in DOMAIN objs : /\ k \in DOMAIN Put(objs, o, SetField(objs[o], f, x))
                                  /\ Put(objs, o, SetField(objs[o], f, x))[k].class = objs[k].class
<1>. DEFINE p    == SetField(objs[o], f, x)
            new  == Put(objs, o, p)
            said == Put(mts, o, mt)
<1>1. /\ objs \in Seq(ToSet(objs)) /\ mts \in Seq(ToSet(mts)) /\ Len(objs) \in Nat /\ Len(mts) = Len(objs)
      /\ DOMAIN objs = 1 .. Len(objs) /\ DOMAIN mts = 1 .. Len(objs)
  BY DEF ObjectsOK
<1>2. ObjectOK(objs[o], mts[o])
  BY <1>1 DEF ObjectsOK
<1>3. /\ p = [class |-> objs[o].class, parent |-> objs[o].parent, slots |-> p.slots, methods |-> objs[o].methods]
      /\ SlotsOK(p.slots, DOMAIN mts[o])
  <2>1. SlotsOK(objs[o].slots, DOMAIN mts[o])
    BY <1>2 DEF ObjectOK
  <2>2. objs[o] = [class |-> objs[o].class, parent |-> objs[o].parent, slots |-> objs[o].slots, methods |-> objs[o].methods]
    BY <1>2 DEF ObjectOK
  <2>3. p = SetField(objs[o], f, x)
    OBVIOUS
  <2>. HIDE DEF p, new, said
  <2> QED
    BY <2>1, <2>2, <2>3, SetFieldIs
<1>. HIDE DEF p
<1>4. p.class = objs[o].class /\ p.parent = objs[o].parent /\ p.methods = objs[o].methods
  BY <1>3
<1>5. ObjectOK(p, mt)
  BY <1>2, <1>3, <1>4 DEF ObjectOK, IsInstance
<1>6. /\ DOMAIN new = 1 .. Len(objs) /\ DOMAIN said = 1 .. Len(objs)
      /\ \A k \in 1 .. Len(objs) : /\ new[k] = IF k = o THEN p ELSE objs[k]
                                   /\ said[k] = IF k = o THEN mt ELSE mts[k]
  BY <1>1 DEF Put
<1>7. new = [k \in 1 .. Len(objs) |-> new[k]] /\ said = [k \in 1 .. Len(objs) |-> said[k]]
  BY <1>1 DEF Put
<1>. HIDE DEF new, said
<1>8. new \in Seq(ToSet(new)) /\ Len(new) = Len(objs)
  <2>1. new = [k \in 1 .. Len(objs) |-> new[k]]
    BY <1>7
  <2> QED
    BY <1>1, <2>1, ListIs
<1>9. said \in Seq(ToSet(said)) /\ Len(said) = Len(objs)
  <2>1. said = [k \in 1 .. Len(objs) |-> said[k]]
    BY <1>7
  <2> QED
    BY <1>1, <2>1, ListIs
<1>10. \A k \in 1 .. Len(objs) : ObjectOK(new[k], said[k])
  BY <1>5, <1>6 DEF ObjectsOK
<1>11. ObjectsOK(new, said)
  BY <1>1, <1>8, <1>9, <1>10 DEF ObjectsOK
<1> QED
  BY <1>1, <1>4, <1>6, <1>11 DEF new, said, p

LEMMA ObjectAdded ==
  ASSUME NEW objs, NEW mts, ObjectsOK(objs, mts), Len(objs) < MaxObjects, NEW p, NEW mt, ObjectOK(p, mt)
  PROVE  /\ ObjectsOK(Append(objs, p), Append(mts, mt))
         /\ Len(objs) + 1 \in DOMAIN Append(objs, p) /\ Append(objs, p)[Len(objs) + 1] = p
<1>. DEFINE n    == Len(objs) + 1
            new  == Append(objs, p)
            said == Append(mts, mt)
<1>1. /\ objs \in Seq(ToSet(objs)) /\ mts \in Seq(ToSet(mts)) /\ Len(objs) \in Nat /\ Len(mts) = Len(objs)
      /\ DOMAIN objs = 1 .. Len(objs) /\ MaxObjects \in Nat
  BY BoundsAssumption DEF ObjectsOK
<1>2. /\ new \in Seq(ToSet(new)) /\ Len(new) = n /\ DOMAIN new = 1 .. n
      /\ \A k \in 1 .. n : new[k] = IF k = n THEN p ELSE objs[k]
  BY <1>1, AppendIs
<1>3. /\ said \in Seq(ToSet(said)) /\ Len(said) = n /\ DOMAIN said = 1 .. n
      /\ \A k \in 1 .. n : said[k] = IF k = n THEN mt ELSE mts[k]
  BY <1>1, AppendIs
<1>. HIDE DEF new, said
<1>4. n <= MaxObjects /\ n \in 1 .. n
  BY <1>1
<1>5. \A k \in 1 .. n : k # n => k \in 1 .. Len(objs)
  BY <1>1
<1>6. \A k \in 1 .. n : ObjectOK(new[k], said[k])
  BY <1>2, <1>3, <1>5 DEF ObjectsOK
<1>7. ObjectsOK(new, said)
  BY <1>2, <1>3, <1>4, <1>6 DEF ObjectsOK
<1> QED
  BY <1>2, <1>4, <1>7 DEF new, said

-----------------------------------------------------------------------------
(* The inductive invariant.                                                *)

Running == {"run", "undefined", "overflow", "aborted", "done"}

\* Definitions come in the order of cg->classes, the newest class first.
ClassList == [i \in 1 .. Len(Classes) |-> Classes[i].name]
InOrder   == [i \in 1 .. Len(registry) |-> registry[i].name] \o todo = Reverse(ClassList)

IInv ==
  /\ InSource /\ backend \in {"aot", "jit"}
  /\ phase \in Running \cup {"analyse", "register", "refused", "hung"}
  /\ registry \in Seq(ToSet(registry)) /\ todo \in Seq(ToSet(todo))
  /\ phase \in {"analyse", "refused"} => todo = <<>> /\ registry = <<>>
  /\ phase \notin Running => objects = <<>> /\ frames = <<>> /\ meant = <<>>
  /\ phase \in Running \cup {"register", "hung"} => Unique /\ InOrder
  /\ phase \in {"register", "hung"} => \A i \in 1 .. Len(registry) : registry[i] = Definition(registry[i].name)
  /\ phase \in Running => todo = <<>> /\ \A i \in 1 .. Len(registry) : registry[i] = Linked(registry[i].name)
  /\ ObjectsOK(objects, meant) /\ StackOK(frames, objects)

\* The names in the registry are those of the classes.
LEMMA OrderIs ==
  ASSUME InSource, InOrder, registry \in Seq(ToSet(registry)), todo = <<>>
  PROVE  /\ Len(registry) = Len(Classes) /\ {registry[i].name : i \in 1 .. Len(registry)} = ClassNames
<1>. DEFINE names == [i \in 1 .. Len(registry) |-> registry[i].name]
<1>1. Len(registry) \in Nat /\ Len(Classes) \in Nat
  BY ClassesAre
<1>2. names \in Seq(ToSet(names)) /\ Len(names) = Len(registry)
  BY <1>1, ListIs
<1>3. ClassList \in Seq(ToSet(ClassList)) /\ Len(ClassList) = Len(Classes)
  BY <1>1, ListIs DEF ClassList
<1>4. names = Reverse(ClassList)
  <2>1. names \o <<>> = names
    <3>. HIDE DEF names
    <3> QED
      BY <1>2
  <2> QED
    BY <2>1 DEF InOrder
<1>5. Len(names) = Len(ClassList) /\ ToSet(names) = ToSet(ClassList)
  <2>. HIDE DEF names
  <2> QED
    BY <1>3, <1>4, ReverseIs
<1>6. ToSet(names) = {registry[i].name : i \in 1 .. Len(registry)}
  BY DEF ToSet
<1>7. ToSet(ClassList) = ClassNames
  BY DEF ToSet, ClassList, ClassNames
<1> QED
  BY <1>2, <1>3, <1>5, <1>6, <1>7

LEMMA RegistryIs ==
  ASSUME IInv, phase \in Running
  PROVE  RegistryDone /\ Unique /\ InSource /\ backend \in {"aot", "jit"}
BY OrderIs DEF IInv, RegistryDone

\* While the program runs, only objects and calls change.
LEMMA RunKeeps ==
  ASSUME IInv, phase \in Running, UNCHANGED compiled, phase' \in Running,
         ObjectsOK(objects', meant'), StackOK(frames', objects')
  PROVE  IInv'
<1>1. Static /\ registry' = registry /\ todo' = todo
  BY DEF compiled, Static
<1>2. InSource' = InSource /\ Unique' = Unique /\ Classes' = Classes
  BY <1>1, ClassesStay
<1>3. InOrder' = InOrder
  BY <1>1, <1>2 DEF InOrder, ClassList
<1>4. \A c : Linked(c)' = Linked(c)
  BY <1>1, LinkedStays
<1>5. ObjectsOK(objects, meant)' /\ StackOK(frames, objects)'
  BY <1>1, ShapesStay
<1>6. phase' \notin {"analyse", "refused", "register", "hung"}
  BY DEF Running
<1>7. phase \notin {"analyse", "refused", "register", "hung"}
  BY DEF Running
<1>8. backend' = backend
  BY <1>1 DEF Static
<1> QED
  BY <1>1, <1>2, <1>3, <1>4, <1>5, <1>6, <1>7, <1>8 DEF IInv

\* While nothing runs, there are no objects.
LEMMA NothingRuns ==
  ASSUME objects' = <<>>, frames' = <<>>, meant' = <<>>
  PROVE  ObjectsOK(objects, meant)' /\ StackOK(frames, objects)'
<1>1. Len(<<>>) = 0 /\ <<>> \in Seq(ToSet(<<>>)) /\ 1 .. 0 = {}
  OBVIOUS
<1> QED
  BY <1>1, BoundsAssumption DEF ObjectsOK, StackOK

LEMMA InitHolds == Init => IInv
<1>1. SUFFICES ASSUME Init PROVE IInv
  OBVIOUS
<1>2. <<>> \in Seq(ToSet(<<>>)) /\ Len(<<>>) = 0 /\ 1 .. 0 = {}
  OBVIOUS
<1>3. ObjectsOK(objects, meant) /\ StackOK(frames, objects)
  BY <1>1, <1>2, BoundsAssumption DEF Init, ObjectsOK, StackOK
<1> QED
  BY <1>1, <1>2, <1>3 DEF Init, IInv, InSource, Running

LEMMA CompileKeeps ==
  ASSUME IInv, Compile
  PROVE  IInv'
<1>1. Static /\ registry' = <<>> /\ phase' = "register" /\ InSource /\ backend' \in {"aot", "jit"}
  BY DEF Compile, Static, IInv
<1>2. objects' = <<>> /\ frames' = <<>> /\ meant' = <<>>
  BY DEF Compile, IInv, Running
<1>3. InSource' = InSource /\ Unique' = Unique /\ Classes' = Classes
  BY <1>1, ClassesStay
<1>4. Classes \in Seq(ToSet(program)) /\ Len(Classes) \in Nat /\ DOMAIN Classes = 1 .. Len(Classes)
  BY <1>1, ClassesAre
<1>5. todo' = Reverse(ClassList)
  BY <1>4 DEF Compile, ClassList
<1>6. Unique
  BY <1>4 DEF Compile, Compiles, IsInjective, Unique
<1>7. ClassList \in Seq(ToSet(ClassList))
  BY <1>4, ListIs DEF ClassList
<1>8. Reverse(ClassList) \in Seq(ToSet(Reverse(ClassList)))
  <2>1. Reverse(ClassList) \in Seq(ToSet(ClassList)) /\ ToSet(Reverse(ClassList)) = ToSet(ClassList)
    BY <1>7, ReverseIs
  <2> QED
    BY <2>1
<1>9. ClassList' = ClassList
  BY <1>3 DEF ClassList
<1>10. InOrder'
  <2>1. [i \in 1 .. Len(<<>>) |-> <<>>[i].name] = <<>>
    OBVIOUS
  <2>2. <<>> \o Reverse(ClassList) = Reverse(ClassList)
    BY <1>8
  <2> QED
    BY <1>1, <1>5, <1>9, <2>1, <2>2 DEF InOrder
<1>11. <<>> \in Seq(ToSet(<<>>)) /\ 1 .. Len(<<>>) = {}
  OBVIOUS
<1>12. ObjectsOK(objects, meant)' /\ StackOK(frames, objects)'
  BY <1>2, NothingRuns
<1> QED
  BY <1>1, <1>2, <1>3, <1>5, <1>6, <1>8, <1>10, <1>11, <1>12 DEF IInv, Running

LEMMA MovedIs ==
  ASSUME NEW T, NEW a \in Seq(T), NEW t \in Seq(T), t # <<>>
  PROVE  /\ Append(a, Head(t)) \o Tail(t) = a \o t
         /\ Tail(t) \in Seq(ToSet(Tail(t)))
<1>. DEFINE u == Tail(t)
            x == Head(t)
            b == Append(a, x)
<1>1. u \in Seq(T) /\ x \in T /\ Len(u) = Len(t) - 1 /\ x = t[1] /\ \A i \in 1 .. Len(u) : u[i] = t[i + 1]
  BY HeadTailProperties
<1>2. b = a \o <<x>>
  BY <1>1, AppendIsConcat
<1>. HIDE DEF u, x, b
<1>3. <<x>> \in Seq(T) /\ Len(<<x>>) = 1 /\ Len(t) \in Nat \ {0}
  BY <1>1
<1>4. <<x>> \o u = t
  <2>1. /\ <<x>> \o u \in Seq(T) /\ Len(<<x>> \o u) = 1 + Len(u)
        /\ \A i \in 1 .. (1 + Len(u)) : (<<x>> \o u)[i] = IF i <= 1 THEN <<x>>[i] ELSE u[i - 1]
    BY <1>1, <1>3, ConcatProperties
  <2>2. Len(<<x>> \o u) = Len(t) /\ \A i \in 1 .. Len(t) : (<<x>> \o u)[i] = t[i]
    BY <1>1, <1>3, <2>1
  <2> QED
    BY <2>1, <2>2, SeqEqual
<1>5. b \o u = a \o t
  <2>1. (a \o <<x>>) \o u = a \o (<<x>> \o u)
    <3>. DEFINE w == <<x>>
    <3>1. w \in Seq(T)
      BY <1>3
    <3>. HIDE DEF w
    <3>2. (a \o w) \o u = a \o (w \o u)
      BY <1>1, <3>1, ConcatAssociative, SMTT(40)
    <3> QED
      BY <3>2 DEF w
  <2> QED
    BY <1>2, <1>4, <2>1
<1>6. u \in Seq(ToSet(u))
  <2>1. Len(u) \in Nat /\ u = [i \in 1 .. Len(u) |-> u[i]]
    BY <1>1
  <2> QED
    BY <2>1, ListIs
<1> QED
  BY <1>5, <1>6 DEF b, u, x

LEMMA RegisterKeeps ==
  ASSUME IInv, Register
  PROVE  IInv'
<1>. DEFINE d == Definition(Head(todo))
<1>1. /\ Static /\ phase' = "register" /\ phase = "register" /\ InSource /\ backend' \in {"aot", "jit"}
      /\ registry' = Append(registry, d) /\ todo' = Tail(todo) /\ todo # <<>>
  BY DEF Register, Static, IInv
<1>2. objects' = <<>> /\ frames' = <<>> /\ meant' = <<>>
  BY <1>1 DEF Register, IInv, Running
<1>3. InSource' = InSource /\ Unique' = Unique /\ Classes' = Classes
  BY <1>1, ClassesStay
<1>4. ClassList' = ClassList
  BY <1>3 DEF ClassList
<1>5. registry \in Seq(ToSet(registry)) /\ todo \in Seq(ToSet(todo)) /\ Unique /\ InOrder
  BY <1>1 DEF IInv
<1>6. d.name = Head(todo)
  BY DefinitionIs
<1>7. \A c : Definition(c)' = Definition(c)
  BY <1>1, LinkedStays
<1>. HIDE DEF d
<1>8. /\ Append(registry, d) \in Seq(ToSet(Append(registry, d))) /\ Len(Append(registry, d)) = Len(registry) + 1
      /\ \A k \in 1 .. (Len(registry) + 1) : Append(registry, d)[k] = IF k = Len(registry) + 1 THEN d ELSE registry[k]
  BY <1>5, AppendIs
<1>9. Tail(todo) \in Seq(ToSet(Tail(todo)))
  <2>1. todo \in Seq(ToSet(todo)) /\ todo # <<>>
    BY <1>1, <1>5
  <2> QED
    BY <2>1, MovedIs
<1>10. InOrder'
  <2>. DEFINE names == [i \in 1 .. Len(registry) |-> registry[i].name]
              after == [i \in 1 .. Len(registry') |-> registry'[i].name]
  <2>1. Len(registry) \in Nat
    BY <1>5
  <2>2. names \in Seq(ToSet(names)) /\ Len(names) = Len(registry)
    BY <2>1, ListIs
  <2>3. after = Append(names, Head(todo))
    <3>1. \A i \in 1 .. (Len(registry) + 1) : after[i] = IF i = Len(registry) + 1 THEN Head(todo) ELSE names[i]
      BY <1>1, <1>6, <1>8, <2>1
    <3>2. /\ Append(names, Head(todo)) \in Seq(ToSet(Append(names, Head(todo))))
          /\ Len(Append(names, Head(todo))) = Len(names) + 1
          /\ \A k \in 1 .. (Len(names) + 1) :
               Append(names, Head(todo))[k] = IF k = Len(names) + 1 THEN Head(todo) ELSE names[k]
      <4>. HIDE DEF names
      <4> QED
        BY <2>2, AppendIs
    <3>3. after = [i \in 1 .. (Len(registry) + 1) |-> after[i]]
      BY <1>1, <1>8, <2>1
    <3>. HIDE DEF names, after
    <3>4. after \in Seq(ToSet(after)) /\ Len(after) = Len(registry) + 1
      <4>. DEFINE n == Len(registry) + 1
      <4>1. n \in Nat /\ after = [i \in 1 .. n |-> after[i]]
        BY <2>1, <3>3
      <4>. HIDE DEF n
      <4>2. after \in Seq(ToSet(after)) /\ Len(after) = n
        BY <4>1, ListIs
      <4> QED
        BY <4>2 DEF n
    <3> QED
      BY <2>1, <2>2, <3>1, <3>2, <3>4
  <2>4. Append(names, Head(todo)) \o Tail(todo) = names \o todo
    <3>. HIDE DEF names
    <3>. DEFINE S == ToSet(names) \cup ToSet(todo)
    <3>1. names \in Seq(S) /\ todo \in Seq(S)
      BY <1>5, <2>2
    <3>. HIDE DEF S
    <3> QED
      BY <1>1, <3>1, MovedIs
  <2>5. names \o todo = Reverse(ClassList)
    BY <1>5 DEF InOrder
  <2> QED
    BY <1>1, <1>4, <2>3, <2>4, <2>5 DEF InOrder
<1>11. (\A i \in 1 .. Len(registry) : registry[i] = Definition(registry[i].name))'
  <2>1. \A i \in 1 .. Len(registry) : registry[i] = Definition(registry[i].name)
    BY <1>1 DEF IInv
  <2>2. d = Definition(d.name)
    BY <1>6 DEF d
  <2>3. \A i \in 1 .. (Len(registry) + 1) : i # Len(registry) + 1 => i \in 1 .. Len(registry)
    BY <1>5
  <2>4. \A i \in 1 .. (Len(registry) + 1) : registry'[i] = Definition(registry'[i].name)
    BY <1>1, <1>8, <2>1, <2>2, <2>3
  <2> QED
    <3>1. Len(registry') = Len(registry) + 1
      BY <1>1, <1>8
    <3> QED
      BY <1>7, <2>4, <3>1
<1>12. ObjectsOK(objects, meant)' /\ StackOK(frames, objects)'
  BY <1>2, NothingRuns
<1> QED
  BY <1>1, <1>2, <1>3, <1>5, <1>8, <1>9, <1>10, <1>11, <1>12 DEF IInv, Running

LEMMA ResolveKeeps ==
  ASSUME IInv, Resolve
  PROVE  IInv'
<1>1. /\ Static /\ phase' = "run" /\ phase = "register" /\ InSource /\ backend' \in {"aot", "jit"}
      /\ todo' = <<>> /\ todo = <<>>
  BY DEF Resolve, Static, IInv
<1>2. objects' = <<>> /\ frames' = <<>> /\ meant' = <<>>
  BY <1>1 DEF Resolve, IInv, Running
<1>3. InSource' = InSource /\ Unique' = Unique /\ Classes' = Classes
  BY <1>1, ClassesStay
<1>4. ClassList' = ClassList
  BY <1>3 DEF ClassList
<1>5. /\ registry \in Seq(ToSet(registry)) /\ Unique /\ InOrder /\ Len(registry) \in Nat
      /\ DOMAIN registry = 1 .. Len(registry)
  BY <1>1 DEF IInv
<1>6. \A c : Find(c) # 0 <=> Declared(c)
  <2>1. {registry[i].name : i \in 1 .. Len(registry)} = ClassNames
    BY <1>1, <1>5, OrderIs
  <2>2. ASSUME NEW c
        PROVE  Find(c) # 0 <=> Declared(c)
    <3>1. Declared(c) <=> \E i \in 1 .. Len(registry) : registry[i].name = c
      BY <1>1, <2>1, DeclaredIs
    <3>2. Find(c) = 0 <=> \A i \in 1 .. Len(registry) : registry[i].name # c
      BY <1>5, NamedIs DEF Find
    <3> QED
      BY <3>1, <3>2
  <2> QED
    BY <2>2
<1>7. \A c : Linked(c)' = Linked(c)
  BY <1>1, LinkedStays
<1>8. registry' = [i \in 1 .. Len(registry) |-> registry'[i]]
  BY <1>5 DEF Resolve
<1>9. registry' \in Seq(ToSet(registry')) /\ Len(registry') = Len(registry)
  BY <1>5, <1>8, ListIs
<1>10. \A i \in 1 .. Len(registry) : registry'[i] = Linked(registry[i].name) /\ registry'[i].name = registry[i].name
  <2>1. ASSUME NEW i \in 1 .. Len(registry)
        PROVE  registry'[i] = Linked(registry[i].name) /\ registry'[i].name = registry[i].name
    <3>. DEFINE c == registry[i].name
                p == Decl(c).parent
    <3>1. registry[i] = Definition(c)
      BY <1>1 DEF IInv
    <3>2. Definition(c).parent = None /\ Definition(c).parentName = p
      BY DefinitionIs
    <3>3. registry'[i] = [registry[i] EXCEPT !.parent = IF registry[i].parent = None /\ Find(registry[i].parentName) # 0
                                                        THEN registry[i].parentName ELSE registry[i].parent]
      BY <1>5 DEF Resolve
    <3>. HIDE DEF c, p
    <3>4. registry'[i] = [Definition(c) EXCEPT !.parent = IF Declared(p) THEN p ELSE None]
      BY <1>6, <3>1, <3>2, <3>3
    <3>5. registry'[i] = Linked(c)
      BY <3>4 DEF Linked, p
    <3>6. Linked(c).name = c
      BY LinkedIs
    <3> QED
      BY <3>5, <3>6 DEF c
  <2> QED
    BY <2>1
<1>11. InOrder'
  <2>1. [i \in 1 .. Len(registry') |-> registry'[i].name] = [i \in 1 .. Len(registry) |-> registry[i].name]
    BY <1>9, <1>10
  <2> QED
    BY <1>1, <1>4, <1>5, <2>1 DEF InOrder
<1>12. (\A i \in 1 .. Len(registry) : registry[i] = Linked(registry[i].name))'
  BY <1>7, <1>9, <1>10
<1>13. ObjectsOK(objects, meant)' /\ StackOK(frames, objects)'
  BY <1>2, NothingRuns
<1>14. <<>> \in Seq(ToSet(<<>>))
  OBVIOUS
<1> QED
  BY <1>1, <1>2, <1>3, <1>5, <1>9, <1>11, <1>12, <1>13, <1>14 DEF IInv, Running

LEMMA StopKeeps ==
  ASSUME IInv, Refuse \/ Hang
  PROVE  IInv'
<1>1. UNCHANGED <<compiled, objects, frames, meant>>
  BY DEF Refuse, Hang
<1>2. Static /\ registry' = registry /\ todo' = todo /\ backend' = backend
  BY <1>1 DEF compiled, Static
<1>3. \/ phase = "analyse" /\ phase' = "refused"
      \/ phase = "register" /\ phase' = "hung"
  BY DEF Refuse, Hang
<1>4. InSource' = InSource /\ Unique' = Unique /\ Classes' = Classes
  BY <1>2, ClassesStay
<1>5. InOrder' = InOrder
  BY <1>2, <1>4 DEF InOrder, ClassList
<1>6. \A c : Definition(c)' = Definition(c)
  BY <1>2, LinkedStays
<1>7. objects' = <<>> /\ frames' = <<>> /\ meant' = <<>>
  BY <1>1, <1>3 DEF IInv, Running
<1>8. ObjectsOK(objects, meant)' /\ StackOK(frames, objects)'
  BY <1>7, NothingRuns
<1> QED
  BY <1>2, <1>3, <1>4, <1>5, <1>6, <1>7, <1>8 DEF IInv, Running

-----------------------------------------------------------------------------
(* The steps of a running program.                                         *)

LEMMA RunIs ==
  ASSUME IInv, phase = "run"
  PROVE  /\ InSource /\ Unique /\ RegistryDone /\ backend \in {"aot", "jit"} /\ phase \in Running
         /\ ObjectsOK(objects, meant) /\ StackOK(frames, objects)
BY RegistryIs DEF IInv, Running

LEMMA NoCalls ==
  ASSUME NEW objs
  PROVE  StackOK(<<>>, objs)
<1>1. Len(<<>>) = 0 /\ <<>> \in Seq(ToSet(<<>>)) /\ 1 .. 0 = {}
  OBVIOUS
<1> QED
  BY <1>1, BoundsAssumption DEF StackOK

LEMMA ConstructKeeps ==
  ASSUME IInv, NEW c, Declared(c), Construct(c)
  PROVE  IInv'
<1>. DEFINE code == FindMethod(Instance(c), InitName)
            args == SubSeq(Arguments, 1, Len(Params(Code(c, 1))))
            mt   == [f \in ToSet(AllFields(c)) |-> <<>>]
            self == Len(objects) + 1
<1>1. /\ phase = "run" /\ frames = <<>> /\ ~ Endless(c) /\ Len(objects) < MaxObjects
      /\ Enter(<<>>, code, self, args, "new", c, InitName)
      /\ objects' = Append(objects, Instance(c)) /\ meant' = Append(meant, mt) /\ UNCHANGED compiled
  BY DEF Construct, Idle
<1>2. /\ InSource /\ Unique /\ RegistryDone /\ backend \in {"aot", "jit"} /\ phase \in Running
      /\ ObjectsOK(objects, meant)
  BY <1>1, RunIs
<1>3. ObjectOK(Instance(c), mt) /\ Instance(c).class = c
  <2>1. Instance(c).class = c
    BY DEF Instance
  <2> QED
    BY <1>1, <1>2, <2>1, InstanceIs
<1>4. CodeOK(code) /\ Dispatched(code, c, InitName)
  <2>1. IsInstance(Instance(c), c)
    BY <1>3 DEF ObjectOK
  <2>2. Named(Decl(c).methods, InitName) # 0
    BY <1>2, MethodsAre
  <2> QED
    BY <1>1, <1>2, <2>1, <2>2, FindMethodIs
<1>5. Len(args) \in Nat
  <2>1. CodeOK(Code(c, 1))
    <3>1. 1 \in DOMAIN Decl(c).methods
      BY <1>2, MethodsAre
    <3> QED
      BY <3>1 DEF CodeOK, Code
  <2>2. Len(Params(Code(c, 1))) \in Nat
    BY <1>2, <2>1, BodyIs
  <2> QED
    BY <2>2
<1>. HIDE DEF code, args, mt
<1>6. /\ ObjectsOK(objects', meant') /\ self \in DOMAIN objects' /\ objects'[self] = Instance(c)
  <2>. DEFINE p == Instance(c)
  <2>. HIDE DEF p
  <2>1. ObjectOK(p, mt)
    BY <1>3 DEF p
  <2>2. objects' = Append(objects, p)
    BY <1>1 DEF p
  <2>3. meant' = Append(meant, mt) /\ Len(objects) < MaxObjects
    BY <1>1
  <2>4. ObjectsOK(objects', meant') /\ Len(objects) + 1 \in DOMAIN objects' /\ objects'[Len(objects) + 1] = p
    BY <1>2, <2>1, <2>2, <2>3, ObjectAdded
  <2> QED
    BY <2>4 DEF p
<1>. HIDE DEF self
<1>7. StackOK(<<>>, objects') /\ StackOK(frames, objects')
  BY <1>1, NoCalls
<1>8. StackOK(frames', objects') /\ phase' \in {"run", "undefined", "overflow"}
  <2>. DEFINE want == Nearest(objects'[self].class, InitName)
  <2>1. code = want \/ Replaced(want)
    BY <1>3, <1>4, <1>6 DEF Dispatched
  <2>2. want = IF "new" = "super" THEN Nearest(Decl(c).parent, InitName) ELSE Nearest(objects'[self].class, InitName)
    OBVIOUS
  <2>. HIDE DEF want
  <2> QED
    BY <1>1, <1>2, <1>4, <1>5, <1>6, <1>7, <2>1, <2>2, EnterOK
<1> QED
  BY <1>1, <1>2, <1>6, <1>8, RunKeeps DEF Running

\* A function that is found by the name of a variable is a method of a class.
LEMMA NamesakeOK ==
  ASSUME InSource, Unique, NEW v, NEW m
  PROVE  CodeOK(Namesake(v, m))
<1>. DEFINE cs == Reverse(Classes)
            I  == {i \in 1 .. Len(cs) : Within(cs[i].name, v)}
            n  == IF I # {} THEN Min(I) ELSE 0
            j  == Named(cs[n].methods, m)
<1>1. Namesake(v, m) = IF n = 0 \/ m = InitName THEN NoCode
                       ELSE IF j = 0 THEN NoCode ELSE Code(cs[n].name, j)
  BY DEF Namesake, NamesakeIn, SelectInSeq
<1>2. CASE Namesake(v, m) = NoCode
  BY <1>2 DEF CodeOK, NoCode, Code
<1>3. CASE Namesake(v, m) # NoCode
  <2>1. n # 0 /\ j # 0 /\ Namesake(v, m) = Code(cs[n].name, j)
    BY <1>1, <1>3
  <2>2. Classes \in Seq(ToSet(program)) /\ Len(Classes) \in Nat
    BY ClassesAre
  <2>3. Len(cs) = Len(Classes) /\ \A i \in 1 .. Len(Classes) : cs[i] = Classes[Len(Classes) - i + 1]
    BY <2>2, ReverseIs
  <2>. HIDE DEF cs
  <2>4. I \in SUBSET (1 .. Len(cs)) /\ Len(cs) \in Nat
    BY <2>2, <2>3
  <2>5. n \in 1 .. Len(cs)
    <3>1. n \in 0 .. Len(cs)
      <4>. HIDE DEF I
      <4> QED
        BY <2>4, FirstIs
    <3>. HIDE DEF n
    <3> QED
      BY <2>1, <2>4, <3>1
  <2>. HIDE DEF n
  <2>6. PICK k \in 1 .. Len(Classes) : cs[n] = Classes[k]
    BY <2>2, <2>3, <2>5
  <2>. DEFINE c == cs[n].name
  <2>7. Declared(c) /\ Decl(c) = cs[n]
    <3>1. Declared(c)
      BY <2>2, <2>6 DEF Declared
    <3>2. PICK i \in 1 .. Len(Classes) : Decl(c) = Classes[i] /\ Classes[i].name = c
      BY <3>1, DeclIs
    <3>3. i = k
      BY <2>6, <3>2 DEF Unique
    <3> QED
      BY <2>6, <3>1, <3>2, <3>3
  <2>8. j \in DOMAIN Decl(c).methods
    <3>1. Decl(c).methods \in Seq(ToSet(Decl(c).methods)) /\ DOMAIN Decl(c).methods = 1 .. Len(Decl(c).methods)
      BY <2>7, MethodsAre
    <3>2. j = Named(Decl(c).methods, m)
      BY <2>7
    <3>3. Named(Decl(c).methods, m) \in 0 .. Len(Decl(c).methods) /\ Len(Decl(c).methods) \in Nat
      BY <3>1, NamedIs
    <3>. HIDE DEF j
    <3> QED
      BY <2>1, <3>1, <3>2, <3>3
  <2> QED
    BY <2>1, <2>7, <2>8 DEF CodeOK, Code
<1> QED
  BY <1>2, <1>3

LEMMA CallKeeps ==
  ASSUME IInv, NEW o \in DOMAIN objects, NEW v, NEW m, Call(o, v, m)
  PROVE  IInv'
<1>. DEFINE direct == Namesake(v, m)
            found  == FindMethod(objects[o], m)
            c      == objects[o].class
<1>1. /\ phase = "run" /\ frames = <<>> /\ UNCHANGED <<compiled, objects, meant>>
      /\ \/ Enter(<<>>, direct, o, <<>>, "namesake", c, m)
         \/ phase' = "aborted" /\ UNCHANGED frames
         \/ found # NoCode /\ Enter(<<>>, found, o, <<>>, "call", c, m)
  BY DEF Call, Idle
<1>2. /\ InSource /\ Unique /\ RegistryDone /\ backend \in {"aot", "jit"} /\ phase \in Running
      /\ ObjectsOK(objects, meant) /\ StackOK(frames, objects)
  BY <1>1, RunIs
<1>3. Declared(c) /\ ~ Endless(c) /\ IsInstance(objects[o], c)
  <2>1. o \in 1 .. Len(objects)
    BY <1>2 DEF ObjectsOK
  <2>2. ObjectOK(objects[o], meant[o])
    BY <1>2, <2>1 DEF ObjectsOK
  <2> QED
    BY <2>2 DEF ObjectOK
<1>4. CodeOK(found) /\ (found # NoCode => Dispatched(found, c, m))
  BY <1>2, <1>3, FindMethodIs
<1>5. CodeOK(direct)
  BY <1>2, NamesakeOK
<1>6. StackOK(<<>>, objects)
  BY NoCalls
<1>. HIDE DEF direct, found
<1>7. StackOK(frames', objects) /\ phase' \in {"run", "undefined", "overflow", "aborted"}
  <2>1. CASE Enter(<<>>, direct, o, <<>>, "namesake", c, m)
    <3>. DEFINE want == IF "namesake" = "super" THEN Nearest(Decl(c).parent, m) ELSE Nearest(objects[o].class, m)
    <3>. HIDE DEF want
    <3>1. want = IF "namesake" = "super" THEN Nearest(Decl(c).parent, m) ELSE Nearest(objects[o].class, m)
      BY DEF want
    <3>2. Len(<<>>) \in Nat
      OBVIOUS
    <3> QED
      BY <1>1, <1>2, <1>5, <1>6, <2>1, <3>1, <3>2, EnterOK
  <2>2. CASE found # NoCode /\ Enter(<<>>, found, o, <<>>, "call", c, m)
    <3>. DEFINE want == Nearest(objects[o].class, m)
    <3>1. found = want \/ Replaced(want)
      BY <1>4, <2>2 DEF Dispatched
    <3>2. want = IF "call" = "super" THEN Nearest(Decl(c).parent, m) ELSE Nearest(objects[o].class, m)
      OBVIOUS
    <3>3. Len(<<>>) \in Nat
      OBVIOUS
    <3>. HIDE DEF want
    <3> QED
      BY <1>1, <1>2, <1>4, <1>6, <2>2, <3>1, <3>2, <3>3, EnterOK
  <2>3. CASE phase' = "aborted" /\ UNCHANGED frames
    BY <1>2, <2>3
  <2> QED
    BY <1>1, <2>1, <2>2, <2>3
<1>8. objects' = objects /\ meant' = meant /\ UNCHANGED compiled
  BY <1>1
<1> QED
  BY <1>2, <1>7, <1>8, RunKeeps DEF Running

\* An assignment to a field of an object, and what it means.
Assigned(objs, o, f, x) == Put(objs, o, SetField(objs[o], f, x))
Said(mts, o, f, x) == IF f \in DOMAIN mts[o] THEN [mts EXCEPT ![o][f] = x] ELSE mts

LEMMA SaidIs ==
  ASSUME NEW mts, mts \in Seq(ToSet(mts)), NEW o \in DOMAIN mts, NEW f, NEW x
  PROVE  \E mt : DOMAIN mt = DOMAIN mts[o] /\ Said(mts, o, f, x) = Put(mts, o, mt)
<1>1. CASE f \in DOMAIN mts[o]
  <2>. DEFINE mt == [mts[o] EXCEPT ![f] = x]
  <2>1. Said(mts, o, f, x) = Put(mts, o, mt) /\ DOMAIN mt = DOMAIN mts[o]
    BY <1>1 DEF Said, Put
  <2> QED
    BY <2>1
<1>2. CASE f \notin DOMAIN mts[o]
  <2>1. Said(mts, o, f, x) = Put(mts, o, mts[o])
    BY <1>2 DEF Said, Put
  <2> QED
    BY <2>1
<1> QED
  BY <1>1, <1>2

LEMMA AssignedOK ==
  ASSUME NEW objs, NEW mts, ObjectsOK(objs, mts), NEW o \in DOMAIN objs, NEW f, NEW x, NEW g, NEW y
  PROVE  /\ ObjectsOK(Assigned(objs, o, f, x), Said(mts, o, g, y))
         /\ \A k \in DOMAIN objs : /\ k \in DOMAIN Assigned(objs, o, f, x)
                                  /\ Assigned(objs, o, f, x)[k].class = objs[k].class
<1>1. o \in DOMAIN mts /\ mts \in Seq(ToSet(mts))
  BY DEF ObjectsOK
<1>2. PICK mt : DOMAIN mt = DOMAIN mts[o] /\ Said(mts, o, g, y) = Put(mts, o, mt)
  BY <1>1, SaidIs
<1> QED
  BY <1>2, ObjectSet DEF Assigned

\* An assignment that only means something: to a bare name.
LEMMA SaidOK ==
  ASSUME NEW objs, NEW mts, ObjectsOK(objs, mts), NEW o \in DOMAIN objs, NEW f, NEW x
  PROVE  ObjectsOK(objs, Said(mts, o, f, x))
<1>1. /\ mts \in Seq(ToSet(mts)) /\ Len(mts) = Len(objs) /\ Len(mts) \in Nat /\ o \in DOMAIN mts
      /\ DOMAIN mts = 1 .. Len(objs)
  BY DEF ObjectsOK
<1>2. PICK mt : DOMAIN mt = DOMAIN mts[o] /\ Said(mts, o, f, x) = Put(mts, o, mt)
  BY <1>1, SaidIs
<1>. DEFINE said == Said(mts, o, f, x)
<1>3. said = [mts EXCEPT ![o] = mt]
  BY <1>2 DEF Put
<1>. HIDE DEF said
<1>4. said = [k \in 1 .. Len(mts) |-> said[k]] /\ \A k \in 1 .. Len(mts) : said[k] = IF k = o THEN mt ELSE mts[k]
  BY <1>1, <1>3
<1>5. said \in Seq(ToSet(said)) /\ Len(said) = Len(mts)
  BY <1>1, <1>4, ListIs
<1>6. \A k \in 1 .. Len(objs) : ObjectOK(objs[k], said[k])
  <2>1. ASSUME NEW k \in 1 .. Len(objs)
        PROVE  ObjectOK(objs[k], said[k])
    <3>1. ObjectOK(objs[k], mts[k])
      BY DEF ObjectsOK
    <3>2. DOMAIN said[k] = DOMAIN mts[k]
      BY <1>1, <1>2, <1>4
    <3> QED
      BY <3>1, <3>2 DEF ObjectOK
  <2> QED
    BY <2>1
<1>7. ObjectsOK(objs, said)
  BY <1>1, <1>5, <1>6 DEF ObjectsOK
<1> QED
  BY <1>7 DEF said

LEMMA WriteKeeps ==
  ASSUME IInv, NEW o \in DOMAIN objects, NEW f, Write(o, f)
  PROVE  IInv'
<1>1. /\ phase = "run" /\ frames = <<>> /\ UNCHANGED <<compiled, phase, frames>>
      /\ objects' = [objects EXCEPT ![o] = SetField(objects[o], f, Plain)]
      /\ meant' = IF f \in DOMAIN meant[o] THEN [meant EXCEPT ![o][f] = <<Plain>>] ELSE meant
  BY DEF Write, Idle, MeanField
<1>2. phase \in Running /\ ObjectsOK(objects, meant)
  BY <1>1, RunIs
<1>3. objects' = Assigned(objects, o, f, Plain) /\ meant' = Said(meant, o, f, <<Plain>>)
  BY <1>1 DEF Assigned, Said, Put
<1>4. ObjectsOK(objects', meant')
  BY <1>2, <1>3, AssignedOK
<1>5. StackOK(frames', objects')
  BY <1>1, NoCalls
<1> QED
  BY <1>1, <1>2, <1>4, <1>5, RunKeeps

\* A statement of the body that is on top.
LEMMA AtIs ==
  ASSUME IInv, phase = "run", frames # <<>>, Top.pc <= Len(Body(Top.code))
  PROVE  /\ InSource /\ Unique /\ RegistryDone /\ backend \in {"aot", "jit"} /\ phase \in Running
         /\ ObjectsOK(objects, meant) /\ StackOK(frames, objects) /\ FrameOK(Top, objects)
         /\ StackOK(Advanced, objects) /\ Len(Advanced) = Len(frames) /\ Advanced # <<>>
         /\ FrameOK(Advanced[Len(frames)], objects)
         /\ Top.self \in DOMAIN objects /\ Top.self \in DOMAIN meant /\ ObjectOK(Self, meant[Top.self])
         /\ (Stmt.do = "super" => IsList(Stmt.args))
<1>1. /\ InSource /\ Unique /\ RegistryDone /\ backend \in {"aot", "jit"} /\ phase \in Running
      /\ ObjectsOK(objects, meant) /\ StackOK(frames, objects)
  BY RunIs
<1>2. FrameOK(Top, objects)
  BY <1>1, TopIs
<1>3. /\ StackOK(Advanced, objects) /\ Len(Advanced) = Len(frames) /\ Advanced # <<>>
      /\ FrameOK(Advanced[Len(frames)], objects)
  BY <1>1, AdvancedOK
<1>4. Top.self \in DOMAIN objects /\ Top.self \in DOMAIN meant /\ ObjectOK(Self, meant[Top.self])
  BY <1>1, <1>2 DEF FrameOK, ObjectsOK, Self
<1>5. Stmt.do = "super" => IsList(Stmt.args)
  <2>1. Top.pc \in 1 .. Len(Body(Top.code)) /\ CodeOK(Top.code)
    <3>1. Top.pc \in 1 .. (Len(Body(Top.code)) + 1) /\ CodeOK(Top.code)
      BY <1>2 DEF FrameOK
    <3>2. Len(Body(Top.code)) \in Nat
      BY <1>1, <3>1, BodyIs
    <3> QED
      BY <3>1, <3>2
  <2> QED
    BY <1>1, <2>1, BodyIs DEF Stmt
<1> QED
  BY <1>1, <1>2, <1>3, <1>4, <1>5

LEMMA SetKeeps ==
  ASSUME IInv, Set
  PROVE  IInv'
<1>. DEFINE o == Top.self
            x == Value(Stmt.from)
            y == <<MeantValue(Stmt.from)>>
<1>1. /\ phase = "run" /\ frames # <<>> /\ Top.pc <= Len(Body(Top.code))
      /\ objects' = [objects EXCEPT ![o] = SetField(objects[o], Stmt.field, x)]
      /\ meant' = IF Stmt.field \in DOMAIN meant[o] THEN [meant EXCEPT ![o][Stmt.field] = y] ELSE meant
      /\ frames' = Advanced /\ UNCHANGED compiled /\ phase' = phase
  BY DEF Set, At, MeanField
<1>2. /\ phase \in Running /\ ObjectsOK(objects, meant) /\ StackOK(Advanced, objects) /\ o \in DOMAIN objects
  BY <1>1, AtIs
<1>. HIDE DEF o, x, y
<1>3. objects' = Assigned(objects, o, Stmt.field, x) /\ meant' = Said(meant, o, Stmt.field, y)
  BY <1>1 DEF Assigned, Said, Put
<1>4. ObjectsOK(objects', meant') /\ \A k \in DOMAIN objects : k \in DOMAIN objects' /\ objects'[k].class = objects[k].class
  BY <1>2, <1>3, AssignedOK
<1>5. StackOK(frames', objects')
  <2>1. StackOK(Advanced, objects')
    BY <1>2, <1>4, FramesKept
  <2> QED
    BY <1>1, <2>1
<1> QED
  BY <1>1, <1>2, <1>4, <1>5, RunKeeps

LEMMA BareKeeps ==
  ASSUME IInv, Bare
  PROVE  IInv'
<1>. DEFINE o  == Top.self
            y  == <<MeantValue(Stmt.from)>>
            n  == Len(frames)
            ls == (Stmt.field :> Value(Stmt.from)) @@ Advanced[n].locals
            fr == [Advanced[n] EXCEPT !.locals = ls]
<1>1. /\ phase = "run" /\ frames # <<>> /\ Top.pc <= Len(Body(Top.code))
      /\ frames' = [Advanced EXCEPT ![n] = fr]
      /\ \/ meant' = meant
         \/ meant' = IF Stmt.field \in DOMAIN meant[o] THEN [meant EXCEPT ![o][Stmt.field] = y] ELSE meant
      /\ UNCHANGED <<compiled, phase, objects>>
  <2>1. /\ phase = "run" /\ frames # <<>> /\ Top.pc <= Len(Body(Top.code))
        /\ UNCHANGED <<compiled, phase, objects>>
    BY DEF Bare, At
  <2>2. /\ \/ meant' = meant
           \/ meant' = IF Stmt.field \in DOMAIN meant[o] THEN [meant EXCEPT ![o][Stmt.field] = y] ELSE meant
    BY DEF Bare, MeanField
  <2>3. frames' = [Advanced EXCEPT ![n] = fr]
    BY DEF Bare
  <2> QED
    BY <2>1, <2>2, <2>3
<1>2. /\ phase \in Running /\ ObjectsOK(objects, meant) /\ StackOK(Advanced, objects) /\ o \in DOMAIN objects
      /\ Len(Advanced) = n /\ Advanced # <<>> /\ FrameOK(Advanced[n], objects)
  BY <1>1, AtIs
<1>. HIDE DEF o, y, n, ls
<1>3. FrameOK(fr, objects)
  <2>. DEFINE top == Advanced[n]
  <2>1. FrameOK(top, objects)
    BY <1>2
  <2>. HIDE DEF top
  <2>2. fr = [code |-> top.code, self |-> top.self, pc |-> top.pc, via |-> top.via, by |-> top.by,
              asked |-> top.asked, locals |-> ls]
    BY <2>1 DEF FrameOK, top
  <2>. HIDE DEF fr
  <2>3. ExpectedIn(fr, objects) = ExpectedIn(top, objects)
    BY <2>2 DEF ExpectedIn
  <2> QED
    BY <2>1, <2>2, <2>3 DEF FrameOK
<1>. HIDE DEF fr
<1>4. StackOK(frames', objects')
  BY <1>1, <1>2, <1>3, TopReplaced
<1>5. ObjectsOK(objects', meant')
  <2>1. CASE meant' = meant
    BY <1>1, <1>2, <2>1
  <2>2. CASE meant' = Said(meant, o, Stmt.field, y)
    BY <1>1, <1>2, <2>2, SaidOK
  <2> QED
    BY <1>1, <2>1, <2>2 DEF Said
<1> QED
  BY <1>1, <1>2, <1>4, <1>5, RunKeeps

LEMMA SuperInitKeeps ==
  ASSUME IInv, SuperInit
  PROVE  IInv'
<1>. DEFINE k    == Top.code.class
            p    == Decl(k).parent
            n    == Find(p)
            code == registry[n].methods[1].code
            args == [i \in DOMAIN Stmt.args |-> Value(Stmt.args[i])]
            self == Top.self
<1>1. /\ phase = "run" /\ frames # <<>> /\ Top.pc <= Len(Body(Top.code)) /\ Stmt.do = "super"
      /\ UNCHANGED <<compiled, objects, meant>>
      /\ \/ phase' = "aborted" /\ UNCHANGED frames
         \/ n # 0 /\ Enter(Advanced, code, self, args, "super", k, InitName)
  BY DEF SuperInit, At, Stmt
<1>2. /\ InSource /\ Unique /\ RegistryDone /\ backend \in {"aot", "jit"} /\ phase \in Running
      /\ ObjectsOK(objects, meant) /\ StackOK(frames, objects) /\ StackOK(Advanced, objects)
      /\ self \in DOMAIN objects /\ IsList(Stmt.args)
  BY <1>1, AtIs
<1>3. Len(args) \in Nat
  <2>1. DOMAIN Stmt.args = 1 .. Len(Stmt.args) /\ Len(Stmt.args) \in Nat
    BY <1>2 DEF IsList
  <2>2. args = [i \in 1 .. Len(Stmt.args) |-> args[i]]
    BY <2>1
  <2>. HIDE DEF args
  <2>3. Len(args) = Len(Stmt.args)
    BY <2>1, <2>2, ListIs
  <2> QED
    BY <2>1, <2>3
<1>4. ASSUME n # 0
      PROVE  CodeOK(code) /\ (code = Nearest(p, InitName) \/ Replaced(Nearest(p, InitName)))
  <2>1. Declared(p) /\ registry[n] = Linked(p)
    BY <1>2, <1>4, Registered
  <2>2. 1 = Named(Decl(p).methods, InitName)
    BY <1>2, <2>1, MethodsAre
  <2>. HIDE DEF p
  <2>3. /\ Linked(p).methods[1].code = Code(p, 1) \/ Replaced(Code(p, 1))
        /\ CodeOK(Linked(p).methods[1].code)
    BY <1>2, <2>1, <2>2, MethodCode
  <2>4. Nearest(p, InitName) = Code(p, 1)
    BY <1>2, <2>1, <2>2, NearestOwn
  <2> QED
    BY <2>1, <2>3, <2>4
<1>. HIDE DEF args, code, n
<1>5. StackOK(frames', objects) /\ phase' \in {"run", "undefined", "overflow", "aborted"}
  <2>1. CASE n # 0 /\ Enter(Advanced, code, self, args, "super", k, InitName)
    <3>. DEFINE want == Nearest(p, InitName)
    <3>1. want = IF "super" = "super" THEN Nearest(Decl(k).parent, InitName) ELSE Nearest(objects[self].class, InitName)
      OBVIOUS
    <3>2. CodeOK(code) /\ (code = want \/ Replaced(want))
      BY <1>4, <2>1
    <3>. HIDE DEF want, self, k
    <3> QED
      BY <1>1, <1>2, <1>3, <2>1, <3>1, <3>2, EnterOK
  <2>2. CASE phase' = "aborted" /\ UNCHANGED frames
    BY <1>2, <2>2
  <2> QED
    BY <1>1, <2>1, <2>2
<1>6. objects' = objects /\ meant' = meant /\ UNCHANGED compiled
  BY <1>1
<1> QED
  BY <1>2, <1>5, <1>6, RunKeeps DEF Running

LEMMA SelfCallKeeps ==
  ASSUME IInv, SelfCall
  PROVE  IInv'
<1>. DEFINE self  == Top.self
            m     == Stmt.method
            c     == objects[self].class
            k     == Top.code.class
            found == FindMethod(Self, m)
            via   == Stmt.do
<1>1. /\ phase = "run" /\ frames # <<>> /\ Top.pc <= Len(Body(Top.code)) /\ via # "super"
      /\ UNCHANGED <<compiled, objects, meant>>
      /\ \/ phase' = "aborted" /\ UNCHANGED frames
         \/ found # NoCode /\ Enter(Advanced, found, self, <<>>, via, k, m)
  BY DEF SelfCall, At, Stmt
<1>2. /\ InSource /\ Unique /\ RegistryDone /\ backend \in {"aot", "jit"} /\ phase \in Running
      /\ ObjectsOK(objects, meant) /\ StackOK(frames, objects) /\ StackOK(Advanced, objects)
      /\ self \in DOMAIN objects /\ ObjectOK(Self, meant[self])
  BY <1>1, AtIs
<1>3. Declared(c) /\ ~ Endless(c) /\ IsInstance(Self, c)
  BY <1>2 DEF ObjectOK, Self
<1>4. CodeOK(found) /\ (found # NoCode => Dispatched(found, c, m))
  BY <1>2, <1>3, FindMethodIs
<1>. HIDE DEF found, via, m, k, self
<1>5. StackOK(frames', objects) /\ phase' \in {"run", "undefined", "overflow", "aborted"}
  <2>1. CASE found # NoCode /\ Enter(Advanced, found, self, <<>>, via, k, m)
    <3>. DEFINE want == Nearest(objects[self].class, m)
    <3>1. want = IF via = "super" THEN Nearest(Decl(k).parent, m) ELSE Nearest(objects[self].class, m)
      BY <1>1
    <3>2. found = want \/ Replaced(want)
      BY <1>4, <2>1 DEF Dispatched
    <3>3. Len(<<>>) \in Nat
      OBVIOUS
    <3>. HIDE DEF want
    <3> QED
      BY <1>1, <1>2, <1>4, <2>1, <3>1, <3>2, <3>3, EnterOK
  <2>2. CASE phase' = "aborted" /\ UNCHANGED frames
    BY <1>2, <2>2
  <2> QED
    BY <1>1, <2>1, <2>2
<1>6. objects' = objects /\ meant' = meant /\ UNCHANGED compiled
  BY <1>1
<1> QED
  BY <1>2, <1>5, <1>6, RunKeeps DEF Running

LEMMA ReturnKeeps ==
  ASSUME IInv, Return
  PROVE  IInv'
<1>1. /\ phase = "run" /\ frames # <<>> /\ frames' = SubSeq(frames, 1, Len(frames) - 1)
      /\ UNCHANGED <<compiled, phase, objects, meant>>
  BY DEF Return, Front
<1>2. phase \in Running /\ ObjectsOK(objects, meant) /\ StackOK(frames, objects)
  BY <1>1, RunIs
<1>3. frames \in Seq(ToSet(frames)) /\ Len(frames) \in Nat \ {0} /\ Len(frames) <= MaxFrames /\ MaxFrames \in Nat
  BY <1>1, <1>2, BoundsAssumption DEF StackOK
<1>. DEFINE left == SubSeq(frames, 1, Len(frames) - 1)
            n    == Len(frames) - 1
<1>4. Len(left) = n /\ n \in Nat /\ left \in Seq(ToSet(frames)) /\ \A i \in 1 .. n : left[i] = frames[i] /\ i \in 1 .. Len(frames)
  <2>1. n \in Nat /\ n \in (1 - 1) .. Len(frames) /\ 1 \in 1 .. (Len(frames) + 1) /\ \A i \in 1 .. n : i \in 1 .. Len(frames)
    BY <1>3
  <2>. HIDE DEF n
  <2>2. /\ SubSeq(frames, 1, n) \in Seq(ToSet(frames)) /\ Len(SubSeq(frames, 1, n)) = n
        /\ \A i \in 1 .. n : SubSeq(frames, 1, n)[i] = frames[i]
    BY <1>3, <2>1
  <2> QED
    BY <2>1, <2>2 DEF n
<1>. HIDE DEF left
<1>5. left \in Seq(ToSet(left)) /\ n <= MaxFrames
  <2>1. left = [i \in 1 .. n |-> left[i]]
    BY <1>4
  <2>. HIDE DEF n
  <2>2. left \in Seq(ToSet(left))
    BY <1>4, <2>1, ListIs
  <2> QED
    BY <1>3, <2>2 DEF n
<1>6. StackOK(frames', objects')
  <2>1. StackOK(left, objects)
    BY <1>2, <1>4, <1>5 DEF StackOK
  <2> QED
    BY <1>1, <2>1 DEF left
<1>7. ObjectsOK(objects', meant')
  BY <1>1, <1>2
<1> QED
  BY <1>1, <1>2, <1>6, <1>7, RunKeeps

LEMMA EndKeeps ==
  ASSUME IInv, Unreadable \/ Exit
  PROVE  IInv'
<1>1. /\ phase = "run" /\ phase' \in {"aborted", "done"} /\ UNCHANGED <<compiled, objects, frames, meant>>
  BY DEF Unreadable, Exit, Idle
<1>2. phase \in Running /\ ObjectsOK(objects, meant) /\ StackOK(frames, objects)
  BY <1>1, RunIs
<1>3. ObjectsOK(objects', meant') /\ StackOK(frames', objects') /\ UNCHANGED compiled
  BY <1>1, <1>2
<1> QED
  BY <1>1, <1>2, <1>3, RunKeeps DEF Running

LEMMA StutterKeeps ==
  ASSUME IInv, UNCHANGED vars
  PROVE  IInv'
<1>1. UNCHANGED <<compiled, phase, objects, frames, meant>>
  BY DEF vars, compiled
<1>2. CASE phase \in Running
  <2>1. ObjectsOK(objects', meant') /\ StackOK(frames', objects') /\ UNCHANGED compiled /\ phase' \in Running
    BY <1>1, <1>2 DEF IInv
  <2> QED
    BY <1>2, <2>1, RunKeeps
<1>3. CASE phase \notin Running
  <2>1. Static /\ registry' = registry /\ todo' = todo /\ backend' = backend /\ phase' = phase
    BY <1>1 DEF compiled, Static
  <2>2. InSource' = InSource /\ Unique' = Unique /\ Classes' = Classes
    BY <2>1, ClassesStay
  <2>3. InOrder' = InOrder
    BY <2>1, <2>2 DEF InOrder, ClassList
  <2>4. \A c : Definition(c)' = Definition(c)
    BY <2>1, LinkedStays
  <2>5. objects' = <<>> /\ frames' = <<>> /\ meant' = <<>>
    BY <1>1, <1>3 DEF IInv
  <2>6. ObjectsOK(objects, meant)' /\ StackOK(frames, objects)'
    BY <2>5, NothingRuns
  <2>7. /\ phase' \in Running \cup {"analyse", "register", "refused", "hung"} /\ phase' \notin Running
        /\ InSource /\ backend \in {"aot", "jit"} /\ registry \in Seq(ToSet(registry)) /\ todo \in Seq(ToSet(todo))
        /\ phase \in {"analyse", "refused"} => todo = <<>> /\ registry = <<>>
        /\ phase \in Running \cup {"register", "hung"} => Unique /\ InOrder
        /\ phase \in {"register", "hung"} => \A i \in 1 .. Len(registry) : registry[i] = Definition(registry[i].name)
    BY <1>3, <2>1 DEF IInv
  <2> QED
    BY <2>1, <2>2, <2>3, <2>4, <2>5, <2>6, <2>7 DEF IInv
<1> QED
  BY <1>2, <1>3

-----------------------------------------------------------------------------
(* The theorems.                                                           *)

LEMMA StepKeeps == IInv /\ [Next]_vars => IInv'
<1>1. SUFFICES ASSUME IInv, [Next]_vars PROVE IInv'
  OBVIOUS
<1>2. CASE Compile
  BY <1>1, <1>2, CompileKeeps
<1>3. CASE Refuse \/ Hang
  BY <1>1, <1>3, StopKeeps
<1>4. CASE Register
  BY <1>1, <1>4, RegisterKeeps
<1>5. CASE Resolve
  BY <1>1, <1>5, ResolveKeeps
<1>6. CASE \E i \in DOMAIN Classes : Construct(Classes[i].name)
  <2>1. PICK i \in DOMAIN Classes : Construct(Classes[i].name)
    BY <1>6
  <2>2. Declared(Classes[i].name)
    BY DEF Declared
  <2> QED
    BY <1>1, <2>1, <2>2, ConstructKeeps
<1>7. CASE \E o \in DOMAIN objects, v \in Variables, m \in Calls : Call(o, v, m)
  BY <1>1, <1>7, CallKeeps
<1>8. CASE \E o \in DOMAIN objects : \E f \in UNION {DOMAIN meant[k] : k \in DOMAIN meant} : Write(o, f)
  BY <1>1, <1>8, WriteKeeps
<1>9. CASE Set
  BY <1>1, <1>9, SetKeeps
<1>10. CASE Bare
  BY <1>1, <1>10, BareKeeps
<1>11. CASE SuperInit
  BY <1>1, <1>11, SuperInitKeeps
<1>12. CASE SelfCall
  BY <1>1, <1>12, SelfCallKeeps
<1>13. CASE Unreadable \/ Exit
  BY <1>1, <1>13, EndKeeps
<1>14. CASE Return
  BY <1>1, <1>14, ReturnKeeps
<1>15. CASE Ended \/ UNCHANGED vars
  BY <1>1, <1>15, StutterKeeps DEF Ended
<1> QED
  BY <1>1, <1>2, <1>3, <1>4, <1>5, <1>6, <1>7, <1>8, <1>9, <1>10, <1>11, <1>12, <1>13, <1>14, <1>15 DEF Next

\* The registry, the objects and the calls are as IInv says, in every state: the registry
\* is filled with the definitions of the classes in order, then each has its parent, and
\* from then on each object has the methods of its class and each call is dispatched.
THEOREM Inductive == Spec => []IInv
<1>1. Init => IInv
  BY InitHolds
<1>2. IInv /\ [Next]_vars => IInv'
  BY StepKeeps
<1> QED
  BY <1>1, <1>2, PTL DEF Spec

LEMMA TypeIs ==
  ASSUME IInv
  PROVE  TypeOK
<1>1. InSource /\ backend \in {"aot", "jit"} /\ ObjectsOK(objects, meant) /\ StackOK(frames, objects)
  BY DEF IInv
<1>2. phase \in {"analyse", "register", "run", "refused", "hung", "undefined", "overflow", "aborted", "done"}
  BY DEF IInv, Running
<1>3. registry \in Seq(ToSet(registry)) /\ DOMAIN registry = 1 .. Len(registry)
  BY DEF IInv
<1>4. phase # "refused" => [i \in DOMAIN registry |-> registry[i].name] \o todo
                              \in {<<>>, Reverse([i \in DOMAIN Classes |-> Classes[i].name])}
  <2>1. CASE phase = "analyse"
    <3>1. registry = <<>> /\ todo = <<>>
      BY <2>1 DEF IInv
    <3>2. [i \in DOMAIN registry |-> registry[i].name] = <<>>
      BY <3>1
    <3> QED
      BY <3>1, <3>2
  <2>2. CASE phase \in Running \cup {"register", "hung"}
    <3>1. DOMAIN Classes = 1 .. Len(Classes)
      BY <1>1, ClassesAre
    <3>2. InOrder
      BY <2>2 DEF IInv
    <3> QED
      BY <1>3, <3>1, <3>2 DEF InOrder, ClassList
  <2> QED
    BY <1>2, <2>1, <2>2 DEF Running
<1>5. ASSUME NEW i \in DOMAIN registry
      PROVE  registry[i].parent \in {None, registry[i].parentName}
  <2>. DEFINE c == registry[i].name
  <2>1. registry[i] = Definition(c) \/ registry[i] = Linked(c)
    <3>1. phase \notin {"analyse", "refused"}
      <4>1. ASSUME phase \in {"analyse", "refused"} PROVE FALSE
        <5>1. registry = <<>>
          BY <4>1 DEF IInv
        <5> QED
          BY <5>1
      <4> QED
        BY <4>1
    <3>2. phase \in {"register", "hung"} \/ phase \in Running
      BY <3>1 DEF IInv
    <3> QED
      BY <1>3, <3>2 DEF IInv
  <2>2. Definition(c).parent = None
    BY DefinitionIs
  <2>3. Linked(c).parent \in {None, Linked(c).parentName}
    BY LinkedIs
  <2>. HIDE DEF c
  <2> QED
    BY <2>1, <2>2, <2>3
<1>6. Len(objects) <= MaxObjects /\ DOMAIN meant = DOMAIN objects
  BY <1>1 DEF ObjectsOK
<1>7. ASSUME NEW o \in DOMAIN objects
      PROVE  {objects[o].slots[i].name : i \in DOMAIN objects[o].slots} = DOMAIN meant[o]
  <2>1. o \in 1 .. Len(objects)
    BY <1>1 DEF ObjectsOK
  <2>2. SlotsOK(objects[o].slots, DOMAIN meant[o])
    BY <1>1, <2>1 DEF ObjectsOK, ObjectOK
  <2>3. DOMAIN objects[o].slots = 1 .. Len(objects[o].slots)
    BY <2>2 DEF SlotsOK
  <2> QED
    BY <2>2, <2>3 DEF SlotsOK
<1>8. Len(frames) <= MaxFrames
  BY <1>1 DEF StackOK
<1>9. ASSUME NEW n \in DOMAIN frames
      PROVE  frames[n].self \in DOMAIN objects /\ frames[n].pc \in 1 .. Len(Body(frames[n].code)) + 1
  <2>1. FrameOK(frames[n], objects)
    BY <1>1 DEF StackOK
  <2> QED
    BY <2>1 DEF FrameOK
<1> QED
  BY <1>1, <1>2, <1>4, <1>5, <1>6, <1>7, <1>8, <1>9 DEF TypeOK

\* Definitions are registered from the newest class to the oldest and then linked, objects
\* have a slot for every field of their class and its ancestors, calls are on objects and
\* in their bodies.
THEOREM TypeCorrect == Spec => []TypeOK
<1>1. IInv => TypeOK
  BY TypeIs
<1> QED
  BY <1>1, Inductive, PTL

LEMMA DispatchIs ==
  ASSUME IInv
  PROVE  DispatchIsLexical
<1>1. ASSUME NEW n \in DOMAIN frames
      PROVE  \/ frames[n].via = "namesake"
             \/ frames[n].code = Expected(frames[n])
             \/ Replaced(Expected(frames[n]))
  <2>1. StackOK(frames, objects)
    BY DEF IInv
  <2>2. FrameOK(frames[n], objects)
    BY <2>1 DEF StackOK
  <2>3. Expected(frames[n]) = ExpectedIn(frames[n], objects)
    BY DEF Expected, ExpectedIn
  <2> QED
    BY <2>2, <2>3 DEF FrameOK
<1> QED
  BY <1>1 DEF DispatchIsLexical

\* Whatever the classes, the order of their declarations and the backend, a call runs the
\* method that is nearest to the class of the object, and super.init() the constructor of
\* the class above the one it is written in, unless the call goes by the name of its
\* variable or another function has taken the method's place.
THEOREM DispatchIsLexicalHolds == Spec => []DispatchIsLexical
<1>1. IInv => DispatchIsLexical
  BY DispatchIs
<1> QED
  BY <1>1, Inductive, PTL

-----------------------------------------------------------------------------
(* What objects remember.                                                  *)

Wild == \E k \in Strays : Endless(k)

\* A body that runs is one that may, and its locals are its parameters as long as none
\* makes another.
GuestIn(fr, objs) ==
  LET c == objs[fr.self].class
  IN  /\ ~ Wild => fr.code.class \in {None} \cup Guests(c)
      /\ ~ BareWrites(c) => DOMAIN fr.locals = ToSet(Params(fr.code))

ContentIn(o, f) == o.slots[Named(o.slots, f)].value
MeantIn(mt, f)  == IF mt[f] = <<>> THEN Nil ELSE mt[f][1]
Remembers(o, mt) == ~ BareWrites(o.class) => \A f \in DOMAIN mt : ContentIn(o, f) = MeantIn(mt, f)

\* All that the constructor of k assigns, itself and through super.init(), was assigned.
Settled(mt, k) == \A f \in DOMAIN mt : f \in Assigns(k) => mt[f] # <<>>

IsConstructor(fr, o, k) ==
  k # None /\ fr.self = o /\ fr.code.class = k /\ fr.code.index = 1 /\ fr.asked = InitName

\* A constructor as far as it has come: its fields are assigned, and the constructor above
\* it is done or in the call on top of it.
Progress(frs, n, c, mt) ==
  LET fr == frs[n]
      k  == fr.code.class
      p  == Decl(k).parent
      b  == Body(fr.code)
  IN  ~ Skipped(c) /\ k \in ToSet(Lineage(c)) /\ fr.code.index = 1 =>
        \A i \in 1 .. (fr.pc - 1) :
          /\ b[i].do = "set" /\ b[i].field \in DOMAIN mt => mt[b[i].field] # <<>>
          /\ b[i].do = "super" => \/ Settled(mt, p)
                                  \/ n < Len(frs) /\ IsConstructor(frs[n + 1], fr.self, p)

ObjectBuilt(frs, o, c, mt) ==
  ~ Skipped(c) => \/ Settled(mt, c)
                  \/ Len(frs) > 0 /\ IsConstructor(frs[1], o, c)

FramesRemember(frs, objs, mts) ==
  \A n \in 1 .. Len(frs) : /\ GuestIn(frs[n], objs)
                           /\ Progress(frs, n, objs[frs[n].self].class, mts[frs[n].self])
ObjectsKnown(frs, objs, mts) ==
  \A o \in 1 .. Len(objs) : Remembers(objs[o], mts[o]) /\ ObjectBuilt(frs, o, objs[o].class, mts[o])

RInv ==
  /\ phase \in {"register", "run"} => Links
  /\ phase = "run" => FramesRemember(frames, objects, meant) /\ ObjectsKnown(frames, objects, meant)

\* Assigns, in parts.
OwnSets(k) == LET b == Decl(k).methods[1].body
              IN  {b[i].field : i \in {i \in DOMAIN b : b[i].do = "set"}}
Reaches(l, n) == \A j \in 1 .. (n - 1) :
                   LET b == Decl(l[j]).methods[1].body IN \E i \in DOMAIN b : b[i].do = "super"
AssignsAlong(l) == UNION {OwnSets(l[n]) : n \in {n \in DOMAIN l : Reaches(l, n)}}

LEMMA AssignsIs == \A c : Assigns(c) = AssignsAlong(Lineage(c))
BY DEF Assigns, AssignsAlong, OwnSets, Reaches

LEMMA GuestsStay ==
  ASSUME Static
  PROVE  /\ Links' = Links /\ Wild' = Wild
         /\ \A c : /\ Guests(c)' = Guests(c) /\ BareWrites(c)' = BareWrites(c) /\ Skipped(c)' = Skipped(c)
                   /\ Assigns(c)' = Assigns(c)
<1>1. Classes' = Classes /\ \A c : Decl(c)' = Decl(c)
  BY ClassesStay
<1>2. \A c : Lineage(c)' = Lineage(c) /\ Endless(c)' = Endless(c)
  BY LineagesStay
<1>3. \A x : Body(x)' = Body(x) /\ Params(x)' = Params(x) /\ Replaced(x)' = Replaced(x)
  BY CodeStays
<1>4. Symbols' = Symbols /\ backend' = backend
  BY DEF Symbols, Static
<1>5. \A s : FunctionNamed(s)' = FunctionNamed(s)
  BY <1>4 DEF FunctionNamed
<1>6. \A v, m : Namesake(v, m)' = Namesake(v, m)
  BY <1>1 DEF Namesake
<1>7. Strays' = Strays
  BY <1>1, <1>4, <1>5, <1>6 DEF Strays
<1>8. \A c : Guests(c)' = Guests(c)
  BY <1>2, <1>7 DEF Guests
<1>9. \A c : BareWrites(c)' = BareWrites(c)
  BY <1>1, <1>2, <1>3, <1>7, <1>8 DEF BareWrites
<1>10. \A c : Skipped(c)' = Skipped(c)
  BY <1>1, <1>2, <1>3 DEF Skipped
<1>11. \A c : Assigns(c)' = Assigns(c)
  <2>1. \A k : OwnSets(k)' = OwnSets(k)
    BY <1>1 DEF OwnSets
  <2>2. \A l, n : Reaches(l, n)' = Reaches(l, n)
    BY <1>1 DEF Reaches
  <2>3. \A c : AssignsAlong(Lineage(c))' = AssignsAlong(Lineage(c))
    BY <1>2, <2>1, <2>2 DEF AssignsAlong
  <2>4. (\A c : Assigns(c) = AssignsAlong(Lineage(c)))'
    BY DEF Assigns, AssignsAlong, OwnSets, Reaches
  <2> QED
    BY <2>3, <2>4, AssignsIs
<1>12. Links' = Links
  BY <1>1, <1>3 DEF Links
<1>13. Wild' = Wild
  BY <1>2, <1>7 DEF Wild
<1> QED
  BY <1>8, <1>9, <1>10, <1>11, <1>12, <1>13

LEMMA RInvStays ==
  ASSUME Static
  PROVE  /\ \A frs, objs, mts : FramesRemember(frs, objs, mts)' = FramesRemember(frs, objs, mts)
         /\ \A frs, objs, mts : ObjectsKnown(frs, objs, mts)' = ObjectsKnown(frs, objs, mts)
<1>1. /\ Wild' = Wild
      /\ \A c : /\ Guests(c)' = Guests(c) /\ BareWrites(c)' = BareWrites(c) /\ Skipped(c)' = Skipped(c)
                /\ Assigns(c)' = Assigns(c)
  BY GuestsStay
<1>2. \A c : Decl(c)' = Decl(c)
  BY ClassesStay
<1>3. \A c : Lineage(c)' = Lineage(c)
  BY LineagesStay
<1>4. \A x : Body(x)' = Body(x) /\ Params(x)' = Params(x)
  BY CodeStays
<1>5. \A fr, objs : GuestIn(fr, objs)' = GuestIn(fr, objs)
  BY <1>1, <1>4 DEF GuestIn
<1>6. \A mt, k : Settled(mt, k)' = Settled(mt, k)
  BY <1>1 DEF Settled
<1>7. \A frs, n, c, mt : Progress(frs, n, c, mt)' = Progress(frs, n, c, mt)
  BY <1>1, <1>2, <1>3, <1>4, <1>6 DEF Progress
<1>8. \A frs, o, c, mt : ObjectBuilt(frs, o, c, mt)' = ObjectBuilt(frs, o, c, mt)
  BY <1>1, <1>6 DEF ObjectBuilt
<1>9. \A o, mt : Remembers(o, mt)' = Remembers(o, mt)
  BY <1>1 DEF Remembers
<1>10. \A frs, objs, mts : FramesRemember(frs, objs, mts)' = FramesRemember(frs, objs, mts)
  BY <1>5, <1>7 DEF FramesRemember
<1>11. \A frs, objs, mts : ObjectsKnown(frs, objs, mts)' = ObjectsKnown(frs, objs, mts)
  BY <1>8, <1>9 DEF ObjectsKnown
<1> QED
  BY <1>10, <1>11

\* What the constructor of a class assigns: its own statements, and the parent's.
LEMMA AssignsAre ==
  ASSUME InSource, NEW k, Declared(k), ~ Endless(k), NEW f, f \in Assigns(k),
         NEW b, b = Decl(k).methods[1].body, NEW p, p = Decl(k).parent
  PROVE  \/ \E i \in DOMAIN b : b[i].do = "set" /\ b[i].field = f
         \/ Declared(p) /\ f \in Assigns(p) /\ \E i \in DOMAIN b : b[i].do = "super"
<1>. DEFINE l == Lineage(k)
            B(c) == Decl(c).methods[1].body
            R(s, n) == \A j \in 1 .. (n - 1) : \E i \in DOMAIN B(s[j]) : B(s[j])[i].do = "super"
            Own(c) == {B(c)[i].field : i \in {i \in DOMAIN B(c) : B(c)[i].do = "set"}}
<1>1. \A c : Assigns(c) = UNION {Own(Lineage(c)[n]) : n \in {n \in DOMAIN Lineage(c) : R(Lineage(c), n)}}
  BY DEF Assigns
<1>2. PICK n \in DOMAIN l : R(l, n) /\ f \in Own(l[n])
  BY <1>1
<1>3. l[1] = k /\ Len(l) \in Nat /\ DOMAIN l = 1 .. Len(l)
  BY LineageIs, ClassesAre DEF Chain
<1>4. CASE n = 1
  BY <1>2, <1>3, <1>4
<1>5. CASE n # 1
  <2>. DEFINE q == Lineage(p)
  <2>1. Declared(p)
    BY <1>2, <1>3, <1>5, LineageAbove
  <2>2. Len(q) = Len(l) - 1 /\ \A i \in 1 .. Len(q) : q[i] = l[i + 1]
    BY <2>1, LineageAbove
  <2>3. DOMAIN q = 1 .. Len(q)
    BY <2>1, LineageIs DEF Chain
  <2>. HIDE DEF l, q
  <2>4. n - 1 \in DOMAIN q /\ q[n - 1] = l[n] /\ \A j \in 1 .. ((n - 1) - 1) : q[j] = l[j + 1] /\ j + 1 \in 1 .. (n - 1)
    BY <1>2, <1>3, <1>5, <2>2, <2>3
  <2>5. R(q, n - 1)
    <3>1. ASSUME NEW j \in 1 .. ((n - 1) - 1)
          PROVE  \E i \in DOMAIN B(q[j]) : B(q[j])[i].do = "super"
      <4>1. \E i \in DOMAIN B(l[j + 1]) : B(l[j + 1])[i].do = "super"
        BY <1>2, <2>4
      <4> QED
        BY <2>4, <4>1
    <3> QED
      BY <3>1
  <2>6. f \in Own(q[n - 1])
    BY <1>2, <2>4
  <2>7. f \in Assigns(p)
    BY <1>1, <2>4, <2>5, <2>6 DEF q
  <2>8. \E i \in DOMAIN b : b[i].do = "super"
    <3>1. 1 \in 1 .. (n - 1)
      BY <1>2, <1>3, <1>5
    <3>2. \E i \in DOMAIN B(l[1]) : B(l[1])[i].do = "super"
      BY <1>2, <3>1
    <3> QED
      BY <1>3, <3>2
  <2> QED
    BY <2>1, <2>7, <2>8
<1> QED
  BY <1>4, <1>5

LEMMA AncestorIs ==
  ASSUME InSource, NEW q, Declared(q), ~ Endless(q), NEW x \in ToSet(Lineage(q)), NEW p, p = Decl(x).parent
  PROVE  Declared(x) /\ ~ Endless(x) /\ (Declared(p) => p \in ToSet(Lineage(q)))
<1>. DEFINE l == Lineage(q)
<1>1. l \in Seq(ClassNames) /\ Len(l) \in Nat /\ DOMAIN l = 1 .. Len(l) /\ l[1] = q
  BY LineageIs, ClassesAre DEF Chain
<1>2. PICK i \in 1 .. Len(l) : l[i] = x
  BY <1>1 DEF ToSet
<1>3. Declared(x) /\ ~ Endless(x)
  BY <1>2, LineageOfAncestor
<1>4. ASSUME Declared(p)
      PROVE  p \in ToSet(l)
  <2>1. CASE i = Len(l)
    BY <1>2, <1>4, <2>1, LineageIs DEF Ends
  <2>2. CASE i # Len(l)
    <3>. DEFINE n == Len(l)
    <3>1. i \in 1 .. (n - 1) /\ i + 1 \in 1 .. n
      <4>1. n \in Nat /\ i \in 1 .. n /\ i # n
        BY <1>1, <2>2
      <4>. HIDE DEF n
      <4> QED
        BY <4>1
    <3>2. l[i + 1] = p
      BY <1>2, <3>1, LineageIs DEF Chain
    <3> QED
      BY <1>1, <3>1, <3>2 DEF ToSet
  <2> QED
    BY <2>1, <2>2
<1> QED
  BY <1>3, <1>4

\* A body that may run may call the constructor above its class.
LEMMA GuestsAre ==
  ASSUME InSource, NEW c, Declared(c), ~ Endless(c), ~ Wild
  PROVE  /\ c \in Guests(c) /\ ToSet(Lineage(c)) \subseteq Guests(c)
         /\ \A x \in Strays : x \in Guests(c)
         /\ \A x \in Guests(c) : /\ Declared(x)
                                 /\ Declared(Decl(x).parent) => Decl(x).parent \in Guests(c)
<1>1. \A x \in Strays : Declared(x) /\ ~ Endless(x)
  BY DEF Strays, Wild, Declared
<1>2. \A x : Declared(x) => x \in ToSet(Lineage(x))
  <2>1. ASSUME NEW x, Declared(x)
        PROVE  x \in ToSet(Lineage(x))
    <3>1. Lineage(x)[1] = x /\ 1 \in DOMAIN Lineage(x)
      BY <2>1, LineageIs DEF Chain
    <3> QED
      BY <3>1 DEF ToSet
  <2> QED
    BY <2>1
<1>3. \A q \in {c} \cup Strays : Declared(q) /\ ~ Endless(q)
  BY <1>1
<1>4. \A q \in {c} \cup Strays : ToSet(Lineage(q)) \subseteq Guests(c)
  BY DEF Guests
<1>5. \A x \in Strays : x \in Guests(c)
  BY <1>1, <1>2, <1>4
<1>6. ASSUME NEW x \in Guests(c)
      PROVE  Declared(x) /\ (Declared(Decl(x).parent) => Decl(x).parent \in Guests(c))
  <2>1. PICK q \in {c} \cup Strays : x \in ToSet(Lineage(q))
    BY DEF Guests
  <2> QED
    BY <1>3, <1>4, <2>1, AncestorIs
<1> QED
  BY <1>2, <1>4, <1>5, <1>6

-----------------------------------------------------------------------------
(* Bodies that may run on an object.                                       *)

\* What a definition keeps for a method is the method's, a function of the program, or a
\* body that strays.
LEMMA LinkedGuest ==
  ASSUME InSource, Unique, backend \in {"aot", "jit"}, NEW k, Declared(k), NEW m,
         NEW j, j = Named(Decl(k).methods, m), j # 0
  PROVE  Linked(k).methods[j].code.class \in {None, k} \cup Strays
<1>. DEFINE l    == LastNamed(k, m)
            code == Linked(k).methods[j].code
<1>1. j \in DOMAIN Decl(k).methods /\ Decl(k).methods[j].name = m /\ CodeOK(code)
  BY MethodCode
<1>2. code = CodeFor(k, l)
  <2>1. j \in DOMAIN Decl(k).methods /\ Named(Decl(k).methods, Decl(k).methods[j].name) = j
    BY <1>1
  <2>2. Linked(k).methods[j].code = CodeFor(k, LastNamed(k, Decl(k).methods[j].name))
    BY <2>1, LinkedIs
  <2> QED
    BY <1>1, <2>2
<1>3. l \in DOMAIN Decl(k).methods /\ Decl(k).methods[l].name = m
  BY <1>1, LastNamedIs
<1>. HIDE DEF l, code
<1>4. CASE backend = "jit"
  BY <1>2, <1>4 DEF CodeFor, Code, code
<1>5. CASE backend = "aot" /\ code.class # None /\ code.class # k
  <2>1. code = FunctionNamed(Symbol(k, Decl(k).methods[l].name))
    BY <1>2, <1>5 DEF CodeFor
  <2>2. PICK n \in DOMAIN Classes : Decl(k) = Classes[n]
    BY ClassesAre, DeclIs
  <2>3. Classes[n].name = k
    BY <2>2, DeclIs
  <2>4. PICK i \in DOMAIN Classes : Classes[i].name = code.class
    BY <1>1, <1>5 DEF CodeOK, Declared
  <2>5. n \in DOMAIN Classes \ {i}
    BY <1>5, <2>3, <2>4
  <2>6. FunctionNamed(Symbol(Classes[n].name, Classes[n].methods[l].name)).class = Classes[i].name
    BY <2>1, <2>2, <2>3, <2>4
  <2>7. l \in DOMAIN Classes[n].methods
    BY <1>3, <2>2
  <2> QED
    BY <1>5, <2>4, <2>5, <2>6, <2>7 DEF Strays, code
<1> QED
  BY <1>4, <1>5 DEF code

\* So is what a method call runs, and what a variable's name makes of it.
LEMMA FoundGuest ==
  ASSUME InSource, Unique, RegistryDone, backend \in {"aot", "jit"},
         NEW c, Declared(c), ~ Endless(c), NEW o, IsInstance(o, c), NEW m, ~ Wild,
         NEW code, code = FindMethod(o, m)
  PROVE  code.class \in {None} \cup Guests(c)
<1>1. CASE code = NoCode
  BY <1>1 DEF NoCode, Code
<1>2. CASE code # NoCode
  <2>1. PICK k \in ToSet(Lineage(c)) : /\ Declared(k) /\ Named(Decl(k).methods, m) # 0
                                       /\ code = Linked(k).methods[Named(Decl(k).methods, m)].code
    BY <1>2, FindMethodIs
  <2>2. code.class \in {None, k} \cup Strays
    BY <2>1, LinkedGuest
  <2>3. k \in Guests(c) /\ \A x \in Strays : x \in Guests(c)
    BY GuestsAre
  <2> QED
    BY <2>2, <2>3
<1> QED
  BY <1>1, <1>2

LEMMA NamesakeGuest ==
  ASSUME InSource, Unique, NEW v \in Variables, NEW m \in Calls,
         NEW c, Declared(c), ~ Endless(c), ~ Wild
  PROVE  Namesake(v, m).class \in {None} \cup Guests(c)
<1>. DEFINE code == Namesake(v, m)
<1>1. CodeOK(code)
  BY NamesakeOK
<1>2. CASE code.class # None
  <2>1. PICK i \in DOMAIN Classes : Classes[i].name = code.class
    BY <1>1, <1>2 DEF CodeOK, Declared
  <2>2. code.class \in Strays
    BY <2>1 DEF Strays
  <2> QED
    BY <2>2, GuestsAre
<1> QED
  BY <1>2

\* The constructors of an object's ancestors are whole, unless its class is skipped.
LEMMA ConstructorBody ==
  ASSUME InSource, Unique, backend \in {"aot", "jit"}, NEW c, Declared(c), ~ Endless(c), ~ Skipped(c),
         NEW k \in ToSet(Lineage(c)), NEW code, code.class = k, code.index = 1
  PROVE  /\ Body(code) = Decl(k).methods[1].body
         /\ Linked(k).methods[1].code = Code(k, 1)
<1>1. Declared(k) /\ k # None
  BY AncestorIs, DeclIs
<1>2. ~ Replaced(Code(k, 1)) /\ ~ (Len(Body(Code(k, 1))) < Len(Decl(k).methods[1].body))
  BY DEF Skipped
<1>3. Linked(k).methods[1].code = Code(k, 1)
  <2>1. 1 = Named(Decl(k).methods, InitName)
    BY <1>1, MethodsAre
  <2> QED
    BY <1>1, <1>2, <2>1, MethodCode
<1>4. Body(code) = Decl(k).methods[1].body
  <2>. DEFINE d == Decl(k)
              b == d.methods[1].body
              I == {i \in 1 .. Len(b) : ~ Builds(d, b[i])}
              n == IF I # {} THEN Min(I) ELSE 0
  <2>1. b \in Seq(ToSet(b))
    <3>1. IsClass(d) /\ 1 \in DOMAIN d.methods
      BY <1>1, DeclIs, MethodsAre
    <3> QED
      BY <3>1 DEF IsClass, IsList
  <2>2. Body(code) = (IF n = 0 THEN b ELSE SubSeq(b, 1, n - 1)) /\ Body(code) = Body(Code(k, 1))
    BY <1>1 DEF Body, SelectInSeq, Code
  <2>3. n \in 0 .. Len(b)
    <3>1. I \in SUBSET (1 .. Len(b)) /\ Len(b) \in Nat
      BY <2>1
    <3>. HIDE DEF I
    <3> QED
      BY <3>1, FirstIs
  <2>4. ~ (Len(Body(code)) < Len(b))
    BY <1>2, <2>2
  <2>. HIDE DEF b, n
  <2>5. n # 0 => Len(SubSeq(b, 1, n - 1)) = n - 1 /\ n - 1 < Len(b)
    BY <2>1, <2>3
  <2> QED
    BY <2>2, <2>4, <2>5 DEF b
<1> QED
  BY <1>3, <1>4

\* A constructor that has come to its end has assigned all that it assigns.
LEMMA Finished ==
  ASSUME InSource, Unique, backend \in {"aot", "jit"}, NEW c, Declared(c), ~ Endless(c), ~ Skipped(c),
         NEW mt, NEW frs, NEW n, n = Len(frs), n \in Nat, Progress(frs, n, c, mt),
         frs[n].code.index = 1, frs[n].code.class \in ToSet(Lineage(c)),
         frs[n].pc \in Nat, frs[n].pc > Len(Body(frs[n].code))
  PROVE  Settled(mt, frs[n].code.class)
<1>. DEFINE fr == frs[n]
            k  == fr.code.class
            p  == Decl(k).parent
            b  == Decl(k).methods[1].body
<1>1. Declared(k) /\ ~ Endless(k)
  BY AncestorIs
<1>2. Body(fr.code) = b
  BY ConstructorBody
<1>3. b \in Seq(ToSet(b)) /\ Len(b) \in Nat /\ DOMAIN b = 1 .. Len(b)
  <2>1. IsClass(Decl(k)) /\ 1 \in DOMAIN Decl(k).methods
    BY <1>1, DeclIs, MethodsAre
  <2>2. IsList(Decl(k).methods[1].body)
    BY <2>1 DEF IsClass
  <2>. HIDE DEF b
  <2>3. IsList(b)
    BY <2>2 DEF b
  <2> QED
    BY <2>3 DEF IsList
<1>4. \A i \in 1 .. (fr.pc - 1) :
          /\ b[i].do = "set" /\ b[i].field \in DOMAIN mt => mt[b[i].field] # <<>>
          /\ b[i].do = "super" => Settled(mt, p)
  <2>1. ~ (n < Len(frs))
    OBVIOUS
  <2> QED
    BY <1>2, <2>1 DEF Progress
<1>5. \A i \in DOMAIN b : i \in 1 .. (fr.pc - 1)
  <2>1. fr.pc \in Nat /\ fr.pc > Len(b)
    BY <1>2
  <2>. HIDE DEF fr, b
  <2> QED
    BY <1>3, <2>1
<1>6. ASSUME NEW f \in DOMAIN mt, f \in Assigns(k)
      PROVE  mt[f] # <<>>
  <2>. HIDE DEF fr, b, p
  <2>1. \/ \E i \in DOMAIN b : b[i].do = "set" /\ b[i].field = f
        \/ Declared(p) /\ f \in Assigns(p) /\ \E i \in DOMAIN b : b[i].do = "super"
    <3>. HIDE DEF k
    <3>1. b = Decl(k).methods[1].body /\ p = Decl(k).parent
      BY DEF b, p
    <3> QED
      BY <1>1, <1>6, <3>1, AssignsAre
  <2>2. CASE \E i \in DOMAIN b : b[i].do = "set" /\ b[i].field = f
    BY <1>4, <1>5, <2>2
  <2>3. CASE f \in Assigns(p) /\ \E i \in DOMAIN b : b[i].do = "super"
    BY <1>4, <1>5, <2>3 DEF Settled
  <2> QED
    BY <2>1, <2>2, <2>3
<1> QED
  BY <1>6 DEF Settled

-----------------------------------------------------------------------------
(* One statement of the call on top, and the calls below it.               *)

\* While the program runs.
LEMMA RunRemembers ==
  ASSUME RInv, phase = "run", UNCHANGED compiled, phase' \in Running,
         phase' = "run" => /\ FramesRemember(frames', objects', meant')
                           /\ ObjectsKnown(frames', objects', meant')
  PROVE  RInv'
<1>1. Static
  BY DEF compiled, Static
<1>2. Links' = Links /\ Links
  BY <1>1, GuestsStay DEF RInv
<1>3. phase' # "register"
  BY DEF Running
<1>4. phase' = "run" => FramesRemember(frames, objects, meant)' /\ ObjectsKnown(frames, objects, meant)'
  BY <1>1, RInvStays
<1> QED
  BY <1>2, <1>3, <1>4 DEF RInv

\* The statement that is run next in a call.
StatementDone(fr, frs, n, c, mt) ==
  LET s == Body(fr.code)[fr.pc]
  IN  /\ s.do = "set" /\ s.field \in DOMAIN mt => mt[s.field] # <<>>
      /\ s.do = "super" /\ ~ Skipped(c) /\ fr.code.class \in ToSet(Lineage(c)) /\ fr.code.index = 1 =>
           Len(frs) = n + 1 /\ IsConstructor(frs[n + 1], fr.self, Decl(fr.code.class).parent)

Grown(mt, new) == DOMAIN new = DOMAIN mt /\ \A f \in DOMAIN mt : mt[f] # <<>> => new[f] # <<>>
SameCall(fr, new) == new.code = fr.code /\ new.self = fr.self /\ new.asked = fr.asked

LEMMA SettledGrows ==
  ASSUME NEW mt, NEW new, Grown(mt, new), NEW k, Settled(mt, k)
  PROVE  Settled(new, k)
BY DEF Settled, Grown

LEMMA ConstructorStays ==
  ASSUME NEW fr, NEW new, SameCall(fr, new), NEW o, NEW k, IsConstructor(fr, o, k)
  PROVE  IsConstructor(new, o, k)
BY DEF IsConstructor, SameCall

\* A statement of the call on top is run, and perhaps calls.
LEMMA ProgressBelow ==
  ASSUME NEW frs, NEW new, NEW n \in Nat, n < Len(frs), n < Len(new), NEW c, NEW mt, NEW said,
         Progress(frs, n, c, mt), Grown(mt, said),
         SameCall(frs[n], new[n]), SameCall(frs[n + 1], new[n + 1]), new[n].pc = frs[n].pc
  PROVE  Progress(new, n, c, said)
<1>. DEFINE fr == frs[n]
            k  == fr.code.class
            p  == Decl(k).parent
            b  == Body(fr.code)
            at == new[n]
<1>1. at.code = fr.code /\ at.self = fr.self /\ at.pc = fr.pc
  BY DEF SameCall
<1>2. ASSUME ~ Skipped(c), k \in ToSet(Lineage(c)), fr.code.index = 1, NEW i \in 1 .. (fr.pc - 1)
      PROVE  /\ b[i].do = "set" /\ b[i].field \in DOMAIN said => said[b[i].field] # <<>>
             /\ b[i].do = "super" => Settled(said, p) \/ IsConstructor(new[n + 1], fr.self, p)
  <2>1. /\ b[i].do = "set" /\ b[i].field \in DOMAIN mt => mt[b[i].field] # <<>>
        /\ b[i].do = "super" => Settled(mt, p) \/ IsConstructor(frs[n + 1], fr.self, p)
    BY <1>2 DEF Progress
  <2>. HIDE DEF b, p, fr
  <2>2. b[i].do = "super" => Settled(said, p) \/ IsConstructor(new[n + 1], fr.self, p)
    BY <2>1, SettledGrows, ConstructorStays
  <2>3. b[i].do = "set" /\ b[i].field \in DOMAIN said => said[b[i].field] # <<>>
    BY <2>1 DEF Grown
  <2> QED
    BY <2>2, <2>3
<1>3. n < Len(new)
  OBVIOUS
<1>4. Body(at.code) = b /\ at.code.class = k
  BY <1>1
<1>. HIDE DEF b, p, at
<1>5. ~ Skipped(c) /\ k \in ToSet(Lineage(c)) /\ fr.code.index = 1 =>
        \A i \in 1 .. (fr.pc - 1) :
          /\ b[i].do = "set" /\ b[i].field \in DOMAIN said => said[b[i].field] # <<>>
          /\ b[i].do = "super" => Settled(said, p) \/ (n < Len(new) /\ IsConstructor(new[n + 1], fr.self, p))
  BY <1>2, <1>3
<1> QED
  BY <1>1, <1>4, <1>5 DEF Progress, at, b, p

LEMMA ProgressOnTop ==
  ASSUME NEW frs, NEW new, NEW n \in Nat, n = Len(frs), NEW c, NEW mt, NEW said,
         Progress(frs, n, c, mt), Grown(mt, said),
         SameCall(frs[n], new[n]), frs[n].pc \in Nat, new[n].pc = frs[n].pc + 1,
         StatementDone(frs[n], new, n, c, said)
  PROVE  Progress(new, n, c, said)
<1>. DEFINE fr == frs[n]
            k  == fr.code.class
            p  == Decl(k).parent
            b  == Body(fr.code)
            at == new[n]
            Done(i) == /\ b[i].do = "set" /\ b[i].field \in DOMAIN said => said[b[i].field] # <<>>
                       /\ b[i].do = "super" => Settled(said, p) \/ (n < Len(new) /\ IsConstructor(new[n + 1], fr.self, p))
<1>1. at.code = fr.code /\ at.self = fr.self /\ at.pc = fr.pc + 1 /\ fr.pc \in Nat
  BY DEF SameCall
<1>2. ASSUME ~ Skipped(c), k \in ToSet(Lineage(c)), fr.code.index = 1, NEW i \in 1 .. (fr.pc - 1)
      PROVE  Done(i)
  <2>1. ~ (n < Len(frs))
    OBVIOUS
  <2>2. /\ b[i].do = "set" /\ b[i].field \in DOMAIN mt => mt[b[i].field] # <<>>
        /\ b[i].do = "super" => Settled(mt, p)
    BY <1>2, <2>1 DEF Progress
  <2>. HIDE DEF b, p, fr
  <2>3. b[i].do = "super" => Settled(said, p)
    BY <2>2, SettledGrows
  <2>4. b[i].do = "set" /\ b[i].field \in DOMAIN said => said[b[i].field] # <<>>
    BY <2>2 DEF Grown
  <2> QED
    BY <2>3, <2>4
<1>3. ASSUME ~ Skipped(c), k \in ToSet(Lineage(c)), fr.code.index = 1
      PROVE  Done(fr.pc)
  <2>1. Len(new) = n + 1 => n < Len(new)
    OBVIOUS
  <2> QED
    BY <1>3, <2>1 DEF StatementDone
<1>4. Body(at.code) = b /\ at.code.class = k
  BY <1>1
<1>. HIDE DEF Done
<1>5. ~ Skipped(c) /\ k \in ToSet(Lineage(c)) /\ fr.code.index = 1 => \A i \in 1 .. (at.pc - 1) : Done(i)
  <2>1. \A i \in 1 .. (at.pc - 1) : i \in 1 .. (fr.pc - 1) \/ i = fr.pc
    <3>. HIDE DEF at, fr
    <3> QED
      BY <1>1
  <2>. HIDE DEF at, fr, k
  <2> QED
    BY <1>2, <1>3, <2>1
<1>. HIDE DEF b, p, at
<1> QED
  BY <1>1, <1>4, <1>5 DEF Progress, at, b, p, Done

\* What the stack and the objects are after a statement of the call on top.
Onward(frs, new) ==
  /\ Len(new) \in {Len(frs), Len(frs) + 1}
  /\ \A n \in 1 .. Len(frs) : SameCall(frs[n], new[n])
  /\ \A n \in 1 .. (Len(frs) - 1) : new[n].pc = frs[n].pc /\ new[n].locals = frs[n].locals
  /\ new[Len(frs)].pc = frs[Len(frs)].pc + 1
AllGrown(objs, objs2, mts, mts2) ==
  \A o \in DOMAIN objs : objs2[o].class = objs[o].class /\ Grown(mts[o], mts2[o])

LEMMA FramesGo ==
  ASSUME InSource, NEW objs, NEW mts, NEW objs2, NEW mts2, AllGrown(objs, objs2, mts, mts2),
         NEW frs, StackOK(frs, objs), FramesRemember(frs, objs, mts),
         NEW l, l = Len(frs), l \in Nat \ {0}, NEW new, Onward(frs, new),
         StatementDone(frs[l], new, l, objs[frs[l].self].class, mts2[frs[l].self]),
         ~ BareWrites(objs[frs[l].self].class) => new[l].locals = frs[l].locals,
         Len(new) # l => GuestIn(new[l + 1], objs) /\ new[l + 1].pc = 1 /\ new[l + 1].self \in DOMAIN objs
  PROVE  FramesRemember(new, objs2, mts2)
<1>1. ASSUME NEW n \in 1 .. l
      PROVE  /\ frs[n].self \in DOMAIN objs /\ frs[n].pc \in Nat /\ new[n].self = frs[n].self
             /\ objs2[new[n].self].class = objs[frs[n].self].class /\ Grown(mts[frs[n].self], mts2[frs[n].self])
             /\ SameCall(frs[n], new[n]) /\ GuestIn(frs[n], objs) /\ Progress(frs, n, objs[frs[n].self].class, mts[frs[n].self])
  <2>1. FrameOK(frs[n], objs)
    BY DEF StackOK
  <2>2. frs[n].self \in DOMAIN objs /\ frs[n].pc \in Nat
    <3>1. Len(Body(frs[n].code)) \in Nat
      BY <2>1, BodyIs DEF FrameOK
    <3>2. frs[n].pc \in 1 .. (Len(Body(frs[n].code)) + 1) /\ frs[n].self \in DOMAIN objs
      BY <2>1 DEF FrameOK
    <3> QED
      BY <3>1, <3>2
  <2>3. SameCall(frs[n], new[n]) /\ new[n].self = frs[n].self
    BY DEF Onward, SameCall
  <2>4. GuestIn(frs[n], objs) /\ Progress(frs, n, objs[frs[n].self].class, mts[frs[n].self])
    BY DEF FramesRemember
  <2>5. objs2[new[n].self].class = objs[frs[n].self].class /\ Grown(mts[frs[n].self], mts2[frs[n].self])
    BY <2>2, <2>3 DEF AllGrown
  <2> QED
    BY <2>2, <2>3, <2>4, <2>5
<1>2. ASSUME NEW n \in 1 .. l
      PROVE  GuestIn(new[n], objs2)
  <2>1. ~ BareWrites(objs[frs[n].self].class) => new[n].locals = frs[n].locals
    <3>1. CASE n = l
      BY <3>1
    <3>2. CASE n # l
      <4>1. n \in 1 .. (l - 1)
        BY <3>2
      <4> QED
        BY <4>1 DEF Onward
    <3> QED
      BY <3>1, <3>2
  <2>2. new[n].code = frs[n].code
    BY <1>1 DEF SameCall
  <2> QED
    BY <1>1, <2>1, <2>2 DEF GuestIn
<1>3. ASSUME NEW n \in 1 .. l
      PROVE  Progress(new, n, objs2[new[n].self].class, mts2[new[n].self])
  <2>. DEFINE c    == objs[frs[n].self].class
              mt   == mts[frs[n].self]
              said == mts2[frs[n].self]
  <2>1. Progress(frs, n, c, mt) /\ Grown(mt, said) /\ SameCall(frs[n], new[n]) /\ frs[n].pc \in Nat
    BY <1>1
  <2>2. Progress(new, n, c, said)
    <3>1. CASE n = l
      <4>1. new[n].pc = frs[n].pc + 1 /\ StatementDone(frs[n], new, n, c, said)
        BY <3>1 DEF Onward
      <4>. HIDE DEF c, mt, said
      <4> QED
        BY <2>1, <3>1, <4>1, ProgressOnTop
    <3>2. CASE n # l
      <4>1. n \in 1 .. (l - 1) /\ n + 1 \in 1 .. l /\ n \in Nat /\ n < Len(frs)
        BY <3>2
      <4>2. SameCall(frs[n + 1], new[n + 1]) /\ new[n].pc = frs[n].pc /\ n < Len(new)
        BY <4>1 DEF Onward
      <4>. HIDE DEF c, mt, said
      <4> QED
        BY <2>1, <4>1, <4>2, ProgressBelow
    <3> QED
      BY <3>1, <3>2
  <2> QED
    BY <1>1, <2>2
<1>4. ASSUME Len(new) # l
      PROVE  /\ Len(new) = l + 1 /\ GuestIn(new[l + 1], objs2)
             /\ Progress(new, l + 1, objs2[new[l + 1].self].class, mts2[new[l + 1].self])
  <2>1. Len(new) = l + 1
    BY <1>4 DEF Onward
  <2>2. GuestIn(new[l + 1], objs2)
    BY <1>4 DEF GuestIn, AllGrown
  <2>3. 1 .. (new[l + 1].pc - 1) = {}
    BY <1>4
  <2> QED
    BY <2>1, <2>2, <2>3 DEF Progress
<1>5. \A n \in 1 .. Len(new) : n \in 1 .. l \/ (Len(new) # l /\ n = l + 1)
  BY DEF Onward
<1> QED
  BY <1>2, <1>3, <1>4, <1>5 DEF FramesRemember

LEMMA BuiltGoes ==
  ASSUME NEW mt, NEW said, Grown(mt, said), NEW frs, NEW new, Len(frs) \in Nat \ {0}, Len(new) \in Nat \ {0},
         SameCall(frs[1], new[1]), NEW o, NEW c, ObjectBuilt(frs, o, c, mt)
  PROVE  ObjectBuilt(new, o, c, said)
<1>1. CASE Skipped(c)
  BY <1>1 DEF ObjectBuilt
<1>2. CASE Settled(mt, c)
  BY <1>2, SettledGrows DEF ObjectBuilt
<1>3. CASE IsConstructor(frs[1], o, c)
  BY <1>3, ConstructorStays DEF ObjectBuilt
<1> QED
  BY <1>1, <1>2, <1>3 DEF ObjectBuilt

\* A step of a body, from what it does to the objects and to the stack.
LEMMA BodyRemembers ==
  ASSUME IInv, RInv, phase = "run", frames # <<>>, Top.pc <= Len(Body(Top.code)),
         UNCHANGED compiled, phase' = "run", NEW l, l = Len(frames), Onward(frames, frames'),
         AllGrown(objects, objects', meant, meant'), Len(objects') = Len(objects),
         \A o \in 1 .. Len(objects) : Remembers(objects'[o], meant'[o]),
         StatementDone(Top, frames', l, Self.class, meant'[Top.self]),
         ~ BareWrites(Self.class) => frames'[l].locals = Top.locals,
         Len(frames') # l => /\ GuestIn(frames'[l + 1], objects)
                             /\ frames'[l + 1].pc = 1 /\ frames'[l + 1].self \in DOMAIN objects
  PROVE  RInv'
<1>. DEFINE fs2 == frames'
            os2 == objects'
            ms2 == meant'
<1>1. /\ InSource /\ ObjectsOK(objects, meant) /\ StackOK(frames, objects) /\ phase \in Running
      /\ FramesRemember(frames, objects, meant) /\ ObjectsKnown(frames, objects, meant)
  BY RunIs DEF RInv
<1>2. l \in Nat \ {0} /\ Top = frames[l] /\ Self = objects[frames[l].self]
  BY <1>1, TopIs DEF Self
<1>3. Len(objects) \in Nat /\ DOMAIN objects = 1 .. Len(objects)
  BY <1>1 DEF ObjectsOK
<1>4. /\ Onward(frames, fs2) /\ AllGrown(objects, os2, meant, ms2)
      /\ StatementDone(frames[l], fs2, l, objects[frames[l].self].class, ms2[frames[l].self])
      /\ ~ BareWrites(objects[frames[l].self].class) => fs2[l].locals = frames[l].locals
      /\ Len(fs2) # l => GuestIn(fs2[l + 1], objects) /\ fs2[l + 1].pc = 1 /\ fs2[l + 1].self \in DOMAIN objects
      /\ Len(os2) = Len(objects) /\ \A o \in 1 .. Len(objects) : Remembers(os2[o], ms2[o])
  BY <1>2
<1>. HIDE DEF fs2, os2, ms2
<1>5. FramesRemember(fs2, os2, ms2)
  BY <1>1, <1>2, <1>4, FramesGo
<1>6. ASSUME NEW o \in 1 .. Len(objects)
      PROVE  ObjectBuilt(fs2, o, os2[o].class, ms2[o])
  <2>1. ObjectBuilt(frames, o, objects[o].class, meant[o])
    BY <1>1 DEF ObjectsKnown
  <2>2. os2[o].class = objects[o].class /\ Grown(meant[o], ms2[o])
    BY <1>3, <1>4 DEF AllGrown
  <2>3. SameCall(frames[1], fs2[1]) /\ Len(fs2) \in Nat \ {0} /\ Len(frames) \in Nat \ {0}
    BY <1>2, <1>4 DEF Onward
  <2> QED
    BY <2>1, <2>2, <2>3, BuiltGoes
<1>7. ObjectsKnown(fs2, os2, ms2)
  BY <1>4, <1>6 DEF ObjectsKnown
<1>8. phase' \in Running
  BY DEF Running
<1> QED
  BY <1>1, <1>5, <1>7, <1>8, RunRemembers DEF fs2, os2, ms2

-----------------------------------------------------------------------------
(* Assignments and calls, as far as fields are concerned.                  *)

LEMMA SaidGrows ==
  ASSUME NEW mts, mts \in Seq(ToSet(mts)), NEW o \in DOMAIN mts, NEW f, NEW y,
         NEW said, said = Said(mts, o, f, <<y>>)
  PROVE  /\ DOMAIN said = DOMAIN mts /\ DOMAIN said[o] = DOMAIN mts[o]
         /\ \A k \in DOMAIN mts : k # o => said[k] = mts[k]
         /\ \A g \in DOMAIN mts[o] : said[o][g] = IF g = f THEN <<y>> ELSE mts[o][g]
         /\ \A k \in DOMAIN mts : Grown(mts[k], said[k])
<1>1. CASE f \in DOMAIN mts[o]
  <2>. DEFINE mt == [mts[o] EXCEPT ![f] = <<y>>]
  <2>1. said = [mts EXCEPT ![o] = mt]
    BY <1>1 DEF Said
  <2>2. DOMAIN mt = DOMAIN mts[o] /\ \A g \in DOMAIN mts[o] : mt[g] = IF g = f THEN <<y>> ELSE mts[o][g]
    BY <1>1
  <2>. HIDE DEF mt
  <2>3. said[o] = mt /\ DOMAIN said = DOMAIN mts /\ \A k \in DOMAIN mts : k # o => said[k] = mts[k]
    BY <2>1
  <2>4. <<y>> # <<>>
    OBVIOUS
  <2>5. Grown(mts[o], mt)
    BY <2>2, <2>4 DEF Grown
  <2>6. \A k \in DOMAIN mts : Grown(mts[k], said[k])
    BY <2>3, <2>5 DEF Grown
  <2> QED
    BY <2>2, <2>3, <2>6
<1>2. CASE f \notin DOMAIN mts[o]
  BY <1>2 DEF Said, Grown
<1> QED
  BY <1>1, <1>2

\* An assignment to a field of an object: of the value that is meant, where nothing is bare.
CanSet(objs, mts, o, f, x, y) ==
  /\ ObjectsOK(objs, mts) /\ o \in DOMAIN objs
  /\ \A k \in 1 .. Len(objs) : Remembers(objs[k], mts[k])
  /\ ~ BareWrites(objs[o].class) => x = y
WasSet(objs, new, mts, said, o, f) ==
  /\ \A k \in 1 .. Len(objs) : Remembers(new[k], said[k])
  /\ Len(new) = Len(objs) /\ AllGrown(objs, new, mts, said)
  /\ f \in DOMAIN said[o] => said[o][f] # <<>>

LEMMA SetRemembers ==
  ASSUME NEW objs, NEW mts, NEW o, NEW f, NEW x, NEW y, CanSet(objs, mts, o, f, x, y),
         NEW new, new = Assigned(objs, o, f, x), NEW said, said = Said(mts, o, f, <<y>>)
  PROVE  WasSet(objs, new, mts, said, o, f)
<1>0. /\ ObjectsOK(objs, mts) /\ o \in DOMAIN objs
      /\ \A k \in 1 .. Len(objs) : Remembers(objs[k], mts[k])
      /\ ~ BareWrites(objs[o].class) => x = y
  BY DEF CanSet
<1>1. /\ objs \in Seq(ToSet(objs)) /\ mts \in Seq(ToSet(mts)) /\ Len(objs) \in Nat /\ Len(mts) = Len(objs)
      /\ DOMAIN objs = 1 .. Len(objs) /\ DOMAIN mts = 1 .. Len(objs)
  BY <1>0 DEF ObjectsOK
<1>2. /\ DOMAIN said[o] = DOMAIN mts[o] /\ \A k \in DOMAIN mts : k # o => said[k] = mts[k]
      /\ \A g \in DOMAIN mts[o] : said[o][g] = IF g = f THEN <<y>> ELSE mts[o][g]
      /\ \A k \in DOMAIN mts : Grown(mts[k], said[k])
  BY <1>0, <1>1, SaidGrows
<1>. DEFINE p == SetField(objs[o], f, x)
<1>3. new[o] = p /\ (\A k \in DOMAIN objs : k # o => new[k] = objs[k]) /\ new = [objs EXCEPT ![o] = p]
  BY <1>0, <1>1 DEF Assigned, Put
<1>4. ObjectOK(objs[o], mts[o])
  BY <1>0, <1>1 DEF ObjectsOK
<1>5. /\ p.class = objs[o].class
      /\ \A g \in DOMAIN mts[o] :
           p.slots[Named(p.slots, g)].value = IF g = f THEN x ELSE objs[o].slots[Named(objs[o].slots, g)].value
  <2>1. SlotsOK(objs[o].slots, DOMAIN mts[o])
    BY <1>4 DEF ObjectOK
  <2>2. objs[o] = [class |-> objs[o].class, parent |-> objs[o].parent, slots |-> objs[o].slots, methods |-> objs[o].methods]
    BY <1>4 DEF ObjectOK
  <2>3. p = SetField(objs[o], f, x)
    OBVIOUS
  <2>. DEFINE fs == DOMAIN mts[o]
              ob == objs[o]
  <2>4. SlotsOK(ob.slots, fs) /\ ob = [class |-> ob.class, parent |-> ob.parent, slots |-> ob.slots, methods |-> ob.methods]
        /\ p = SetField(ob, f, x)
    BY <2>1, <2>2, <2>3
  <2>. HIDE DEF p, fs, ob
  <2>5. p.class = ob.class
    BY <2>4 DEF SetField
  <2>6. \A g \in fs : /\ Named(p.slots, g) = Named(ob.slots, g)
                      /\ p.slots[Named(p.slots, g)].value = IF g = f THEN x ELSE ob.slots[Named(ob.slots, g)].value
    BY <2>4, SetFieldIs
  <2> QED
    BY <2>5, <2>6 DEF fs, ob
<1>. HIDE DEF p
<1>6. p.class = objs[o].class
  BY <1>5
<1>7. Len(new) = Len(objs)
  <2>1. new = [k \in 1 .. Len(objs) |-> new[k]]
    BY <1>1, <1>3
  <2> QED
    BY <1>1, <2>1, ListIs
<1>8. Remembers(p, said[o])
  <2>1. ASSUME ~ BareWrites(objs[o].class), NEW g \in DOMAIN mts[o]
        PROVE  ContentIn(p, g) = MeantIn(said[o], g)
    <3>1. Remembers(objs[o], mts[o])
      BY <1>0, <1>1
    <3>2. ContentIn(objs[o], g) = MeantIn(mts[o], g)
      BY <2>1, <3>1 DEF Remembers
    <3>3. CASE g = f
      <4>1. ContentIn(p, g) = x /\ said[o][g] = <<y>> /\ x = y
        BY <1>0, <1>2, <1>5, <2>1, <3>3 DEF ContentIn
      <4>2. <<y>> # <<>> /\ <<y>>[1] = y
        OBVIOUS
      <4> QED
        BY <4>1, <4>2 DEF MeantIn
    <3>4. CASE g # f
      BY <1>2, <1>5, <3>2, <3>4 DEF ContentIn, MeantIn
    <3> QED
      BY <3>3, <3>4
  <2> QED
    BY <1>2, <1>6, <2>1 DEF Remembers
<1>9. ASSUME NEW k \in 1 .. Len(objs)
      PROVE  Remembers(new[k], said[k])
  <2>1. CASE k = o
    BY <1>3, <1>8, <2>1
  <2>2. CASE k # o
    <3>1. new[k] = objs[k] /\ said[k] = mts[k]
      BY <1>1, <1>2, <1>3, <2>2
    <3> QED
      BY <1>0, <3>1
  <2> QED
    BY <2>1, <2>2
<1>10. AllGrown(objs, new, mts, said)
  BY <1>1, <1>2, <1>3, <1>6 DEF AllGrown
<1>11. f \in DOMAIN said[o] => said[o][f] # <<>>
  <2>1. <<y>> # <<>>
    OBVIOUS
  <2> QED
    BY <1>2, <2>1
<1> QED
  BY <1>7, <1>9, <1>10, <1>11 DEF WasSet

\* The call on top is one statement further, and may call.
LEMMA AdvancedGoes ==
  ASSUME NEW objs, StackOK(frames, objs), frames # <<>>, InSource, Top.pc <= Len(Body(Top.code)),
         NEW l, l = Len(frames)
  PROVE  /\ Onward(frames, Advanced) /\ Len(Advanced) = l /\ Advanced[l].locals = Top.locals
         /\ Advanced \in Seq(ToSet(Advanced)) /\ DOMAIN Advanced = 1 .. l /\ l \in Nat \ {0}
<1>1. l \in Nat \ {0} /\ DOMAIN frames = 1 .. l /\ Top = frames[l] /\ FrameOK(Top, objs)
  BY TopIs
<1>2. Advanced = [frames EXCEPT ![l] = [Top EXCEPT !.pc = Top.pc + 1]]
  BY <1>1 DEF Advanced
<1>. DEFINE fr == [Top EXCEPT !.pc = Top.pc + 1]
<1>3. fr.code = Top.code /\ fr.self = Top.self /\ fr.asked = Top.asked /\ fr.pc = Top.pc + 1 /\ fr.locals = Top.locals
  BY <1>1 DEF FrameOK
<1>. HIDE DEF fr
<1>4. \A n \in 1 .. l : Advanced[n] = IF n = l THEN fr ELSE frames[n]
  BY <1>1, <1>2 DEF fr
<1>5. Len(Advanced) = l /\ Advanced \in Seq(ToSet(Advanced)) /\ DOMAIN Advanced = 1 .. l
  BY <1>1, AdvancedOK DEF StackOK
<1>6. l \in 1 .. l /\ \A n \in 1 .. (l - 1) : n \in 1 .. l /\ n # l
  BY <1>1
<1>7. \A n \in 1 .. l : SameCall(frames[n], Advanced[n])
  BY <1>1, <1>3, <1>4 DEF SameCall
<1> QED
  BY <1>1, <1>3, <1>4, <1>5, <1>6, <1>7 DEF Onward

LEMMA CalledGoes ==
  ASSUME NEW l \in Nat \ {0}, l = Len(frames), Onward(frames, Advanced), Len(Advanced) = l,
         Advanced \in Seq(ToSet(Advanced)), NEW fr
  PROVE  /\ Onward(frames, Append(Advanced, fr)) /\ Len(Append(Advanced, fr)) = l + 1
         /\ Append(Advanced, fr)[l + 1] = fr /\ Append(Advanced, fr)[l].locals = Advanced[l].locals
<1>. DEFINE new == Append(Advanced, fr)
<1>1. Len(new) = l + 1 /\ \A k \in 1 .. (l + 1) : new[k] = IF k = l + 1 THEN fr ELSE Advanced[k]
  BY AppendIs
<1>. HIDE DEF new
<1>2. \A k \in 1 .. l : k \in 1 .. (l + 1) /\ k # l + 1
  OBVIOUS
<1>3. l \in 1 .. l /\ l + 1 \in 1 .. (l + 1) /\ \A n \in 1 .. (l - 1) : n \in 1 .. l
  OBVIOUS
<1>4. Onward(frames, new)
  BY <1>1, <1>2, <1>3 DEF Onward
<1> QED
  BY <1>1, <1>2, <1>3, <1>4 DEF new

-----------------------------------------------------------------------------
(* The statements of bodies.                                               *)

\* A body is a list.
LEMMA BodyList ==
  ASSUME InSource, NEW code, CodeOK(code)
  PROVE  Body(code) \in Seq(ToSet(Body(code)))
<1>1. CASE code.class = None
  BY <1>1 DEF Body
<1>2. CASE code.class # None
  <2>. DEFINE d == Decl(code.class)
              b == d.methods[code.index].body
              I == {i \in 1 .. Len(b) : ~ Builds(d, b[i])}
              n == IF I # {} THEN Min(I) ELSE 0
  <2>1. b \in Seq(ToSet(b)) /\ Len(b) \in Nat
    <3>1. IsClass(d) /\ code.index \in DOMAIN d.methods
      BY <1>2, DeclIs DEF CodeOK
    <3> QED
      BY <3>1 DEF IsClass, IsList
  <2>2. Body(code) = IF n = 0 THEN b ELSE SubSeq(b, 1, n - 1)
    BY <1>2 DEF Body, SelectInSeq
  <2>3. n \in 0 .. Len(b)
    <3>1. I \in SUBSET (1 .. Len(b))
      OBVIOUS
    <3>. HIDE DEF I, b
    <3> QED
      BY <2>1, <3>1, FirstIs
  <2>. HIDE DEF b, n
  <2>4. CASE n = 0
    BY <2>1, <2>2, <2>4
  <2>5. CASE n # 0
    <3>. DEFINE s == SubSeq(b, 1, n - 1)
    <3>1. s = [i \in 1 .. (n - 1) |-> s[i]] /\ n - 1 \in Nat
      BY <2>1, <2>3, <2>5
    <3>. HIDE DEF s
    <3>2. s \in Seq(ToSet(s))
      <4>. DEFINE m == n - 1
      <4>. HIDE DEF m
      <4>1. s = [i \in 1 .. m |-> s[i]] /\ m \in Nat
        BY <3>1 DEF m
      <4> QED
        BY <4>1, ListIs
    <3> QED
      BY <2>2, <2>5, <3>2 DEF s
  <2> QED
    BY <2>4, <2>5
<1> QED
  BY <1>1, <1>2

\* A statement of the call on top, with all that is known of it.
LEMMA StatementIs ==
  ASSUME IInv, RInv, phase = "run", frames # <<>>, Top.pc <= Len(Body(Top.code)),
         NEW c, c = Self.class
  PROVE  /\ InSource /\ Unique /\ RegistryDone /\ backend \in {"aot", "jit"} /\ phase \in Running
         /\ ObjectsOK(objects, meant) /\ StackOK(frames, objects)
         /\ Top.self \in DOMAIN objects /\ ObjectOK(Self, meant[Top.self]) /\ Self = objects[Top.self]
         /\ Declared(c) /\ ~ Endless(c) /\ IsInstance(Self, c)
         /\ CodeOK(Top.code) /\ Top.pc \in 1 .. Len(Body(Top.code)) /\ Len(Body(Top.code)) \in Nat
         /\ GuestIn(Top, objects) /\ Links
         /\ Remembers(Self, meant[Top.self])
         /\ \A o \in 1 .. Len(objects) : Remembers(objects[o], meant[o])
<1>1. /\ InSource /\ Unique /\ RegistryDone /\ backend \in {"aot", "jit"} /\ phase \in Running
      /\ ObjectsOK(objects, meant) /\ StackOK(frames, objects)
      /\ Top.self \in DOMAIN objects /\ ObjectOK(Self, meant[Top.self]) /\ FrameOK(Top, objects)
  BY AtIs
<1>2. Declared(c) /\ ~ Endless(c) /\ IsInstance(Self, c)
  BY <1>1 DEF ObjectOK
<1>3. CodeOK(Top.code) /\ Top.pc \in 1 .. Len(Body(Top.code)) /\ Len(Body(Top.code)) \in Nat
  <2>1. CodeOK(Top.code) /\ Top.pc \in 1 .. (Len(Body(Top.code)) + 1)
    BY <1>1 DEF FrameOK
  <2>2. Len(Body(Top.code)) \in Nat
    BY <1>1, <2>1, BodyIs
  <2> QED
    BY <2>1, <2>2
<1>4. FramesRemember(frames, objects, meant) /\ ObjectsKnown(frames, objects, meant) /\ Links
  BY DEF RInv
<1>5. GuestIn(Top, objects)
  <2>1. Len(frames) \in 1 .. Len(frames) /\ Top = frames[Len(frames)]
    BY <1>1, TopIs
  <2> QED
    BY <1>4, <2>1 DEF FramesRemember
<1>6. \A o \in 1 .. Len(objects) : Remembers(objects[o], meant[o])
  BY <1>4 DEF ObjectsKnown
<1>7. Remembers(Self, meant[Top.self]) /\ Self = objects[Top.self]
  BY <1>1, <1>6 DEF Self, ObjectsOK
<1> QED
  BY <1>1, <1>2, <1>3, <1>4, <1>5, <1>6, <1>7

\* In a class whose bodies never assign to a bare name, a value is what it is meant to be.
LEMMA SameValue ==
  ASSUME IInv, RInv, phase = "run", frames # <<>>, Top.pc <= Len(Body(Top.code)),
         ~ BareWrites(Self.class), NEW e, Readable(e)
  PROVE  Value(e) = MeantValue(e)
<1>1. /\ GuestIn(Top, objects) /\ Remembers(Self, meant[Top.self]) /\ ObjectOK(Self, meant[Top.self])
      /\ Self = objects[Top.self]
  BY StatementIs
<1>2. DOMAIN Top.locals = ToSet(Params(Top.code))
  BY <1>1 DEF GuestIn
<1>3. CASE e.kind = "value"
  BY <1>3 DEF Value, MeantValue
<1>4. CASE e.kind # "value" /\ e.of \in DOMAIN Top.locals
  BY <1>2, <1>4 DEF Value, MeantValue
<1>5. CASE e.kind # "value" /\ e.of \notin DOMAIN Top.locals
  <2>. DEFINE mt == meant[Top.self]
              i  == Named(Self.slots, e.of)
  <2>1. i # 0
    BY <1>5 DEF Readable
  <2>2. e.of \in DOMAIN mt
    <3>1. SlotsOK(Self.slots, DOMAIN mt)
      BY <1>1 DEF ObjectOK
    <3>2. i \in 0 .. Len(Self.slots) /\ Self.slots[i].name = e.of
      BY <2>1, <3>1, NamedIs DEF SlotsOK
    <3>3. i \in 1 .. Len(Self.slots)
      <4>1. Len(Self.slots) \in Nat
        BY <3>1 DEF SlotsOK
      <4>. HIDE DEF i
      <4> QED
        BY <2>1, <3>2, <4>1
    <3>. HIDE DEF i
    <3> QED
      BY <3>1, <3>2, <3>3 DEF SlotsOK
  <2>3. Value(e) = Self.slots[i].value
    BY <1>5 DEF Value
  <2>4. MeantValue(e) = MeantContent(Top.self, e.of)
    BY <1>2, <1>5 DEF MeantValue
  <2>5. ContentIn(Self, e.of) = MeantIn(mt, e.of)
    BY <1>1, <2>2 DEF Remembers
  <2> QED
    BY <2>3, <2>4, <2>5 DEF ContentIn, MeantIn, MeantContent
<1> QED
  BY <1>3, <1>4, <1>5

LEMMA SetRemembered ==
  ASSUME IInv, RInv, Set
  PROVE  RInv'
<1>. DEFINE o == Top.self
            f == Stmt.field
            x == Value(Stmt.from)
            y == MeantValue(Stmt.from)
            l == Len(frames)
            c == Self.class
<1>1. /\ phase = "run" /\ frames # <<>> /\ Top.pc <= Len(Body(Top.code)) /\ Stmt.do = "set" /\ Readable(Stmt.from)
      /\ objects' = [objects EXCEPT ![o] = SetField(objects[o], f, x)]
      /\ meant' = IF f \in DOMAIN meant[o] THEN [meant EXCEPT ![o][f] = <<y>>] ELSE meant
      /\ frames' = Advanced /\ UNCHANGED compiled /\ phase' = phase
  BY DEF Set, At, MeanField, Stmt
<1>2. /\ InSource /\ ObjectsOK(objects, meant) /\ StackOK(frames, objects)
      /\ o \in DOMAIN objects /\ Self = objects[o] /\ c = objects[o].class
      /\ \A k \in 1 .. Len(objects) : Remembers(objects[k], meant[k])
  BY <1>1, StatementIs
<1>3. ~ BareWrites(c) => x = y
  BY <1>1, SameValue
<1>4. Stmt = Body(Top.code)[Top.pc]
  BY DEF Stmt
<1>. HIDE DEF x, y, c, o
<1>5. objects' = Assigned(objects, o, f, x) /\ meant' = Said(meant, o, f, <<y>>)
  BY <1>1 DEF Assigned, Said, Put
<1>6. /\ \A k \in 1 .. Len(objects) : Remembers(objects'[k], meant'[k])
      /\ Len(objects') = Len(objects) /\ AllGrown(objects, objects', meant, meant')
      /\ f \in DOMAIN meant'[o] => meant'[o][f] # <<>>
  <2>1. CanSet(objects, meant, o, f, x, y)
    BY <1>2, <1>3 DEF CanSet
  <2>. HIDE DEF f
  <2>2. WasSet(objects, objects', meant, meant', o, f)
    BY <1>5, <2>1, SetRemembers
  <2> QED
    BY <2>2 DEF WasSet
<1>7. Onward(frames, frames') /\ Len(frames') = l /\ frames'[l].locals = Top.locals
  BY <1>1, <1>2, AdvancedGoes
<1>8. StatementDone(Top, frames', l, c, meant'[o])
  BY <1>1, <1>4, <1>6 DEF StatementDone
<1> QED
  BY <1>1, <1>6, <1>7, <1>8, BodyRemembers DEF c, o

LEMMA BareRemembered ==
  ASSUME IInv, RInv, Bare
  PROVE  RInv'
<1>. DEFINE o == Top.self
            f == Stmt.field
            y == MeantValue(Stmt.from)
            l == Len(frames)
            c == Self.class
            ls == (Stmt.field :> Value(Stmt.from)) @@ Advanced[l].locals
            fr == [Advanced[l] EXCEPT !.locals = ls]
<1>1. /\ phase = "run" /\ frames # <<>> /\ Top.pc <= Len(Body(Top.code)) /\ Stmt.do = "bare"
      /\ frames' = [Advanced EXCEPT ![l] = fr]
      /\ \/ meant' = meant
         \/ meant' = IF f \in DOMAIN meant[o] THEN [meant EXCEPT ![o][f] = <<y>>] ELSE meant
      /\ UNCHANGED compiled /\ phase' = phase /\ objects' = objects
  <2>1. /\ phase = "run" /\ frames # <<>> /\ Top.pc <= Len(Body(Top.code)) /\ Stmt.do = "bare"
        /\ UNCHANGED compiled /\ phase' = phase /\ objects' = objects
    BY DEF Bare, At, Stmt
  <2>2. \/ meant' = meant
        \/ meant' = IF f \in DOMAIN meant[o] THEN [meant EXCEPT ![o][f] = <<y>>] ELSE meant
    BY DEF Bare, MeanField
  <2>3. frames' = [Advanced EXCEPT ![l] = fr]
    BY DEF Bare
  <2> QED
    BY <2>1, <2>2, <2>3
<1>2. /\ InSource /\ ObjectsOK(objects, meant) /\ StackOK(frames, objects) /\ CodeOK(Top.code)
      /\ o \in DOMAIN objects /\ Self = objects[o] /\ c = objects[o].class
      /\ \A k \in 1 .. Len(objects) : Remembers(objects[k], meant[k])
      /\ GuestIn(Top, objects) /\ Top.pc \in 1 .. Len(Body(Top.code)) /\ Len(Body(Top.code)) \in Nat
  BY <1>1, StatementIs
<1>3. Stmt = Body(Top.code)[Top.pc]
  BY DEF Stmt
<1>4. BareWrites(c)
  <2>1. CASE Wild
    BY <2>1 DEF Wild, BareWrites
  <2>2. CASE ~ Wild
    <3>. DEFINE k == Top.code.class
                j == Top.code.index
    <3>1. k # None
      BY <1>2 DEF Body
    <3>2. k \in Guests(c) /\ j \in DOMAIN Decl(k).methods
      BY <1>2, <2>2, <3>1 DEF GuestIn, CodeOK
    <3>3. Body(Code(k, j)) = Body(Top.code)
      BY DEF Body, Code
    <3>4. Top.pc \in DOMAIN Body(Code(k, j)) /\ Body(Code(k, j))[Top.pc].do = "bare"
      <4>1. Body(Top.code) \in Seq(ToSet(Body(Top.code)))
        BY <1>2, BodyList
      <4> QED
        BY <1>1, <1>2, <1>3, <3>3, <4>1
    <3> QED
      BY <3>2, <3>4 DEF BareWrites
  <2> QED
    BY <2>1, <2>2
<1>5. /\ \A k \in 1 .. Len(objects) : Remembers(objects'[k], meant'[k])
      /\ AllGrown(objects, objects', meant, meant')
  <2>1. CASE meant' = meant
    BY <1>1, <1>2, <2>1 DEF AllGrown, Grown
  <2>2. CASE meant' = Said(meant, o, f, <<y>>)
    <3>1. meant \in Seq(ToSet(meant)) /\ o \in DOMAIN meant /\ DOMAIN meant = 1 .. Len(objects) /\ DOMAIN objects = DOMAIN meant
      BY <1>2 DEF ObjectsOK
    <3>. HIDE DEF y, o
    <3>2. (\A k \in DOMAIN meant : k # o => meant'[k] = meant[k]) /\ \A k \in DOMAIN meant : Grown(meant[k], meant'[k])
      BY <2>2, <3>1, SaidGrows
    <3>3. Remembers(objects[o], meant'[o])
      BY <1>2, <1>4 DEF Remembers
    <3> QED
      BY <1>1, <1>2, <3>1, <3>2, <3>3 DEF AllGrown
  <2> QED
    BY <1>1, <2>1, <2>2 DEF Said
<1>6. Onward(frames, frames') /\ Len(frames') = l
  <2>. HIDE DEF ls
  <2>1. Onward(frames, Advanced) /\ Len(Advanced) = l /\ Advanced \in Seq(ToSet(Advanced)) /\ DOMAIN Advanced = 1 .. l /\ l \in Nat \ {0}
    BY <1>1, <1>2, AdvancedGoes
  <2>2. FrameOK(Advanced[l], objects)
    BY <1>1, <1>2, AdvancedOK
  <2>3. fr.code = Advanced[l].code /\ fr.self = Advanced[l].self /\ fr.asked = Advanced[l].asked /\ fr.pc = Advanced[l].pc
    BY <2>2 DEF FrameOK
  <2>. HIDE DEF fr
  <2>4. frames' = [k \in 1 .. l |-> frames'[k]] /\ \A k \in 1 .. l : frames'[k] = IF k = l THEN fr ELSE Advanced[k]
    BY <1>1, <2>1
  <2>5. Len(frames') = l
    BY <2>1, <2>4, ListIs
  <2>6. l \in 1 .. l /\ \A n \in 1 .. (l - 1) : n \in 1 .. l /\ n # l
    <3>1. l \in Nat \ {0}
      BY <2>1
    <3>. HIDE DEF l
    <3> QED
      BY <3>1
  <2> QED
    BY <2>1, <2>3, <2>4, <2>5, <2>6 DEF Onward, SameCall
<1>7. StatementDone(Top, frames', l, c, meant'[o])
  BY <1>1, <1>3 DEF StatementDone
<1>. HIDE DEF c
<1> QED
  BY <1>1, <1>4, <1>5, <1>6, <1>7, BodyRemembers DEF c

\* What Enter does when the program goes on.
LEMMA EnterIs ==
  ASSUME NEW stack, NEW code, NEW self, NEW args, NEW via, NEW by, NEW asked,
         Len(args) \in Nat, Len(Params(code)) \in Nat,
         Enter(stack, code, self, args, via, by, asked), phase' = "run"
  PROVE  \/ Len(args) > 3 /\ frames' = stack
         \/ Len(args) <= 3 /\ frames' = Append(stack, Frame(code, self, args, via, by, asked))
<1>1. phase' # "undefined" /\ phase' # "overflow"
  OBVIOUS
<1>. DEFINE fr == Frame(code, self, args, via, by, asked)
<1>. HIDE DEF fr
<1>2. \/ Len(args) > 3 /\ frames' = stack
      \/ Len(args) <= 3 /\ Len(args) # Len(Params(code)) /\ phase' = "undefined"
      \/ Len(args) <= 3 /\ Len(args) = Len(Params(code)) /\ Len(stack) = MaxFrames /\ phase' = "overflow"
      \/ Len(args) <= 3 /\ frames' = Append(stack, fr)
  BY DEF Enter, fr
<1> QED
  BY <1>1, <1>2 DEF fr

LEMMA CallRemembered ==
  ASSUME IInv, RInv, phase = "run", frames # <<>>, Top.pc <= Len(Body(Top.code)), Stmt.do # "set",
         UNCHANGED <<compiled, objects, meant>>, phase' = "run",
         NEW code, NEW args, NEW via, NEW by, NEW asked,
         frames' = Append(Advanced, Frame(code, Top.self, args, via, by, asked)),
         ~ Wild => code.class \in {None} \cup Guests(Self.class),
         LET k == Top.code.class
         IN  Stmt.do = "super" /\ ~ Skipped(Self.class) /\ k \in ToSet(Lineage(Self.class)) /\ Top.code.index = 1 =>
               Decl(k).parent # None /\ code.class = Decl(k).parent /\ code.index = 1 /\ asked = InitName
  PROVE  RInv'
<1>. DEFINE l  == Len(frames)
            fr == Frame(code, Top.self, args, via, by, asked)
<1>1. /\ InSource /\ ObjectsOK(objects, meant) /\ StackOK(frames, objects) /\ Top.self \in DOMAIN objects
      /\ Self = objects[Top.self] /\ \A o \in 1 .. Len(objects) : Remembers(objects[o], meant[o])
  BY StatementIs
<1>2. /\ Onward(frames, Advanced) /\ Len(Advanced) = l /\ Advanced[l].locals = Top.locals
      /\ Advanced \in Seq(ToSet(Advanced)) /\ l \in Nat \ {0}
  BY <1>1, AdvancedGoes
<1>3. /\ GuestIn(fr, objects) /\ fr.pc = 1 /\ fr.self = Top.self /\ fr.code = code /\ fr.asked = asked
      /\ fr.self \in DOMAIN objects
  <2>1. /\ fr.pc = 1 /\ fr.self = Top.self /\ fr.code = code /\ fr.asked = asked
        /\ DOMAIN fr.locals = ToSet(Params(code))
    BY DEF Frame
  <2>. HIDE DEF fr
  <2> QED
    BY <1>1, <2>1 DEF GuestIn
<1>. HIDE DEF fr
<1>4. frames' = Append(Advanced, fr)
  BY DEF fr
<1>. DEFINE fs2 == frames'
<1>5. fs2 = Append(Advanced, fr)
  BY <1>4
<1>. HIDE DEF fs2, l
<1>6. Onward(frames, fs2) /\ Len(fs2) = l + 1 /\ fs2[l + 1] = fr /\ fs2[l].locals = Advanced[l].locals
  <2>1. l = Len(frames)
    BY DEF l
  <2> QED
    BY <1>2, <1>5, <2>1, CalledGoes DEF fs2
<1>7. StatementDone(Top, fs2, l, Self.class, meant[Top.self])
  <2>1. Stmt = Body(Top.code)[Top.pc]
    BY DEF Stmt
  <2>2. ASSUME Stmt.do = "super", ~ Skipped(Self.class), Top.code.class \in ToSet(Lineage(Self.class)), Top.code.index = 1
        PROVE  IsConstructor(fs2[l + 1], Top.self, Decl(Top.code.class).parent)
    BY <1>3, <1>6, <2>2 DEF IsConstructor
  <2> QED
    BY <1>6, <2>1, <2>2 DEF StatementDone
<1>8. AllGrown(objects, objects', meant, meant')
  BY DEF AllGrown, Grown
<1> QED
  BY <1>1, <1>2, <1>3, <1>6, <1>7, <1>8, BodyRemembers DEF fs2, l

LEMMA SuperInitRemembered ==
  ASSUME IInv, RInv, SuperInit
  PROVE  RInv'
<1>. DEFINE k    == Top.code.class
            p    == Decl(k).parent
            n    == Find(p)
            code == registry[n].methods[1].code
            args == [i \in DOMAIN Stmt.args |-> Value(Stmt.args[i])]
            self == Top.self
            c    == Self.class
<1>1. /\ phase = "run" /\ frames # <<>> /\ Top.pc <= Len(Body(Top.code)) /\ Stmt.do = "super"
      /\ UNCHANGED <<compiled, objects, meant>>
      /\ \/ phase' = "aborted" /\ UNCHANGED frames
         \/ n # 0 /\ Enter(Advanced, code, self, args, "super", k, InitName)
  BY DEF SuperInit, At, Stmt
<1>2. /\ InSource /\ Unique /\ RegistryDone /\ backend \in {"aot", "jit"} /\ phase \in Running
      /\ StackOK(frames, objects) /\ CodeOK(Top.code) /\ Links /\ GuestIn(Top, objects)
      /\ Declared(c) /\ ~ Endless(c) /\ Top.pc \in 1 .. Len(Body(Top.code)) /\ Self = objects[self]
      /\ ObjectsOK(objects, meant) /\ StackOK(Advanced, objects) /\ self \in DOMAIN objects
  <2>1. StackOK(Advanced, objects)
    BY <1>1, AtIs
  <2> QED
    BY <1>1, <2>1, StatementIs
<1>3. IsList(Stmt.args) /\ Len(args) = Len(Stmt.args) /\ Len(args) \in Nat
  <2>1. IsList(Stmt.args)
    BY <1>1, AtIs
  <2>2. DOMAIN Stmt.args = 1 .. Len(Stmt.args) /\ Len(Stmt.args) \in Nat
    BY <2>1 DEF IsList
  <2>3. args = [i \in 1 .. Len(Stmt.args) |-> args[i]]
    BY <2>2
  <2>. HIDE DEF args
  <2>4. Len(args) = Len(Stmt.args)
    BY <2>2, <2>3, ListIs
  <2> QED
    BY <2>1, <2>2, <2>4
<1>4. Len(args) <= 3
  <2>1. k # None
    BY <1>2 DEF Body
  <2>2. Declared(k) /\ Top.code.index \in DOMAIN Decl(k).methods
    BY <1>2, <2>1 DEF CodeOK
  <2>3. PICK i \in DOMAIN Classes : Decl(k) = Classes[i] /\ Classes[i].name = k
    BY <1>2, <2>2, ClassesAre, DeclIs
  <2>4. Body(Code(k, Top.code.index)) = Body(Top.code)
    BY DEF Body, Code
  <2>5. Top.pc \in DOMAIN Body(Top.code)
    BY <1>2, BodyList
  <2>6. Len(Body(Top.code)[Top.pc].args) <= 3
    <3>1. Body(Top.code)[Top.pc].do = "super"
      BY <1>1 DEF Stmt
    <3>2. \A x \in DOMAIN Body(Code(Classes[i].name, Top.code.index)) :
            Body(Code(Classes[i].name, Top.code.index))[x].do = "super" =>
              Len(Body(Code(Classes[i].name, Top.code.index))[x].args) <= 3
      BY <1>2, <2>2, <2>3 DEF Links
    <3>. HIDE DEF k
    <3> QED
      BY <2>3, <2>4, <2>5, <3>1, <3>2
  <2> QED
    BY <1>3, <2>6 DEF Stmt
<1>5. ASSUME n # 0
      PROVE  /\ CodeOK(code) /\ Declared(p) /\ p # None
             /\ ~ Wild => code.class \in {None} \cup Guests(c)
             /\ ~ Skipped(c) /\ k \in ToSet(Lineage(c)) => code.class = p /\ code.index = 1
  <2>1. Declared(p) /\ registry[n] = Linked(p) /\ p # None
    BY <1>2, <1>5, Registered, DeclIs
  <2>2. 1 = Named(Decl(p).methods, InitName)
    BY <1>2, <2>1, MethodsAre
  <2>3. CodeOK(Linked(p).methods[1].code) /\ Linked(p).methods[1].code.class \in {None, p} \cup Strays
    <3>. HIDE DEF p
    <3>1. /\ Linked(p).methods[1].code = Code(p, 1) \/ Replaced(Code(p, 1))
          /\ CodeOK(Linked(p).methods[1].code)
      BY <1>2, <2>1, <2>2, MethodCode
    <3>2. Linked(p).methods[1].code.class \in {None, p} \cup Strays
      BY <1>2, <2>1, <2>2, LinkedGuest
    <3> QED
      BY <3>1, <3>2
  <2>4. ASSUME ~ Wild
        PROVE  p \in Guests(c) /\ \A x \in Strays : x \in Guests(c)
    <3>1. k # None
      BY <1>2 DEF Body
    <3>2. k \in Guests(c)
      BY <1>2, <2>4, <3>1 DEF GuestIn
    <3> QED
      BY <1>2, <2>1, <2>4, <3>2, GuestsAre
  <2>5. ASSUME ~ Skipped(c), k \in ToSet(Lineage(c))
        PROVE  Linked(p).methods[1].code = Code(p, 1)
    <3>1. p \in ToSet(Lineage(c))
      BY <1>2, <2>1, <2>5, AncestorIs
    <3>. HIDE DEF p
    <3>2. Code(p, 1).class = p /\ Code(p, 1).index = 1
      BY DEF Code
    <3> QED
      BY <1>2, <2>5, <3>1, <3>2, ConstructorBody
  <2>6. code = Linked(p).methods[1].code
    BY <2>1
  <2>7. Code(p, 1).class = p /\ Code(p, 1).index = 1
    BY DEF Code
  <2>. HIDE DEF code, p, c, k, n
  <2> QED
    BY <2>1, <2>3, <2>4, <2>5, <2>6, <2>7
<1>6. CASE phase' = "aborted"
  <2>1. phase' \in Running /\ phase' # "run"
    BY <1>6 DEF Running
  <2> QED
    BY <1>1, <2>1, RunRemembers
<1>7. CASE n # 0 /\ Enter(Advanced, code, self, args, "super", k, InitName)
  <2>1. phase' \in {"run", "undefined", "overflow"}
    <3>1. Len(Params(code)) \in Nat
      BY <1>2, <1>5, <1>7, BodyIs
    <3>. HIDE DEF code, args, self, k
    <3> QED
      BY <1>1, <1>3, <1>7, <3>1 DEF Enter
  <2>2. CASE phase' = "run"
    <3>1. Len(Params(code)) \in Nat
      BY <1>2, <1>5, <1>7, BodyIs
    <3>2. frames' = Append(Advanced, Frame(code, self, args, "super", k, InitName))
      <4>. HIDE DEF code, args, self, k
      <4>1. ~ (Len(args) > 3)
        BY <1>3, <1>4
      <4> QED
        BY <1>3, <1>7, <2>2, <3>1, <4>1, EnterIs
    <3>3. Stmt.do # "set"
      BY <1>1
    <3>4. ~ Wild => code.class \in {None} \cup Guests(c)
      BY <1>5, <1>7
    <3>5. ~ Skipped(c) /\ k \in ToSet(Lineage(c)) => p # None /\ code.class = p /\ code.index = 1
      BY <1>5, <1>7
    <3>. HIDE DEF code, args
    <3> QED
      BY <1>1, <2>2, <3>2, <3>3, <3>4, <3>5, CallRemembered
  <2>3. CASE phase' # "run"
    <3>1. phase' \in Running
      BY <2>1 DEF Running
    <3> QED
      BY <1>1, <2>3, <3>1, RunRemembers
  <2> QED
    BY <2>2, <2>3
<1> QED
  BY <1>1, <1>6, <1>7

\* Objects have classes that end.
LEMMA ClassKnown ==
  ASSUME NEW objs, NEW mts, ObjectsOK(objs, mts), NEW o \in DOMAIN objs \cup (1 .. Len(objs))
  PROVE  o \in DOMAIN objs /\ o \in 1 .. Len(objs) /\ Declared(objs[o].class) /\ ~ Endless(objs[o].class)
<1>1. DOMAIN objs = 1 .. Len(objs)
  BY DEF ObjectsOK
<1>2. ObjectOK(objs[o], mts[o])
  BY <1>1 DEF ObjectsOK
<1> QED
  BY <1>1, <1>2 DEF ObjectOK

LEMMA SelfCallRemembered ==
  ASSUME IInv, RInv, SelfCall
  PROVE  RInv'
<1>. DEFINE k    == Top.code.class
            code == FindMethod(Self, Stmt.method)
            m    == Stmt.method
            via  == Stmt.do
            self == Top.self
            c    == Self.class
<1>1. /\ phase = "run" /\ frames # <<>> /\ Top.pc <= Len(Body(Top.code)) /\ Stmt.do # "super" /\ Stmt.do # "set"
      /\ UNCHANGED <<compiled, objects, meant>>
      /\ \/ phase' = "aborted" /\ UNCHANGED frames
         \/ Enter(Advanced, code, self, <<>>, via, k, m)
  BY DEF SelfCall, At, Stmt
<1>2. /\ InSource /\ Unique /\ RegistryDone /\ backend \in {"aot", "jit"} /\ phase \in Running
      /\ Declared(c) /\ ~ Endless(c) /\ IsInstance(Self, c)
  BY <1>1, StatementIs
<1>3. CodeOK(code) /\ (~ Wild => code.class \in {None} \cup Guests(c))
  <2>1. CodeOK(code)
    BY <1>2, FindMethodIs
  <2>2. ~ Wild => code.class \in {None} \cup Guests(c)
    BY <1>2, FoundGuest
  <2> QED
    BY <2>1, <2>2
<1>4. Len(<<>>) = 0
  OBVIOUS
<1>5. CASE phase' = "aborted"
  <2>1. phase' \in Running /\ phase' # "run"
    BY <1>5 DEF Running
  <2> QED
    BY <1>1, <2>1, RunRemembers
<1>6. CASE Enter(Advanced, code, self, <<>>, via, k, m)
  <2>1. Len(Params(code)) \in Nat
    BY <1>2, <1>3, BodyIs
  <2>2. phase' \in {"run", "undefined", "overflow"}
    <3>. HIDE DEF code, self, k, m, via
    <3> QED
      BY <1>1, <1>4, <1>6, <2>1 DEF Enter
  <2>3. CASE phase' = "run"
    <3>2. frames' = Append(Advanced, Frame(code, self, <<>>, via, k, m))
      <4>. HIDE DEF code, self, k, m, via
      <4>1. ~ (Len(<<>>) > 3) /\ Len(<<>>) \in Nat
        BY <1>4
      <4> QED
        BY <1>6, <2>1, <2>3, <4>1, EnterIs
    <3>3. Stmt.do # "set" /\ Stmt.do # "super"
      BY <1>1
    <3>4. ~ Wild => code.class \in {None} \cup Guests(c)
      BY <1>3
    <3>. HIDE DEF code
    <3> QED
      BY <1>1, <2>3, <3>2, <3>3, <3>4, CallRemembered
  <2>4. CASE phase' # "run"
    <3>1. phase' \in Running
      BY <2>2 DEF Running
    <3> QED
      BY <1>1, <2>4, <3>1, RunRemembers
  <2> QED
    BY <2>3, <2>4
<1> QED
  BY <1>1, <1>5, <1>6

LEMMA ReturnRemembered ==
  ASSUME IInv, RInv, Return
  PROVE  RInv'
<1>. DEFINE l   == Len(frames)
            n   == l - 1
            fs2 == frames'
<1>1. /\ phase = "run" /\ frames # <<>> /\ fs2 = SubSeq(frames, 1, l - 1) /\ Top.pc > Len(Body(Top.code))
      /\ UNCHANGED <<compiled, phase, objects, meant>>
  BY DEF Return, Front
<1>2. /\ InSource /\ Unique /\ backend \in {"aot", "jit"} /\ phase \in Running
      /\ ObjectsOK(objects, meant) /\ StackOK(frames, objects)
      /\ FramesRemember(frames, objects, meant) /\ ObjectsKnown(frames, objects, meant)
  BY <1>1, RunIs DEF RInv
<1>3. frames \in Seq(ToSet(frames)) /\ l \in Nat \ {0} /\ Top = frames[l] /\ FrameOK(Top, objects)
  BY <1>1, <1>2, TopIs
<1>. HIDE DEF l, fs2
<1>4. /\ n \in Nat /\ Len(fs2) = n /\ l \in 1 .. l
      /\ \A i \in 1 .. n : fs2[i] = frames[i] /\ i \in 1 .. l /\ i \in 1 .. Len(frames) /\ i < l
  <2>1. n \in Nat /\ n \in (1 - 1) .. Len(frames) /\ 1 \in 1 .. (Len(frames) + 1) /\ l = Len(frames)
        /\ \A i \in 1 .. n : i \in 1 .. l /\ i < l
    BY <1>3 DEF l
  <2>. HIDE DEF n
  <2>2. Len(SubSeq(frames, 1, n)) = n /\ \A i \in 1 .. n : SubSeq(frames, 1, n)[i] = frames[i]
    BY <1>3, <2>1
  <2> QED
    BY <1>1, <1>3, <2>1, <2>2 DEF n
<1>. HIDE DEF n
\* The constructor that returns is done.
<1>5. ASSUME NEW o \in DOMAIN objects, NEW c, c = objects[o].class, ~ Skipped(c), NEW k, IsConstructor(Top, o, k),
             k \in ToSet(Lineage(c))
      PROVE  Settled(meant[o], k)
  <2>1. Top.self = o /\ Top.code.class = k /\ Top.code.index = 1
    BY <1>5 DEF IsConstructor
  <2>2. Progress(frames, l, c, meant[o])
    BY <1>2, <1>3, <1>4, <1>5, <2>1 DEF FramesRemember, l
  <2>3. Declared(c) /\ ~ Endless(c)
    BY <1>2, <1>5, ClassKnown
  <2>4. Top.pc \in Nat
    <3>1. CodeOK(Top.code) /\ Top.pc \in 1 .. (Len(Body(Top.code)) + 1)
      BY <1>3 DEF FrameOK
    <3>2. Len(Body(Top.code)) \in Nat
      BY <1>2, <3>1, BodyIs
    <3> QED
      BY <3>1, <3>2
  <2>5. Settled(meant[o], frames[l].code.class)
    <3>1. l = Len(frames) /\ l \in Nat
      BY <1>3 DEF l
    <3>2. frames[l].code.index = 1 /\ frames[l].code.class \in ToSet(Lineage(c)) /\ frames[l].pc \in Nat
          /\ frames[l].pc > Len(Body(frames[l].code))
      BY <1>1, <1>3, <1>5, <2>1, <2>4
    <3> QED
      BY <1>2, <1>5, <2>2, <2>3, <3>1, <3>2, Finished
  <2> QED
    BY <1>3, <2>1, <2>5
<1>6. ASSUME NEW i \in 1 .. n
      PROVE  Progress(fs2, i, objects[fs2[i].self].class, meant[fs2[i].self])
  <2>. DEFINE fr == frames[i]
              o  == fr.self
              c  == objects[o].class
              mt == meant[o]
              k  == fr.code.class
              p  == Decl(k).parent
              b  == Body(fr.code)
  <2>1. fs2[i] = fr /\ FrameOK(fr, objects) /\ Progress(frames, i, c, mt)
    BY <1>2, <1>4 DEF StackOK, FramesRemember
  <2>2. o \in DOMAIN objects /\ Declared(c) /\ ~ Endless(c)
    <3>1. o \in DOMAIN objects
      BY <2>1 DEF FrameOK
    <3> QED
      BY <1>2, <3>1, ClassKnown
  <2>3. ASSUME ~ Skipped(c), k \in ToSet(Lineage(c)), fr.code.index = 1, NEW x \in 1 .. (fr.pc - 1)
        PROVE  /\ b[x].do = "set" /\ b[x].field \in DOMAIN mt => mt[b[x].field] # <<>>
               /\ b[x].do = "super" => Settled(mt, p) \/ (i < Len(fs2) /\ IsConstructor(fs2[i + 1], o, p))
    <3>1. /\ b[x].do = "set" /\ b[x].field \in DOMAIN mt => mt[b[x].field] # <<>>
          /\ b[x].do = "super" => Settled(mt, p) \/ IsConstructor(frames[i + 1], o, p)
      BY <2>1, <2>3 DEF Progress
    <3>2. CASE i = n
      <4>1. ASSUME IsConstructor(frames[i + 1], o, p)
            PROVE  Settled(mt, p)
        <5>1. frames[i + 1] = Top
          BY <1>3, <3>2 DEF n
        <5>2. p # None /\ Top.code.class = p
          BY <4>1, <5>1 DEF IsConstructor
        <5>3. Declared(p)
          BY <1>3, <5>2 DEF FrameOK, CodeOK
        <5>4. p \in ToSet(Lineage(c))
          BY <1>2, <2>2, <2>3, <5>3, AncestorIs
        <5>. HIDE DEF o, p, fr, k
        <5> QED
          BY <1>5, <2>2, <2>3, <4>1, <5>1, <5>4
      <4>. HIDE DEF b, p, o, mt, fr
      <4> QED
        BY <3>1, <4>1
    <3>3. CASE i # n
      <4>1. i + 1 \in 1 .. n /\ i < Len(fs2)
        BY <1>4, <3>3
      <4>2. fs2[i + 1] = frames[i + 1]
        BY <1>4, <4>1
      <4>. HIDE DEF b, p, o, mt, fr
      <4> QED
        BY <3>1, <4>1, <4>2
    <3> QED
      BY <3>2, <3>3
  <2>4. Progress(fs2, i, c, mt)
    <3>. DEFINE at == fs2[i]
    <3>1. at = fr
      BY <2>1
    <3>. HIDE DEF b, p, fr, c, mt
    <3>2. ~ Skipped(c) /\ k \in ToSet(Lineage(c)) /\ fr.code.index = 1 =>
            \A x \in 1 .. (fr.pc - 1) :
              /\ b[x].do = "set" /\ b[x].field \in DOMAIN mt => mt[b[x].field] # <<>>
              /\ b[x].do = "super" => Settled(mt, p) \/ (i < Len(fs2) /\ IsConstructor(fs2[i + 1], o, p))
      BY <2>3
    <3> QED
      BY <3>1, <3>2 DEF Progress, b, p
  <2> QED
    BY <2>1, <2>4
<1>7. FramesRemember(fs2, objects, meant)
  <2>1. \A i \in 1 .. n : GuestIn(fs2[i], objects)
    BY <1>2, <1>4 DEF FramesRemember
  <2> QED
    BY <1>4, <1>6, <2>1 DEF FramesRemember
<1>8. ASSUME NEW o \in 1 .. Len(objects)
      PROVE  Remembers(objects[o], meant[o]) /\ ObjectBuilt(fs2, o, objects[o].class, meant[o])
  <2>. DEFINE c == objects[o].class
  <2>1. Remembers(objects[o], meant[o]) /\ ObjectBuilt(frames, o, c, meant[o])
    BY <1>2 DEF ObjectsKnown
  <2>2. o \in DOMAIN objects /\ Declared(c) /\ ~ Endless(c)
    BY <1>2, ClassKnown
  <2>3. ASSUME ~ Skipped(c), IsConstructor(frames[1], o, c)
        PROVE  Settled(meant[o], c) \/ (Len(fs2) > 0 /\ IsConstructor(fs2[1], o, c))
    <3>1. CASE n = 0
      <4>1. frames[1] = Top
        BY <1>3, <3>1 DEF n
      <4>2. c \in ToSet(Lineage(c))
        <5>1. Lineage(c)[1] = c /\ 1 \in DOMAIN Lineage(c)
          BY <1>2, <2>2, LineageIs DEF Chain
        <5> QED
          BY <5>1 DEF ToSet
      <4>. HIDE DEF c
      <4>3. c = objects[o].class
        BY DEF c
      <4> QED
        BY <1>5, <2>2, <2>3, <4>1, <4>2, <4>3
    <3>2. CASE n # 0
      <4>1. 1 \in 1 .. n /\ Len(fs2) > 0
        BY <1>4, <3>2
      <4>2. fs2[1] = frames[1]
        BY <1>4, <4>1
      <4> QED
        BY <2>3, <4>1, <4>2
    <3> QED
      BY <3>1, <3>2
  <2>4. ObjectBuilt(fs2, o, c, meant[o])
    <3>. HIDE DEF c
    <3> QED
      BY <2>1, <2>3 DEF ObjectBuilt
  <2> QED
    BY <2>1, <2>4
<1>9. ObjectsKnown(fs2, objects, meant)
  BY <1>8 DEF ObjectsKnown
<1> QED
  BY <1>1, <1>2, <1>7, <1>9, RunRemembers DEF fs2

-----------------------------------------------------------------------------
(* The program.                                                            *)

\* A call that the program makes is the only one.
LEMMA StartIs ==
  ASSUME NEW fr
  PROVE  Len(Append(<<>>, fr)) = 1 /\ Append(<<>>, fr)[1] = fr
OBVIOUS

LEMMA StartRemembers ==
  ASSUME NEW objs, NEW mts, NEW fr, GuestIn(fr, objs), fr.pc = 1
  PROVE  FramesRemember(Append(<<>>, fr), objs, mts)
<1>. DEFINE s == Append(<<>>, fr)
<1>1. Len(s) = 1 /\ s[1] = fr
  BY StartIs
<1>. HIDE DEF s
<1>2. 1 .. (s[1].pc - 1) = {}
  BY <1>1
<1>3. Progress(s, 1, objs[s[1].self].class, mts[s[1].self])
  BY <1>2 DEF Progress
<1>4. \A n \in 1 .. Len(s) : n = 1
  BY <1>1
<1>5. FramesRemember(s, objs, mts)
  BY <1>1, <1>3, <1>4 DEF FramesRemember
<1> QED
  BY <1>5 DEF s

LEMMA NothingCalled ==
  ASSUME NEW objs, NEW mts
  PROVE  FramesRemember(<<>>, objs, mts)
<1>1. 1 .. Len(<<>>) = {}
  OBVIOUS
<1> QED
  BY <1>1 DEF FramesRemember

\* Between calls, objects are constructed.
LEMMA IdleIs ==
  ASSUME NEW o, NEW c, NEW mt, ObjectBuilt(<<>>, o, c, mt), NEW frs
  PROVE  ObjectBuilt(frs, o, c, mt)
<1>1. ~ (Len(<<>>) > 0)
  OBVIOUS
<1> QED
  BY <1>1 DEF ObjectBuilt

LEMMA CallFromProgramRemembered ==
  ASSUME IInv, RInv, NEW o \in DOMAIN objects, NEW v \in Variables, NEW m \in Calls, Call(o, v, m)
  PROVE  RInv'
<1>. DEFINE direct == Namesake(v, m)
            found  == FindMethod(objects[o], m)
            c      == objects[o].class
<1>1. /\ phase = "run" /\ frames = <<>> /\ UNCHANGED <<compiled, objects, meant>>
      /\ \/ Enter(<<>>, direct, o, <<>>, "namesake", c, m)
         \/ phase' = "aborted" /\ UNCHANGED frames
         \/ Enter(<<>>, found, o, <<>>, "call", c, m)
  BY DEF Call, Idle
<1>2. /\ InSource /\ Unique /\ RegistryDone /\ backend \in {"aot", "jit"} /\ phase \in Running
      /\ ObjectsOK(objects, meant)
      /\ FramesRemember(frames, objects, meant) /\ ObjectsKnown(frames, objects, meant)
  BY <1>1, RunIs DEF RInv
<1>3. Declared(c) /\ ~ Endless(c) /\ IsInstance(objects[o], c)
  <2>1. ObjectOK(objects[o], meant[o])
    BY <1>2 DEF ObjectsOK
  <2> QED
    BY <2>1 DEF ObjectOK
<1>4. \A frs : ObjectsKnown(frs, objects, meant)
  BY <1>1, <1>2, IdleIs DEF ObjectsKnown
<1>5. ASSUME NEW code, CodeOK(code), ~ Wild => code.class \in {None} \cup Guests(c), NEW via,
             Enter(<<>>, code, o, <<>>, via, c, m)
      PROVE  RInv'
  <2>1. Len(Params(code)) \in Nat
    BY <1>2, <1>5, BodyIs
  <2>2. Len(<<>>) = 0
    OBVIOUS
  <2>3. phase' \in {"run", "undefined", "overflow"}
    <3>. HIDE DEF c
    <3> QED
      BY <1>1, <1>5, <2>1, <2>2 DEF Enter
  <2>4. CASE phase' = "run"
    <3>. DEFINE fr == Frame(code, o, <<>>, via, c, m)
    <3>1. frames' = Append(<<>>, fr)
      <4>1. ~ (Len(<<>>) > 3) /\ Len(<<>>) \in Nat
        BY <2>2
      <4>. HIDE DEF c
      <4> QED
        BY <1>5, <2>1, <2>4, <4>1, EnterIs
    <3>2. fr.self = o /\ fr.code = code /\ fr.pc = 1 /\ DOMAIN fr.locals = ToSet(Params(code))
      BY DEF Frame
    <3>. HIDE DEF fr
    <3>3. GuestIn(fr, objects)
      BY <1>5, <3>2 DEF GuestIn
    <3>4. FramesRemember(frames', objects', meant') /\ ObjectsKnown(frames', objects', meant')
      BY <1>1, <1>4, <3>1, <3>2, <3>3, StartRemembers
    <3>5. phase' \in Running
      BY <2>4 DEF Running
    <3> QED
      BY <1>1, <3>4, <3>5, RunRemembers
  <2>5. CASE phase' # "run"
    <3>1. phase' \in Running
      BY <2>3 DEF Running
    <3> QED
      BY <1>1, <2>5, <3>1, RunRemembers
  <2> QED
    BY <2>4, <2>5
<1>6. CASE Enter(<<>>, direct, o, <<>>, "namesake", c, m)
  <2>1. CodeOK(direct) /\ (~ Wild => direct.class \in {None} \cup Guests(c))
    BY <1>2, <1>3, NamesakeOK, NamesakeGuest
  <2>. HIDE DEF direct, c
  <2> QED
    BY <1>5, <1>6, <2>1
<1>7. CASE Enter(<<>>, found, o, <<>>, "call", c, m)
  <2>1. CodeOK(found)
    BY <1>2, <1>3, FindMethodIs
  <2>2. ~ Wild => found.class \in {None} \cup Guests(c)
    BY <1>2, <1>3, FoundGuest
  <2>. HIDE DEF found, c
  <2> QED
    BY <1>5, <1>7, <2>1, <2>2
<1>8. CASE phase' = "aborted" /\ UNCHANGED frames
  <2>1. phase' \in Running /\ phase' # "run"
    BY <1>8 DEF Running
  <2> QED
    BY <1>1, <2>1, RunRemembers
<1> QED
  BY <1>1, <1>6, <1>7, <1>8

LEMMA WriteRemembered ==
  ASSUME IInv, RInv, NEW o \in DOMAIN objects, NEW f, Write(o, f)
  PROVE  RInv'
<1>1. /\ phase = "run" /\ frames = <<>> /\ UNCHANGED <<compiled, phase, frames>>
      /\ objects' = [objects EXCEPT ![o] = SetField(objects[o], f, Plain)]
      /\ meant' = IF f \in DOMAIN meant[o] THEN [meant EXCEPT ![o][f] = <<Plain>>] ELSE meant
  BY DEF Write, Idle, MeanField
<1>2. /\ phase \in Running /\ ObjectsOK(objects, meant) /\ ObjectsKnown(frames, objects, meant)
      /\ \A k \in 1 .. Len(objects) : Remembers(objects[k], meant[k])
  BY <1>1, RunIs DEF RInv, ObjectsKnown
<1>3. objects' = Assigned(objects, o, f, Plain) /\ meant' = Said(meant, o, f, <<Plain>>)
  BY <1>1 DEF Assigned, Said, Put
<1>4. CanSet(objects, meant, o, f, Plain, Plain)
  BY <1>2 DEF CanSet
<1>5. WasSet(objects, objects', meant, meant', o, f)
  BY <1>3, <1>4, SetRemembers
<1>. DEFINE fs2 == frames'
            os2 == objects'
            ms2 == meant'
<1>6. fs2 = <<>> /\ WasSet(objects, os2, meant, ms2, o, f)
  BY <1>1, <1>5
<1>. HIDE DEF fs2, os2, ms2
<1>7. ASSUME NEW k \in 1 .. Len(objects)
      PROVE  Remembers(os2[k], ms2[k]) /\ ObjectBuilt(fs2, k, os2[k].class, ms2[k])
  <2>1. k \in DOMAIN objects
    BY <1>2 DEF ObjectsOK
  <2>2. Remembers(os2[k], ms2[k]) /\ os2[k].class = objects[k].class /\ Grown(meant[k], ms2[k])
    BY <1>6, <2>1 DEF WasSet, AllGrown
  <2>3. ObjectBuilt(<<>>, k, objects[k].class, meant[k])
    BY <1>1, <1>2 DEF ObjectsKnown
  <2>4. ~ (Len(<<>>) > 0)
    OBVIOUS
  <2>5. ObjectBuilt(fs2, k, objects[k].class, ms2[k])
    BY <2>2, <2>3, <2>4, SettledGrows DEF ObjectBuilt
  <2> QED
    BY <2>2, <2>5
<1>8. FramesRemember(fs2, os2, ms2) /\ ObjectsKnown(fs2, os2, ms2)
  BY <1>6, <1>7, NothingCalled DEF ObjectsKnown, WasSet
<1>9. phase' \in Running
  BY <1>1, <1>2
<1> QED
  BY <1>1, <1>8, <1>9, RunRemembers DEF fs2, os2, ms2

\* A new object has nothing in its fields, and nothing is meant to be in them.
LEMMA NewRemembers ==
  ASSUME InSource, RegistryDone, backend \in {"aot", "jit"}, NEW c, Declared(c), ~ Endless(c),
         NEW mt, mt = [f \in ToSet(AllFields(c)) |-> <<>>]
  PROVE  Remembers(Instance(c), mt)
<1>. DEFINE fs == ParentsFirst(Definitions(c), LAMBDA k : k.fields)
            ss == [i \in DOMAIN fs |-> [name |-> fs[i], value |-> Nil]]
            o  == Instance(c)
<1>1. o.slots = ss
  BY DEF Instance
<1>2. SlotsOK(o.slots, DOMAIN mt)
  BY InstanceIs DEF ObjectOK
<1>3. fs \in Seq(FieldNames)
  BY InstanceFields
<1>. HIDE DEF fs, o
<1>4. DOMAIN ss = 1 .. Len(fs) /\ Len(fs) \in Nat /\ \A i \in 1 .. Len(fs) : ss[i].value = Nil
  BY <1>3
<1>. HIDE DEF ss
<1>5. ss \in Seq(ToSet(ss)) /\ Len(ss) = Len(fs)
  BY <1>1, <1>2, <1>4 DEF SlotsOK
<1>6. ASSUME NEW f \in DOMAIN mt
      PROVE  ContentIn(o, f) = MeantIn(mt, f)
  <2>1. \E i \in 1 .. Len(ss) : ss[i].name = f
    BY <1>1, <1>2 DEF SlotsOK
  <2>2. Named(ss, f) \in 0 .. Len(ss) /\ (Named(ss, f) = 0 <=> \A i \in 1 .. Len(ss) : ss[i].name # f)
    BY <1>5, NamedIs
  <2>3. Named(ss, f) \in 1 .. Len(fs)
    BY <1>4, <1>5, <2>1, <2>2
  <2>4. mt[f] = <<>>
    OBVIOUS
  <2> QED
    BY <1>1, <1>4, <2>3, <2>4 DEF ContentIn, MeantIn
<1> QED
  BY <1>6 DEF Remembers, o

LEMMA ConstructRemembered ==
  ASSUME IInv, RInv, NEW c, Declared(c), Construct(c)
  PROVE  RInv'
<1>. DEFINE code == FindMethod(Instance(c), InitName)
            args == SubSeq(Arguments, 1, Len(Params(Code(c, 1))))
            mt   == [f \in ToSet(AllFields(c)) |-> <<>>]
            new  == Instance(c)
            self == Len(objects) + 1
            os2  == objects'
            ms2  == meant'
            fs2  == frames'
<1>1. /\ phase = "run" /\ frames = <<>> /\ ~ Endless(c) /\ Len(objects) < MaxObjects
      /\ Enter(<<>>, code, self, args, "new", c, InitName)
      /\ os2 = Append(objects, new) /\ ms2 = Append(meant, mt) /\ UNCHANGED compiled
  BY DEF Construct, Idle
<1>2. /\ InSource /\ Unique /\ RegistryDone /\ backend \in {"aot", "jit"} /\ phase \in Running
      /\ ObjectsOK(objects, meant) /\ ObjectsKnown(frames, objects, meant)
  BY <1>1, RunIs DEF RInv
<1>3. IsInstance(new, c) /\ new.class = c /\ Remembers(new, mt)
  <2>1. new.class = c
    BY DEF Instance
  <2>2. ObjectOK(new, mt)
    BY <1>1, <1>2, InstanceIs
  <2>3. Remembers(new, mt)
    <3>. HIDE DEF new, mt
    <3>1. mt = [f \in ToSet(AllFields(c)) |-> <<>>] /\ new = Instance(c)
      BY DEF mt, new
    <3> QED
      BY <1>1, <1>2, <3>1, NewRemembers
  <2>. HIDE DEF new, mt
  <2> QED
    BY <2>1, <2>2, <2>3 DEF ObjectOK
<1>4. /\ CodeOK(code) /\ (~ Wild => code.class \in {None} \cup Guests(c))
      /\ ~ Skipped(c) => c # None /\ code.class = c /\ code.index = 1
  <2>1. Named(Decl(c).methods, InitName) = 1 /\ c # None
    BY <1>2, MethodsAre, DeclIs
  <2>2. CodeOK(code) /\ code = Linked(c).methods[1].code
    <3>. DEFINE o == new
    <3>1. IsInstance(o, c)
      BY <1>3
    <3>2. code = FindMethod(o, InitName)
      OBVIOUS
    <3>. HIDE DEF o, code, new
    <3>3. CodeOK(FindMethod(o, InitName))
      BY <1>1, <1>2, <3>1, FindMethodIs
    <3>4. FindMethod(o, InitName) = Linked(c).methods[1].code
      BY <1>1, <1>2, <2>1, <3>1, FindMethodIs
    <3> QED
      BY <3>2, <3>3, <3>4
  <2>3. ~ Wild => code.class \in {None} \cup Guests(c)
    <3>. DEFINE o == new
    <3>1. IsInstance(o, c)
      BY <1>3
    <3>2. code = FindMethod(o, InitName)
      OBVIOUS
    <3>. HIDE DEF o, code, new
    <3> QED
      BY <1>1, <1>2, <3>1, <3>2, FoundGuest
  <2>4. ASSUME ~ Skipped(c)
        PROVE  Linked(c).methods[1].code = Code(c, 1)
    <3>1. c \in ToSet(Lineage(c))
      <4>1. Lineage(c)[1] = c /\ 1 \in DOMAIN Lineage(c)
        BY <1>2, LineageIs DEF Chain
      <4> QED
        BY <4>1 DEF ToSet
    <3>2. Code(c, 1).class = c /\ Code(c, 1).index = 1
      BY DEF Code
    <3> QED
      BY <1>1, <1>2, <2>4, <3>1, <3>2, ConstructorBody
  <2>. HIDE DEF code
  <2> QED
    BY <2>1, <2>2, <2>3, <2>4 DEF Code
<1>5. Len(args) = Len(Params(Code(c, 1))) /\ Len(args) \in Nat
  <2>1. CodeOK(Code(c, 1))
    <3>1. 1 \in DOMAIN Decl(c).methods
      BY <1>2, MethodsAre
    <3> QED
      BY <3>1 DEF CodeOK, Code
  <2>2. Len(Params(Code(c, 1))) \in Nat
    BY <1>2, <2>1, BodyIs
  <2>. DEFINE n == Len(Params(Code(c, 1)))
  <2>. HIDE DEF n
  <2>3. n \in Nat
    BY <2>2 DEF n
  <2>4. Len(SubSeq(Arguments, 1, n)) = n
    BY <2>3
  <2> QED
    BY <2>3, <2>4 DEF n
<1>. HIDE DEF code, args, mt, new, os2, ms2, fs2
<1>6. /\ Len(os2) = self /\ self \in Nat \ {0} /\ os2[self] = new /\ ms2[self] = mt /\ self \in DOMAIN os2
      /\ \A k \in 1 .. Len(objects) : k # self /\ os2[k] = objects[k] /\ ms2[k] = meant[k]
      /\ \A k \in 1 .. self : k = self \/ k \in 1 .. Len(objects)
  <2>1. objects \in Seq(ToSet(objects)) /\ meant \in Seq(ToSet(meant)) /\ Len(objects) \in Nat /\ Len(meant) = Len(objects)
    BY <1>2 DEF ObjectsOK
  <2>2. /\ Len(os2) = self /\ DOMAIN os2 = 1 .. self /\ \A k \in 1 .. self : os2[k] = IF k = self THEN new ELSE objects[k]
    BY <1>1, <2>1, AppendIs
  <2>3. \A k \in 1 .. self : ms2[k] = IF k = self THEN mt ELSE meant[k]
    BY <1>1, <2>1, AppendIs
  <2>4. self \in 1 .. self /\ self \in Nat \ {0} /\ (\A k \in 1 .. Len(objects) : k \in 1 .. self /\ k # self)
        /\ \A k \in 1 .. self : k = self \/ k \in 1 .. Len(objects)
    BY <2>1
  <2>. HIDE DEF self
  <2> QED
    BY <2>2, <2>3, <2>4
<1>. HIDE DEF self
<1>7. Len(Params(code)) \in Nat
  BY <1>2, <1>4, BodyIs
<1>8. phase' \in {"run", "undefined", "overflow"}
  BY <1>1, <1>5, <1>7 DEF Enter
<1>9. CASE phase' = "run"
  <2>. DEFINE fr == Frame(code, self, args, "new", c, InitName)
  <2>1. \/ Len(args) > 3 /\ fs2 = <<>>
        \/ fs2 = Append(<<>>, fr)
    BY <1>1, <1>5, <1>7, <1>9, EnterIs DEF fs2
  <2>2. fr.self = self /\ fr.code = code /\ fr.pc = 1 /\ fr.asked = InitName /\ DOMAIN fr.locals = ToSet(Params(code))
    BY DEF Frame
  <2>. HIDE DEF fr
  <2>3. GuestIn(fr, os2)
    BY <1>3, <1>4, <1>6, <2>2 DEF GuestIn
  <2>4. FramesRemember(fs2, os2, ms2)
    BY <2>1, <2>2, <2>3, StartRemembers, NothingCalled
  <2>5. ObjectBuilt(fs2, self, c, mt)
    <3>1. CASE Len(args) > 3
      <4>1. Skipped(c)
        BY <1>5, <3>1 DEF Skipped
      <4> QED
        BY <4>1 DEF ObjectBuilt
    <3>2. CASE fs2 = Append(<<>>, fr)
      <4>1. Len(fs2) = 1 /\ fs2[1] = fr
        BY <3>2, StartIs
      <4> QED
        BY <1>4, <2>2, <4>1 DEF ObjectBuilt, IsConstructor
    <3> QED
      BY <2>1, <3>1, <3>2
  <2>6. ASSUME NEW k \in 1 .. Len(objects)
        PROVE  Remembers(objects[k], meant[k]) /\ ObjectBuilt(fs2, k, objects[k].class, meant[k])
    BY <1>1, <1>2, IdleIs DEF ObjectsKnown
  <2>7. ObjectsKnown(fs2, os2, ms2)
    BY <1>3, <1>6, <2>5, <2>6 DEF ObjectsKnown
  <2>8. phase' \in Running
    BY <1>9 DEF Running
  <2> QED
    BY <1>1, <2>4, <2>7, <2>8, RunRemembers DEF os2, ms2, fs2
<1>10. CASE phase' # "run"
  <2>1. phase' \in Running
    BY <1>8 DEF Running
  <2> QED
    BY <1>1, <1>10, <2>1, RunRemembers
<1> QED
  BY <1>9, <1>10

\* Until the program runs, there is nothing to remember.
LEMMA NothingToRemember ==
  ASSUME frames' = <<>>, objects' = <<>>, Links'
  PROVE  RInv'
<1>1. 1 .. Len(<<>>) = {}
  OBVIOUS
<1> QED
  BY <1>1 DEF RInv, FramesRemember, ObjectsKnown

-----------------------------------------------------------------------------
(* The theorem about fields.                                               *)

LEMMA StartupRemembered ==
  ASSUME IInv, RInv, Compile \/ Refuse \/ Register \/ Hang \/ Resolve
  PROVE  RInv'
<1>1. Static
  BY DEF Compile, Refuse, Register, Hang, Resolve, Static, compiled
<1>2. Links' = Links
  BY <1>1, GuestsStay
<1>3. CASE Compile
  <2>1. phase' = "register" /\ Links
    BY <1>3 DEF Compile, Compiles
  <2> QED
    BY <1>2, <2>1 DEF RInv
<1>4. CASE Refuse \/ Hang
  <2>1. phase' \notin {"register", "run"}
    BY <1>4 DEF Refuse, Hang
  <2> QED
    BY <2>1 DEF RInv
<1>5. CASE Register
  <2>1. phase' = "register" /\ Links
    BY <1>5 DEF Register, RInv
  <2> QED
    BY <1>2, <2>1 DEF RInv
<1>6. CASE Resolve
  <2>1. phase = "register" /\ frames' = frames /\ objects' = objects
    BY <1>6 DEF Resolve
  <2>2. frames = <<>> /\ objects = <<>> /\ Links
    BY <2>1 DEF IInv, RInv, Running
  <2> QED
    BY <1>2, <2>1, <2>2, NothingToRemember
<1> QED
  BY <1>3, <1>4, <1>5, <1>6

LEMMA EndRemembered ==
  ASSUME RInv, Unreadable \/ Exit
  PROVE  RInv'
<1>1. phase' \in {"aborted", "done"}
  BY DEF Unreadable, Exit, Idle
<1> QED
  BY <1>1 DEF RInv

LEMMA StutterRemembered ==
  ASSUME RInv, UNCHANGED vars
  PROVE  RInv'
<1>1. UNCHANGED <<compiled, phase, objects, frames, meant>> /\ Static
  BY DEF vars, compiled, Static
<1>2. Links' = Links
  BY <1>1, GuestsStay
<1>3. /\ FramesRemember(frames, objects, meant)' = FramesRemember(frames', objects', meant')
      /\ ObjectsKnown(frames, objects, meant)' = ObjectsKnown(frames', objects', meant')
  BY <1>1, RInvStays
<1> QED
  BY <1>1, <1>2, <1>3 DEF RInv

LEMMA StepRemembers == IInv /\ RInv /\ [Next]_vars => RInv'
<1>1. SUFFICES ASSUME IInv, RInv, [Next]_vars PROVE RInv'
  OBVIOUS
<1>2. CASE Compile \/ Refuse \/ Register \/ Hang \/ Resolve
  BY <1>1, <1>2, StartupRemembered
<1>3. CASE \E i \in DOMAIN Classes : Construct(Classes[i].name)
  <2>1. PICK i \in DOMAIN Classes : Construct(Classes[i].name)
    BY <1>3
  <2>2. Declared(Classes[i].name)
    BY DEF Declared
  <2> QED
    BY <1>1, <2>1, <2>2, ConstructRemembered
<1>4. CASE \E o \in DOMAIN objects, v \in Variables, m \in Calls : Call(o, v, m)
  BY <1>1, <1>4, CallFromProgramRemembered
<1>5. CASE \E o \in DOMAIN objects : \E f \in UNION {DOMAIN meant[k] : k \in DOMAIN meant} : Write(o, f)
  BY <1>1, <1>5, WriteRemembered
<1>6. CASE Set
  BY <1>1, <1>6, SetRemembered
<1>7. CASE Bare
  BY <1>1, <1>7, BareRemembered
<1>8. CASE SuperInit
  BY <1>1, <1>8, SuperInitRemembered
<1>9. CASE SelfCall
  BY <1>1, <1>9, SelfCallRemembered
<1>10. CASE Unreadable \/ Exit
  BY <1>1, <1>10, EndRemembered
<1>11. CASE Return
  BY <1>1, <1>11, ReturnRemembered
<1>12. CASE Ended \/ UNCHANGED vars
  BY <1>1, <1>12, StutterRemembered DEF Ended
<1> QED
  BY <1>1, <1>2, <1>3, <1>4, <1>5, <1>6, <1>7, <1>8, <1>9, <1>10, <1>11, <1>12 DEF Next

LEMMA RemembersIs ==
  ASSUME IInv, RInv
  PROVE  ObjectsRemember
<1>1. SUFFICES ASSUME phase = "run", NEW o \in DOMAIN objects, NEW f \in DOMAIN meant[o]
               PROVE  LET c == objects[o].class
                      IN  /\ Content(o, f) = MeantContent(o, f) \/ BareWrites(c)
                          /\ Constructed(o) /\ f \in Assigns(c) => meant[o][f] # <<>> \/ Skipped(c)
  BY DEF ObjectsRemember
<1>. DEFINE c == objects[o].class
<1>2. ObjectsOK(objects, meant) /\ StackOK(frames, objects) /\ ObjectsKnown(frames, objects, meant)
  BY <1>1, RunIs DEF RInv
<1>3. Remembers(objects[o], meant[o]) /\ ObjectBuilt(frames, o, c, meant[o])
  BY <1>2 DEF ObjectsKnown, ObjectsOK
<1>4. Content(o, f) = MeantContent(o, f) \/ BareWrites(c)
  BY <1>3 DEF Remembers, Content, ContentIn, MeantContent, MeantIn
<1>5. ASSUME Constructed(o), f \in Assigns(c), ~ Skipped(c)
      PROVE  meant[o][f] # <<>>
  <2>1. CASE Settled(meant[o], c)
    BY <1>5, <2>1 DEF Settled
  <2>2. CASE Len(frames) > 0 /\ IsConstructor(frames[1], o, c)
    <3>1. 1 \in DOMAIN frames
      BY <1>2, <2>2 DEF StackOK
    <3> QED
      BY <1>5, <2>2, <3>1 DEF Constructed, IsConstructor
  <2> QED
    BY <1>3, <1>5, <2>1, <2>2 DEF ObjectBuilt
<1> QED
  BY <1>4, <1>5

\* Whatever the classes are, an object has in every field what was last assigned to it,
\* and a constructed one has been given every field that its constructors assign.
THEOREM ObjectsRememberHolds == Spec => []ObjectsRemember
<1>1. Init => IInv /\ RInv
  <2>1. Init => IInv
    BY InitHolds
  <2>2. Init => RInv
    BY DEF Init, RInv
  <2> QED
    BY <2>1, <2>2
<1>2. IInv /\ RInv /\ [Next]_vars => (IInv /\ RInv)'
  BY StepKeeps, StepRemembers
<1>3. IInv /\ RInv => ObjectsRemember
  BY RemembersIs
<1> QED
  BY <1>1, <1>2, <1>3, PTL DEF Spec
===============================================================================
