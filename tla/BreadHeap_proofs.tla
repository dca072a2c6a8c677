--------------------------- MODULE BreadHeap_proofs ---------------------------
(***************************************************************************)
(* Proofs about BreadHeap, for any finite sets of objects, variables and   *)
(* temporaries.  A heap owes each object as many references as variables,  *)
(* temporaries, C pointers and losses account for; each primitive on heaps *)
(* (retain, release, putting a reference into a container and taking one   *)
(* out) changes what is owed by one, and every operation is a sequence of  *)
(* these primitives that ends with what the slots and pointers account for.*)
(***************************************************************************)
EXTENDS BreadHeap, FiniteSetTheorems, SequenceTheorems, WellFoundedInduction, TLAPS

Contents == [Objs -> Seq(Objs \cup {None})]

-----------------------------------------------------------------------------
(* Counting references.                                                    *)

LEMMA ReferencesAre ==
  ASSUME NEW o, NEW H, NEW c, NEW r
  PROVE  r \in References(o, H, c) <=>
           \E h \in H : \E i \in DOMAIN c[h] : r = <<h, i>> /\ c[h][i] = o
<1>1. ASSUME r \in References(o, H, c)
      PROVE  \E h \in H : \E i \in DOMAIN c[h] : r = <<h, i>> /\ c[h][i] = o
  <2>1. PICK h \in H : r \in {h} \X DOMAIN c[h]
    BY <1>1 DEF References
  <2>2. PICK i \in DOMAIN c[h] : r = <<h, i>>
    BY <2>1
  <2> QED
    BY <1>1, <2>2 DEF References
<1>2. ASSUME NEW h \in H, NEW i \in DOMAIN c[h], r = <<h, i>>, c[h][i] = o
      PROVE  r \in References(o, H, c)
  BY <1>2 DEF References
<1> QED
  BY <1>1, <1>2

LEMMA ReferencesFinite ==
  ASSUME NEW o, NEW H, H \subseteq Objs, NEW c \in Contents
  PROVE  IsFiniteSet(References(o, H, c)) /\ HeldBy(o, H, c) \in Nat
<1> DEFINE places == [h \in H |-> {h} \X DOMAIN c[h]]
           all    == {places[h] : h \in H}
<1>1. IsFiniteSet(H)
  BY HeapAssumption, FS_Subset DEF HeapAssumption
<1>2. places \in Surjection(H, all)
  BY DEF Surjection
<1>3. IsFiniteSet(all)
  <2> HIDE DEF places, all
  <2> QED
    BY <1>1, <1>2, FS_Surjection
<1>4. \A T \in all : IsFiniteSet(T)
  <2>1. SUFFICES ASSUME NEW h \in H PROVE IsFiniteSet({h} \X DOMAIN c[h])
    OBVIOUS
  <2>2. c[h] \in Seq(Objs \cup {None})
    BY DEF Contents
  <2>3. DOMAIN c[h] = 1 .. Len(c[h]) /\ Len(c[h]) \in Nat
    BY <2>2
  <2>4. IsFiniteSet(DOMAIN c[h])
    BY <2>3, FS_Interval
  <2> QED
    BY <2>4, FS_Product, FS_Singleton
<1>5. IsFiniteSet(UNION all)
  <2> HIDE DEF all
  <2> QED
    BY <1>3, <1>4, FS_UNION
<1>6. References(o, H, c) \subseteq UNION all
  <2>1. SUFFICES ASSUME NEW r \in References(o, H, c) PROVE r \in UNION all
    OBVIOUS
  <2>2. PICK h \in H : \E i \in DOMAIN c[h] : r = <<h, i>> /\ c[h][i] = o
    BY ReferencesAre
  <2>3. r \in places[h] /\ places[h] \in all
    BY <2>2
  <2> QED
    BY <2>3
<1>7. IsFiniteSet(References(o, H, c))
  <2> HIDE DEF all
  <2> QED
    BY <1>5, <1>6, FS_Subset
<1> QED
  BY <1>7, FS_CardinalityType DEF HeldBy

\* Equal references of the holders count the same.
LEMMA HeldByAgree ==
  ASSUME NEW o, NEW H, NEW c, NEW d, \A h \in H : c[h] = d[h]
  PROVE  HeldBy(o, H, c) = HeldBy(o, H, d)
<1>1. \A r : r \in References(o, H, c) <=> r \in References(o, H, d)
  BY ReferencesAre
<1>2. References(o, H, c) = References(o, H, d)
  BY <1>1
<1> QED
  BY <1>2 DEF HeldBy

\* Two groups of holders hold together what each of them holds.
LEMMA HeldBySplit ==
  ASSUME NEW o, NEW A, A \subseteq Objs, NEW B, B \subseteq Objs, A \cap B = {}, NEW c \in Contents
  PROVE  HeldBy(o, A \cup B, c) = HeldBy(o, A, c) + HeldBy(o, B, c)
<1>1. References(o, A \cup B, c) = References(o, A, c) \cup References(o, B, c)
  <2>1. \A r : r \in References(o, A \cup B, c) <=>
                 r \in References(o, A, c) \/ r \in References(o, B, c)
    BY ReferencesAre
  <2> QED
    BY <2>1
<1>2. References(o, A, c) \cap References(o, B, c) = {}
  <2>1. SUFFICES ASSUME NEW r, r \in References(o, A, c), r \in References(o, B, c) PROVE FALSE
    OBVIOUS
  <2>2. PICK a \in A : \E i \in DOMAIN c[a] : r = <<a, i>>
    BY <2>1, ReferencesAre
  <2>3. PICK b \in B : \E i \in DOMAIN c[b] : r = <<b, i>>
    BY <2>1, ReferencesAre
  <2> QED
    BY <2>2, <2>3
<1>3. IsFiniteSet(References(o, A, c)) /\ IsFiniteSet(References(o, B, c))
  BY ReferencesFinite
<1>4. Cardinality(References(o, A, c)) \in Nat /\ Cardinality(References(o, B, c)) \in Nat
  BY <1>3, FS_CardinalityType
<1>5. Cardinality(References(o, A, c) \cup References(o, B, c))
        = Cardinality(References(o, A, c)) + Cardinality(References(o, B, c)) - Cardinality({})
  BY <1>2, <1>3, FS_Union
<1>6. Cardinality({}) = 0
  BY FS_EmptySet
<1>7. HeldBy(o, A \cup B, c) = Cardinality(References(o, A, c) \cup References(o, B, c))
  BY <1>1 DEF HeldBy
<1> QED
  BY <1>4, <1>5, <1>6, <1>7 DEF HeldBy

LEMMA HeldByMore ==
  ASSUME NEW o, NEW A, NEW B, A \subseteq B, B \subseteq Objs, NEW c \in Contents
  PROVE  HeldBy(o, A, c) <= HeldBy(o, B, c)
<1>1. HeldBy(o, A \cup (B \ A), c) = HeldBy(o, A, c) + HeldBy(o, B \ A, c)
  BY HeldBySplit
<1>2. HeldBy(o, A, c) \in Nat /\ HeldBy(o, B \ A, c) \in Nat
  BY ReferencesFinite
<1>3. A \cup (B \ A) = B
  OBVIOUS
<1>4. HeldBy(o, B, c) = HeldBy(o, A \cup (B \ A), c)
  BY <1>3, Zenon
<1> QED
  BY <1>1, <1>2, <1>4

\* Something that holds a reference to o is counted.
LEMMA HeldByHolder ==
  ASSUME NEW o, NEW H, H \subseteq Objs, NEW c \in Contents, NEW h \in H, o \in ToSet(c[h])
  PROVE  HeldBy(o, H, c) > 0
<1>1. PICK i \in DOMAIN c[h] : c[h][i] = o
  BY DEF ToSet
<1>2. <<h, i>> \in References(o, H, c)
  BY <1>1, ReferencesAre
<1>3. IsFiniteSet(References(o, H, c)) /\ HeldBy(o, H, c) \in Nat
  BY ReferencesFinite
<1> QED
  BY <1>2, <1>3, FS_EmptySet DEF HeldBy

\* Conversely, somebody holds what is counted.
LEMMA HolderOf ==
  ASSUME NEW o, NEW H, H \subseteq Objs, NEW c \in Contents, HeldBy(o, H, c) > 0
  PROVE  \E h \in H : o \in ToSet(c[h])
<1>1. References(o, H, c) # {}
  BY ReferencesFinite, FS_EmptySet DEF HeldBy
<1>2. PICK r \in References(o, H, c) : TRUE
  BY <1>1
<1> QED
  BY <1>2, ReferencesAre DEF ToSet

LEMMA HeldByNone ==
  ASSUME NEW o, NEW H, H \subseteq Objs, NEW c \in Contents, \A h \in H : c[h] = <<>>
  PROVE  HeldBy(o, H, c) = 0
<1>1. \A h \in H : DOMAIN c[h] = {}
  OBVIOUS
<1>2. References(o, H, c) = {}
  <2>1. \A r : ~(r \in References(o, H, c))
    BY <1>1, ReferencesAre
  <2> QED
    BY <2>1
<1> QED
  BY <1>2, FS_EmptySet DEF HeldBy

-----------------------------------------------------------------------------
(* What changing one container does to the counts.                         *)

\* d is c but for place i of container h.
SameBut(c, d, h, i) ==
  /\ \A k \in Objs \ {h} : d[k] = c[k]
  /\ DOMAIN d[h] = DOMAIN c[h]
  /\ \A j \in DOMAIN c[h] \ {i} : d[h][j] = c[h][j]

LEMMA OnePlace ==
  ASSUME NEW c \in Contents, NEW h \in Objs, NEW i \in DOMAIN c[h], NEW e \in Objs \cup {None}
  PROVE  /\ [c EXCEPT ![h] = [@ EXCEPT ![i] = e]] \in Contents
         /\ [c EXCEPT ![h] = [@ EXCEPT ![i] = e]][h][i] = e
         /\ SameBut(c, [c EXCEPT ![h] = [@ EXCEPT ![i] = e]], h, i)
<1>1. c[h] \in Seq(Objs \cup {None})
  BY DEF Contents
<1>2. i \in 1 .. Len(c[h])
  BY <1>1
<1>3. [c[h] EXCEPT ![i] = e] \in Seq(Objs \cup {None})
  BY <1>1, <1>2, ExceptSeq
<1>4. /\ DOMAIN [c[h] EXCEPT ![i] = e] = DOMAIN c[h]
      /\ [c[h] EXCEPT ![i] = e][i] = e
      /\ \A j \in DOMAIN c[h] \ {i} : [c[h] EXCEPT ![i] = e][j] = c[h][j]
  OBVIOUS
<1> QED
  BY <1>3, <1>4 DEF Contents, SameBut

\* An element is taken out and its place stays empty.
LEMMA CountHole ==
  ASSUME NEW c \in Contents, NEW H, H \subseteq Objs, NEW h \in H, NEW i \in DOMAIN c[h],
         NEW d \in Contents, SameBut(c, d, h, i), d[h][i] = None, NEW x \in Objs
  PROVE  HeldBy(x, H, c) = HeldBy(x, H, d) + (IF x = c[h][i] THEN 1 ELSE 0)
<1>1. x # None
  BY HeapAssumption DEF HeapAssumption
<1>2. ASSUME NEW k \in H, NEW j, ~(k = h /\ j = i)
      PROVE  j \in DOMAIN d[k] /\ d[k][j] = x <=> j \in DOMAIN c[k] /\ c[k][j] = x
  BY <1>2 DEF SameBut
<1>3. References(x, H, d) = References(x, H, c) \ {<<h, i>>}
  <2>1. ASSUME NEW r \in References(x, H, d)
        PROVE  r \in References(x, H, c) \ {<<h, i>>}
    <3>1. PICK k \in H : \E j \in DOMAIN d[k] : r = <<k, j>> /\ d[k][j] = x
      BY ReferencesAre
    <3>2. PICK j \in DOMAIN d[k] : r = <<k, j>> /\ d[k][j] = x
      BY <3>1
    <3>3. ~(k = h /\ j = i)
      BY <1>1, <3>2
    <3>4. j \in DOMAIN c[k] /\ c[k][j] = x
      BY <1>2, <3>2, <3>3
    <3>5. r # <<h, i>>
      BY <3>2, <3>3
    <3> QED
      BY <3>2, <3>4, <3>5, ReferencesAre
  <2>2. ASSUME NEW r \in References(x, H, c), r # <<h, i>>
        PROVE  r \in References(x, H, d)
    <3>1. PICK k \in H : \E j \in DOMAIN c[k] : r = <<k, j>> /\ c[k][j] = x
      BY ReferencesAre
    <3>2. PICK j \in DOMAIN c[k] : r = <<k, j>> /\ c[k][j] = x
      BY <3>1
    <3>3. ~(k = h /\ j = i)
      BY <2>2, <3>2
    <3>4. j \in DOMAIN d[k] /\ d[k][j] = x
      BY <1>2, <3>2, <3>3
    <3> QED
      BY <3>2, <3>4, ReferencesAre
  <2> QED
    BY <2>1, <2>2
<1>4. <<h, i>> \in References(x, H, c) <=> x = c[h][i]
  BY ReferencesAre
<1>5. IsFiniteSet(References(x, H, c)) /\ Cardinality(References(x, H, c)) \in Nat
  BY ReferencesFinite DEF HeldBy
<1>6. Cardinality(References(x, H, d)) = IF x = c[h][i] THEN Cardinality(References(x, H, c)) - 1
                                         ELSE Cardinality(References(x, H, c))
  BY <1>3, <1>4, <1>5, FS_RemoveElement, ZenonT(60)
<1> QED
  BY <1>5, <1>6 DEF HeldBy

\* The empty place is filled.
LEMMA CountFill ==
  ASSUME NEW c \in Contents, NEW H, H \subseteq Objs, NEW h \in H, NEW i \in DOMAIN c[h],
         NEW d \in Contents, SameBut(c, d, h, i), c[h][i] = None, NEW x \in Objs
  PROVE  HeldBy(x, H, d) = HeldBy(x, H, c) + (IF x = d[h][i] THEN 1 ELSE 0)
<1>1. SameBut(d, c, h, i) /\ i \in DOMAIN d[h]
  BY DEF SameBut
<1> QED
  BY <1>1, CountHole

\* An element is added at the end.
LEMMA CountAppend ==
  ASSUME NEW c \in Contents, NEW H, H \subseteq Objs, NEW h \in H, NEW y \in Objs, NEW x \in Objs
  PROVE  /\ [c EXCEPT ![h] = Append(@, y)] \in Contents
         /\ HeldBy(x, H, [c EXCEPT ![h] = Append(@, y)])
              = HeldBy(x, H, c) + (IF x = y THEN 1 ELSE 0)
<1> DEFINE d == [c EXCEPT ![h] = Append(@, y)]
           n == Len(c[h]) + 1
<1>1. c[h] \in Seq(Objs \cup {None}) /\ h \in Objs
  BY DEF Contents
<1>2. /\ Append(c[h], y) \in Seq(Objs \cup {None})
      /\ DOMAIN Append(c[h], y) = DOMAIN c[h] \cup {n}
      /\ n \notin DOMAIN c[h]
      /\ \A j \in DOMAIN c[h] : Append(c[h], y)[j] = c[h][j]
      /\ Append(c[h], y)[n] = y
  BY <1>1, AppendProperties
<1>3. d \in Contents /\ \A k \in Objs : d[k] = IF k = h THEN Append(c[h], y) ELSE c[k]
  BY <1>1, <1>2 DEF Contents
<1> HIDE DEF d, n
<1>4. ASSUME NEW r
      PROVE  r \in References(x, H, d) <=> r \in References(x, H, c) \/ (x = y /\ r = <<h, n>>)
  <2>1. ASSUME r \in References(x, H, d)
        PROVE  r \in References(x, H, c) \/ (x = y /\ r = <<h, n>>)
    <3>1. PICK k \in H : \E j \in DOMAIN d[k] : r = <<k, j>> /\ d[k][j] = x
      BY <2>1, ReferencesAre
    <3>2. PICK j \in DOMAIN d[k] : r = <<k, j>> /\ d[k][j] = x
      BY <3>1
    <3>3. CASE j \in DOMAIN c[k]
      BY <1>2, <1>3, <3>2, <3>3, ReferencesAre
    <3>4. CASE j \notin DOMAIN c[k]
      BY <1>2, <1>3, <3>2, <3>4
    <3> QED
      BY <3>3, <3>4
  <2>2. ASSUME r \in References(x, H, c) PROVE r \in References(x, H, d)
    <3>1. PICK k \in H : \E j \in DOMAIN c[k] : r = <<k, j>> /\ c[k][j] = x
      BY <2>2, ReferencesAre
    <3>2. PICK j \in DOMAIN c[k] : r = <<k, j>> /\ c[k][j] = x
      BY <3>1
    <3>3. j \in DOMAIN d[k] /\ d[k][j] = x
      BY <1>2, <1>3, <3>2
    <3> QED
      BY <3>2, <3>3, ReferencesAre
  <2>3. ASSUME x = y, r = <<h, n>> PROVE r \in References(x, H, d)
    <3>1. n \in DOMAIN d[h] /\ d[h][n] = x
      BY <1>1, <1>2, <1>3, <2>3
    <3> QED
      BY <2>3, <3>1, ReferencesAre
  <2> QED
    BY <2>1, <2>2, <2>3
<1>5. IsFiniteSet(References(x, H, c)) /\ Cardinality(References(x, H, c)) \in Nat
  BY ReferencesFinite DEF HeldBy
<1>6. CASE x = y
  <2>1. References(x, H, d) = References(x, H, c) \cup {<<h, n>>}
    BY <1>4, <1>6
  <2>2. <<h, n>> \notin References(x, H, c)
    BY <1>2, ReferencesAre
  <2> QED
    BY <1>3, <1>5, <1>6, <2>1, <2>2, FS_AddElement DEF HeldBy, d
<1>7. CASE x # y
  <2>1. References(x, H, d) = References(x, H, c)
    BY <1>4, <1>7
  <2> QED
    BY <1>3, <1>5, <1>7, <2>1 DEF HeldBy, d
<1> QED
  BY <1>6, <1>7

LEMMA RemoveAtIs ==
  ASSUME NEW S, NEW s \in Seq(S), NEW i \in 1 .. Len(s)
  PROVE  /\ RemoveAt(s, i) \in Seq(S)
         /\ Len(RemoveAt(s, i)) = Len(s) - 1
         /\ \A j \in 1 .. Len(s) - 1 : RemoveAt(s, i)[j] = IF j < i THEN s[j] ELSE s[j + 1]
<1> DEFINE before == SubSeq(s, 1, i - 1)
           after  == SubSeq(s, i + 1, Len(s))
<1>1. \A j \in 1 .. i - 1 : s[j] \in S
  OBVIOUS
<1>2. \A j \in i + 1 .. Len(s) : s[j] \in S
  OBVIOUS
<1>3. before \in Seq(S) /\ Len(before) = i - 1 /\ \A j \in 1 .. i - 1 : before[j] = s[j]
  <2>1. /\ before \in Seq(S)
        /\ Len(before) = IF 1 <= i - 1 THEN i - 1 - 1 + 1 ELSE 0
        /\ \A j \in 1 .. i - 1 - 1 + 1 : before[j] = s[1 + j - 1]
    BY <1>1, SubSeqProperties
  <2> QED
    BY <2>1
<1>4. after \in Seq(S) /\ Len(after) = Len(s) - i /\ \A j \in 1 .. Len(s) - i : after[j] = s[i + j]
  <2>1. /\ after \in Seq(S)
        /\ Len(after) = IF i + 1 <= Len(s) THEN Len(s) - (i + 1) + 1 ELSE 0
        /\ \A j \in 1 .. Len(s) - (i + 1) + 1 : after[j] = s[(i + 1) + j - 1]
    BY <1>2, SubSeqProperties
  <2> QED
    BY <2>1
<1>5. RemoveAt(s, i) = before \o after
  BY DEF RemoveAt
<1> HIDE DEF before, after
<1>6. /\ before \o after \in Seq(S)
      /\ Len(before \o after) = Len(before) + Len(after)
      /\ \A j \in 1 .. Len(before) + Len(after) :
           (before \o after)[j] = IF j <= Len(before) THEN before[j] ELSE after[j - Len(before)]
  BY <1>3, <1>4, ConcatProperties
<1>7. ASSUME NEW j \in 1 .. Len(s) - 1
      PROVE  (before \o after)[j] = IF j < i THEN s[j] ELSE s[j + 1]
  <2>1. j \in 1 .. Len(before) + Len(after)
    BY <1>3, <1>4
  <2>2. CASE j < i
    <3>1. j \in 1 .. i - 1 /\ j <= Len(before)
      BY <1>3, <2>2
    <3> QED
      BY <1>3, <1>6, <2>1, <2>2, <3>1
  <2>3. CASE j >= i
    <3>1. (before \o after)[j] = after[j - (i - 1)] /\ j - (i - 1) \in 1 .. Len(s) - i
      BY <1>3, <1>6, <2>1, <2>3
    <3> QED
      BY <1>4, <2>3, <3>1
  <2>4. j < i \/ j >= i
    OBVIOUS
  <2> QED
    BY <2>2, <2>3, <2>4
<1> QED
  BY <1>3, <1>4, <1>5, <1>6, <1>7

\* d is c but for the element at i of container h, which is gone.
Shorter(c, d, h, i) ==
  /\ \A k \in Objs \ {h} : d[k] = c[k]
  /\ d[h] = RemoveAt(c[h], i)

\* An element is taken out and those behind it move up.
LEMMA CountRemove ==
  ASSUME NEW c \in Contents, NEW H, H \subseteq Objs, NEW h \in H, NEW i \in DOMAIN c[h], NEW x \in Objs,
         NEW d \in Contents, Shorter(c, d, h, i)
  PROVE  HeldBy(x, H, c) = HeldBy(x, H, d) + (IF x = c[h][i] THEN 1 ELSE 0)
<1> DEFINE At(k, j) == IF k = h /\ j >= i THEN j + 1 ELSE j
<1>1. c[h] \in Seq(Objs \cup {None}) /\ h \in Objs /\ i \in 1 .. Len(c[h]) /\ Len(c[h]) \in Nat
  BY DEF Contents
<1>2. /\ RemoveAt(c[h], i) \in Seq(Objs \cup {None})
      /\ DOMAIN RemoveAt(c[h], i) = 1 .. Len(c[h]) - 1
      /\ \A j \in 1 .. Len(c[h]) - 1 : RemoveAt(c[h], i)[j] = IF j < i THEN c[h][j] ELSE c[h][j + 1]
  <2>1. /\ RemoveAt(c[h], i) \in Seq(Objs \cup {None})
        /\ Len(RemoveAt(c[h], i)) = Len(c[h]) - 1
        /\ \A j \in 1 .. Len(c[h]) - 1 : RemoveAt(c[h], i)[j] = IF j < i THEN c[h][j] ELSE c[h][j + 1]
    BY <1>1, RemoveAtIs
  <2> QED
    BY <2>1
<1>3. d \in Contents /\ \A k \in Objs : d[k] = IF k = h THEN RemoveAt(c[h], i) ELSE c[k]
  BY DEF Shorter
<1>4. ASSUME NEW k \in H
      PROVE  DOMAIN c[k] \subseteq Int /\ DOMAIN d[k] \subseteq Int
  <2>1. c[k] \in Seq(Objs \cup {None}) /\ d[k] \in Seq(Objs \cup {None})
    BY <1>3 DEF Contents
  <2> QED
    BY <2>1
<1>5. ASSUME NEW k \in H, NEW j \in DOMAIN d[k]
      PROVE  At(k, j) \in DOMAIN c[k] /\ c[k][At(k, j)] = d[k][j] /\ ~(k = h /\ At(k, j) = i)
  <2>1. CASE k = h
    <3>1. j \in 1 .. Len(c[h]) - 1
      BY <1>1, <1>2, <1>3, <2>1
    <3>2. d[h][j] = IF j < i THEN c[h][j] ELSE c[h][j + 1]
      BY <1>1, <1>2, <1>3, <3>1
    <3>3. DOMAIN c[h] = 1 .. Len(c[h])
      BY <1>1
    <3> QED
      BY <1>1, <2>1, <3>1, <3>2, <3>3
  <2>2. CASE k # h
    BY <1>3, <2>2
  <2> QED
    BY <2>1, <2>2
<1>6. ASSUME NEW k \in H, NEW j \in DOMAIN c[k], ~(k = h /\ j = i)
      PROVE  \E m \in DOMAIN d[k] : At(k, m) = j
  <2>1. CASE k = h
    <3>1. DOMAIN c[h] = 1 .. Len(c[h]) /\ DOMAIN d[h] = 1 .. Len(c[h]) - 1
      BY <1>1, <1>2, <1>3
    <3>2. CASE j < i
      BY <1>1, <2>1, <3>1, <3>2
    <3>3. CASE j > i
      <4>1. j - 1 \in DOMAIN d[h] /\ At(h, j - 1) = j
        BY <1>1, <2>1, <3>1, <3>3
      <4> QED
        BY <2>1, <4>1
    <3> QED
      BY <1>1, <1>6, <2>1, <3>1, <3>2, <3>3
  <2>2. CASE k # h
    <3>1. j \in DOMAIN d[k] /\ At(k, j) = j
      BY <1>3, <2>2
    <3> QED
      BY <3>1
  <2> QED
    BY <2>1, <2>2
<1>7. ASSUME NEW k \in H, NEW j \in DOMAIN d[k], NEW m \in DOMAIN d[k], At(k, j) = At(k, m)
      PROVE  j = m
  BY <1>1, <1>4, <1>7
<1> DEFINE P == References(x, H, d)
           Q == References(x, H, c) \ {<<h, i>>}
           f == [r \in P |-> <<r[1], At(r[1], r[2])>>]
<1> HIDE DEF At
<1>8. f \in [P -> Q]
  <2>1. SUFFICES ASSUME NEW r \in P PROVE <<r[1], At(r[1], r[2])>> \in Q
    OBVIOUS
  <2>2. PICK k \in H : \E j \in DOMAIN d[k] : r = <<k, j>> /\ d[k][j] = x
    BY ReferencesAre
  <2>3. PICK j \in DOMAIN d[k] : r = <<k, j>> /\ d[k][j] = x
    BY <2>2
  <2>4. At(k, j) \in DOMAIN c[k] /\ c[k][At(k, j)] = x /\ ~(k = h /\ At(k, j) = i)
    BY <1>5, <2>3
  <2>5. <<k, At(k, j)>> \in References(x, H, c)
    BY <2>4, ReferencesAre
  <2>6. <<r[1], At(r[1], r[2])>> = <<k, At(k, j)>>
    BY <2>3
  <2> QED
    BY <2>4, <2>5, <2>6
<1>9. \A r, q \in P : f[r] = f[q] => r = q
  <2>1. SUFFICES ASSUME NEW r \in P, NEW q \in P, f[r] = f[q] PROVE r = q
    OBVIOUS
  <2>2. PICK k \in H : \E j \in DOMAIN d[k] : r = <<k, j>>
    BY ReferencesAre
  <2>3. PICK j \in DOMAIN d[k] : r = <<k, j>>
    BY <2>2
  <2>4. PICK l \in H : \E m \in DOMAIN d[l] : q = <<l, m>>
    BY ReferencesAre
  <2>5. PICK m \in DOMAIN d[l] : q = <<l, m>>
    BY <2>4
  <2>6. f[r] = <<k, At(k, j)>> /\ f[q] = <<l, At(l, m)>>
    BY <2>3, <2>5
  <2>7. k = l /\ At(k, j) = At(k, m)
    BY <2>1, <2>6
  <2> QED
    BY <1>7, <2>3, <2>5, <2>7
<1>10. \A q \in Q : \E r \in P : f[r] = q
  <2>1. SUFFICES ASSUME NEW q \in Q PROVE \E r \in P : f[r] = q
    OBVIOUS
  <2>2. PICK k \in H : \E j \in DOMAIN c[k] : q = <<k, j>> /\ c[k][j] = x
    BY ReferencesAre
  <2>3. PICK j \in DOMAIN c[k] : q = <<k, j>> /\ c[k][j] = x
    BY <2>2
  <2>4. ~(k = h /\ j = i)
    BY <2>3
  <2>5. PICK m \in DOMAIN d[k] : At(k, m) = j
    BY <1>6, <2>4
  <2>6. d[k][m] = x
    BY <1>5, <2>3, <2>5
  <2>7. <<k, m>> \in P
    BY <2>6, ReferencesAre
  <2>8. f[<<k, m>>] = q
    BY <2>3, <2>5, <2>7
  <2> QED
    BY <2>7, <2>8
<1> HIDE DEF f, P, Q
<1>11. ExistsBijection(P, Q)
  BY <1>8, <1>9, <1>10 DEF ExistsBijection, Bijection, Injection, Surjection, IsInjective
<1>12. IsFiniteSet(P) /\ Cardinality(P) \in Nat
  BY <1>3, ReferencesFinite DEF HeldBy, P
<1>13. Cardinality(Q) = Cardinality(P)
  BY <1>11, <1>12, FS_Bijection
<1>14. IsFiniteSet(References(x, H, c)) /\ Cardinality(References(x, H, c)) \in Nat
  BY ReferencesFinite DEF HeldBy
<1>15. <<h, i>> \in References(x, H, c) <=> x = c[h][i]
  BY ReferencesAre
<1>16. Cardinality(Q) = IF x = c[h][i] THEN Cardinality(References(x, H, c)) - 1
                        ELSE Cardinality(References(x, H, c))
  BY <1>14, <1>15, FS_RemoveElement DEF Q
<1>17. HeldBy(x, H, d) = Cardinality(P)
  BY DEF HeldBy, P
<1>18. Cardinality(References(x, H, c)) = Cardinality(P) + (IF x = c[h][i] THEN 1 ELSE 0)
  BY <1>12, <1>13, <1>14, <1>16
<1> QED
  BY <1>17, <1>18 DEF HeldBy

-----------------------------------------------------------------------------
(* Heaps that owe each object the references of `owed`.                    *)

\* One reference to y more, or one less.
More(owed, y) == [x \in Objs |-> IF x = y THEN owed[x] + 1 ELSE owed[x]]
Less(owed, y) == [x \in Objs |-> IF x = y THEN owed[x] - 1 ELSE owed[x]]

LEMMA MoreLess ==
  ASSUME NEW owed \in [Objs -> Nat], NEW y \in Objs
  PROVE  /\ More(owed, y) \in [Objs -> Nat]
         /\ \A x \in Objs : More(owed, y)[x] = IF x = y THEN owed[x] + 1 ELSE owed[x]
         /\ owed[y] > 0 => Less(owed, y) \in [Objs -> Nat]
         /\ \A x \in Objs : Less(owed, y)[x] = IF x = y THEN owed[x] - 1 ELSE owed[x]
         /\ Less(More(owed, y), y) = owed
         /\ owed[y] > 0 => More(Less(owed, y), y) = owed
<1>1. /\ More(owed, y) \in [Objs -> Nat]
      /\ \A x \in Objs : More(owed, y)[x] = IF x = y THEN owed[x] + 1 ELSE owed[x]
      /\ \A x \in Objs : Less(owed, y)[x] = IF x = y THEN owed[x] - 1 ELSE owed[x]
      /\ owed[y] > 0 => Less(owed, y) \in [Objs -> Nat]
  BY DEF More, Less
<1>2. Less(More(owed, y), y) = owed
  <2> DEFINE m == More(owed, y)
  <2>1. m \in [Objs -> Nat] /\ \A x \in Objs : m[x] = IF x = y THEN owed[x] + 1 ELSE owed[x]
    BY <1>1
  <2> HIDE DEF m
  <2>2. Less(m, y) = [x \in Objs |-> owed[x]]
    BY <2>1 DEF Less
  <2> QED
    BY <2>2 DEF m
<1>3. ASSUME owed[y] > 0 PROVE More(Less(owed, y), y) = owed
  <2> DEFINE m == Less(owed, y)
  <2>1. m \in [Objs -> Nat] /\ \A x \in Objs : m[x] = IF x = y THEN owed[x] - 1 ELSE owed[x]
    BY <1>1, <1>3
  <2> HIDE DEF m
  <2>2. More(m, y) = [x \in Objs |-> owed[x]]
    BY <2>1 DEF More
  <2> QED
    BY <2>2 DEF m
<1> QED
  BY <1>1, <1>2, <1>3

Heaps == [alive : SUBSET Objs, rc : [Objs -> Nat], items : Contents]

HeapOK(g, owed) ==
  /\ g \in Heaps
  /\ owed \in [Objs -> Nat]
  /\ \A x \in Objs : x \in g.alive <=> g.rc[x] > 0
  /\ \A x \in Objs : x \notin g.alive \/ x \in Strings => g.items[x] = <<>>
  /\ \A x \in Objs : g.rc[x] = owed[x] + HeldBy(x, g.alive, g.items)

\* No container has an empty place.
Full(g) == g.items \in [Objs -> Seq(Objs)]

LEMMA HeldByNat ==
  ASSUME NEW g \in Heaps, NEW x
  PROVE  HeldBy(x, g.alive, g.items) \in Nat
  BY ReferencesFinite DEF Heaps

\* What is owed keeps an object alive, and so does a container.
LEMMA OwedAlive ==
  ASSUME NEW g, NEW owed, HeapOK(g, owed), NEW x \in Objs,
         owed[x] > 0 \/ \E h \in g.alive : x \in ToSet(g.items[h])
  PROVE  x \in g.alive /\ g.rc[x] > 0
<1>1. g \in Heaps /\ owed[x] \in Nat /\ HeldBy(x, g.alive, g.items) \in Nat
  BY HeldByNat DEF HeapOK
<1>2. CASE owed[x] > 0
  BY <1>1, <1>2 DEF HeapOK
<1>3. CASE \E h \in g.alive : x \in ToSet(g.items[h])
  <2>1. HeldBy(x, g.alive, g.items) > 0
    BY <1>1, <1>3, HeldByHolder DEF Heaps
  <2> QED
    BY <1>1, <2>1 DEF HeapOK
<1> QED
  BY <1>2, <1>3

LEMMA RetainOK ==
  ASSUME NEW g, NEW owed, HeapOK(g, owed), NEW o \in Objs, o \in g.alive
  PROVE  /\ HeapOK(Retain(g, o), More(owed, o))
         /\ Retain(g, o).alive = g.alive /\ Retain(g, o).items = g.items
<1>1. Retain(g, o) = [g EXCEPT !.rc[o] = @ + 1]
  BY HeapAssumption DEF Retain, HeapAssumption
<1>2. g \in Heaps /\ owed \in [Objs -> Nat]
  BY DEF HeapOK
<1>3. /\ Retain(g, o) \in Heaps
      /\ Retain(g, o).alive = g.alive
      /\ Retain(g, o).items = g.items
      /\ Retain(g, o).rc = [g.rc EXCEPT ![o] = @ + 1]
  BY <1>1, <1>2 DEF Heaps
<1>4. \A x \in Objs : HeldBy(x, g.alive, g.items) \in Nat
  BY <1>2, HeldByNat
<1>5. \A x \in Objs : g.rc[x] \in Nat /\ owed[x] \in Nat
  BY <1>2 DEF Heaps
<1>6. ASSUME NEW x \in Objs
      PROVE  /\ x \in Retain(g, o).alive <=> Retain(g, o).rc[x] > 0
             /\ x \notin Retain(g, o).alive \/ x \in Strings => Retain(g, o).items[x] = <<>>
             /\ Retain(g, o).rc[x] = More(owed, o)[x]
                                       + HeldBy(x, Retain(g, o).alive, Retain(g, o).items)
  <2>1. /\ x \in g.alive <=> g.rc[x] > 0
        /\ x \notin g.alive \/ x \in Strings => g.items[x] = <<>>
        /\ g.rc[x] = owed[x] + HeldBy(x, g.alive, g.items)
    BY DEF HeapOK
  <2>2. More(owed, o)[x] = IF x = o THEN owed[x] + 1 ELSE owed[x]
    BY <1>2, MoreLess
  <2>3. Retain(g, o).rc[x] = IF x = o THEN g.rc[x] + 1 ELSE g.rc[x]
    BY <1>2, <1>3 DEF Heaps
  <2> QED
    BY <1>3, <1>4, <1>5, <2>1, <2>2, <2>3
<1>7. More(owed, o) \in [Objs -> Nat]
  BY <1>2, MoreLess
<1> QED
  BY <1>3, <1>6, <1>7 DEF HeapOK

-----------------------------------------------------------------------------
(* Releasing.                                                              *)

Closed(g, o, S) == \A x \in g.alive : g.rc[x] > 0 /\ Dropped(g, o, S, x) >= g.rc[x] => x \in S

LEMMA DeadIs ==
  ASSUME NEW g, NEW o
  PROVE  /\ Dead(g, o) \subseteq g.alive
         /\ \A x : x \in Dead(g, o) <=>
                     x \in g.alive /\ \A S \in SUBSET g.alive : Closed(g, o, S) => x \in S
  BY DEF Dead, Closed

LEMMA DroppedMore ==
  ASSUME NEW g \in Heaps, NEW o, NEW x, NEW S, NEW T, S \subseteq T, T \subseteq g.alive
  PROVE  /\ Dropped(g, o, S, x) \in Nat /\ Dropped(g, o, T, x) \in Nat
         /\ Dropped(g, o, S, x) <= Dropped(g, o, T, x)
<1>1. T \subseteq Objs /\ S \subseteq Objs /\ g.items \in Contents
  BY DEF Heaps
<1>2. HeldBy(x, S, g.items) \in Nat /\ HeldBy(x, T, g.items) \in Nat
  BY <1>1, ReferencesFinite
<1>3. HeldBy(x, S, g.items) <= HeldBy(x, T, g.items)
  BY <1>1, HeldByMore
<1> QED
  BY <1>2, <1>3 DEF Dropped

\* The dead are exactly the objects that lose all of their references.
LEMMA DeadLoseAll ==
  ASSUME NEW g, NEW owed, HeapOK(g, owed), NEW o, NEW x \in g.alive
  PROVE  x \in Dead(g, o) <=> Dropped(g, o, Dead(g, o), x) >= g.rc[x]
<1> DEFINE D == Dead(g, o)
<1>1. g \in Heaps /\ D \subseteq g.alive
  BY DeadIs DEF HeapOK
<1>2. \A y \in g.alive : g.rc[y] \in Nat /\ g.rc[y] > 0
  BY <1>1 DEF HeapOK, Heaps
<1>3. ASSUME NEW S \in SUBSET g.alive, Closed(g, o, S) PROVE D \subseteq S
  BY <1>3, DeadIs
<1> HIDE DEF D
<1>4. ASSUME NEW y \in g.alive, Dropped(g, o, D, y) >= g.rc[y]
      PROVE  y \in D
  <2>1. ASSUME NEW S \in SUBSET g.alive, Closed(g, o, S) PROVE y \in S
    <3>1. D \subseteq S
      BY <1>3, <2>1
    <3>2. /\ Dropped(g, o, D, y) \in Nat /\ Dropped(g, o, S, y) \in Nat
          /\ Dropped(g, o, D, y) <= Dropped(g, o, S, y)
      BY <1>1, <3>1, DroppedMore
    <3>3. Dropped(g, o, S, y) >= g.rc[y]
      BY <1>2, <1>4, <3>2
    <3> QED
      BY <1>2, <2>1, <3>3 DEF Closed
  <2> QED
    BY <2>1, DeadIs DEF D
<1>5. ASSUME x \in D, ~(Dropped(g, o, D, x) >= g.rc[x])
      PROVE  FALSE
  <2> DEFINE R == D \ {x}
  <2>1. R \in SUBSET g.alive
    BY <1>1
  <2>2. Closed(g, o, R)
    <3>1. SUFFICES ASSUME NEW y \in g.alive, Dropped(g, o, R, y) >= g.rc[y] PROVE y \in R
      BY DEF Closed
    <3>2. /\ Dropped(g, o, R, y) \in Nat /\ Dropped(g, o, D, y) \in Nat
          /\ Dropped(g, o, R, y) <= Dropped(g, o, D, y)
      BY <1>1, DroppedMore
    <3>3. Dropped(g, o, D, y) >= g.rc[y]
      BY <1>2, <3>1, <3>2
    <3>4. y \in D
      BY <1>4, <3>3
    <3>5. y # x
      BY <1>5, <3>3
    <3> QED
      BY <3>4, <3>5
  <2>3. x \in R
    BY <1>3, <1>5, <2>1, <2>2
  <2> QED
    BY <2>3
<1> QED
  BY <1>4, <1>5 DEF D

LEMMA ReleaseOK ==
  ASSUME NEW g, NEW owed, HeapOK(g, owed), NEW o \in Objs, owed[o] > 0
  PROVE  /\ HeapOK(Release(g, o), Less(owed, o))
         /\ \A x \in Release(g, o).alive : Release(g, o).items[x] = g.items[x]
         /\ \A x \in Objs : Release(g, o).items[x] \in {g.items[x], <<>>}
<1> DEFINE D == Dead(g, o)
           r == Release(g, o)
           less == Less(owed, o)
<1>1. /\ g \in Heaps /\ D \subseteq g.alive /\ g.alive \subseteq Objs /\ g.items \in Contents
      /\ g.rc \in [Objs -> Nat] /\ owed \in [Objs -> Nat]
  BY DeadIs DEF HeapOK, Heaps
<1>2. o \in g.alive /\ g.rc[o] > 0
  BY OwedAlive
<1>3. r = [alive |-> g.alive \ D,
           rc    |-> [x \in Objs |-> IF x \in D THEN 0
                                     ELSE IF x \in g.alive THEN g.rc[x] - Dropped(g, o, D, x)
                                     ELSE g.rc[x]],
           items |-> [x \in Objs |-> IF x \in D THEN <<>> ELSE g.items[x]]]
  BY <1>1, <1>2, HeapAssumption DEF Release, HeapAssumption
<1>4. less \in [Objs -> Nat] /\ \A x \in Objs : less[x] = IF x = o THEN owed[x] - 1 ELSE owed[x]
  BY <1>1, MoreLess
<1> HIDE DEF D, r, less
<1> DEFINE Fell(x) == HeldBy(x, D, g.items)
           Rest(x) == HeldBy(x, g.alive \ D, g.items)
<1>5. ASSUME NEW x \in Objs
      PROVE  /\ Dropped(g, o, D, x) = (IF x = o THEN 1 ELSE 0) + Fell(x)
             /\ Fell(x) \in Nat
             /\ Rest(x) \in Nat
             /\ g.rc[x] = owed[x] + Fell(x) + Rest(x)
  <2>1. HeldBy(x, D \cup (g.alive \ D), g.items) = Fell(x) + Rest(x)
    BY <1>1, HeldBySplit
  <2>2. D \cup (g.alive \ D) = g.alive
    BY <1>1
  <2>3. HeldBy(x, g.alive, g.items) = HeldBy(x, D \cup (g.alive \ D), g.items)
    BY <2>2, Zenon
  <2>4. Fell(x) \in Nat /\ Rest(x) \in Nat
    BY <1>1, ReferencesFinite
  <2>5. g.rc[x] = owed[x] + HeldBy(x, g.alive, g.items) /\ owed[x] \in Nat
    BY <1>1 DEF HeapOK
  <2>6. HeldBy(x, g.alive, g.items) = Fell(x) + Rest(x)
    BY <2>1, <2>3
  <2>7. Dropped(g, o, D, x) = (IF x = o THEN 1 ELSE 0) + Fell(x)
    BY DEF Dropped
  <2> HIDE DEF Fell, Rest
  <2>8. g.rc[x] = owed[x] + Fell(x) + Rest(x)
    BY <2>4, <2>5, <2>6
  <2> QED
    BY <2>4, <2>7, <2>8
<1>6. ASSUME NEW x \in Objs
      PROVE  HeldBy(x, r.alive, r.items) = Rest(x)
  <2>1. r.alive = g.alive \ D /\ \A h \in g.alive \ D : r.items[h] = g.items[h]
    BY <1>1, <1>3
  <2> QED
    BY <2>1, HeldByAgree
<1> HIDE DEF Fell, Rest
<1>7. ASSUME NEW x \in Objs
      PROVE  /\ r.rc[x] \in Nat
             /\ x \in r.alive <=> r.rc[x] > 0
             /\ r.rc[x] = less[x] + Rest(x)
  <2>1. g.rc[x] \in Nat /\ owed[x] \in Nat /\ (x = o => owed[x] > 0)
    BY <1>1
  <2>2. /\ Dropped(g, o, D, x) = (IF x = o THEN 1 ELSE 0) + Fell(x)
        /\ Fell(x) \in Nat /\ Rest(x) \in Nat
        /\ g.rc[x] = owed[x] + Fell(x) + Rest(x)
        /\ less[x] = IF x = o THEN owed[x] - 1 ELSE owed[x]
    BY <1>4, <1>5
  <2>3. CASE x \in D
    <3>1. Dropped(g, o, D, x) >= g.rc[x]
      BY <1>1, <2>3, DeadLoseAll DEF D
    <3>2. r.rc[x] = 0 /\ x \notin r.alive
      BY <1>3, <2>3
    <3>3. less[x] + Rest(x) = 0
      BY <2>1, <2>2, <3>1
    <3> QED
      BY <3>2, <3>3
  <2>4. CASE x \in g.alive \ D
    <3>1. ~(Dropped(g, o, D, x) >= g.rc[x])
      BY <2>4, DeadLoseAll DEF D
    <3>2. r.rc[x] = g.rc[x] - Dropped(g, o, D, x) /\ x \in r.alive
      BY <1>3, <2>4
    <3>3. r.rc[x] \in Nat /\ r.rc[x] > 0 /\ r.rc[x] = less[x] + Rest(x)
      BY <2>1, <2>2, <3>1, <3>2
    <3> QED
      BY <3>2, <3>3
  <2>5. CASE x \notin g.alive
    <3>1. g.rc[x] = 0 /\ x # o
      BY <1>2, <2>1, <2>5 DEF HeapOK
    <3>2. r.rc[x] = 0 /\ x \notin r.alive
      BY <1>1, <1>3, <2>5, <3>1
    <3>3. less[x] + Rest(x) = 0
      BY <2>1, <2>2, <3>1
    <3> QED
      BY <3>2, <3>3
  <2> QED
    BY <2>3, <2>4, <2>5
<1>8. \A x \in Objs : r.items[x] = IF x \in D THEN <<>> ELSE g.items[x]
  BY <1>3
<1>9. r \in Heaps
  <2>1. r.alive \in SUBSET Objs
    BY <1>1, <1>3
  <2>2. r.rc \in [Objs -> Nat]
    BY <1>3, <1>7
  <2>3. r.items \in Contents
    BY <1>1, <1>3 DEF Contents
  <2> QED
    BY <1>3, <2>1, <2>2, <2>3 DEF Heaps
<1>10. ASSUME NEW x \in Objs, x \notin r.alive \/ x \in Strings
       PROVE  r.items[x] = <<>>
  BY <1>3, <1>8, <1>10 DEF HeapOK
<1>11. HeapOK(r, less)
  BY <1>4, <1>6, <1>7, <1>9, <1>10 DEF HeapOK
<1>12. \A x \in r.alive : r.items[x] = g.items[x]
  BY <1>1, <1>3
<1> QED
  BY <1>8, <1>11, <1>12 DEF r, less

-----------------------------------------------------------------------------
(* Moving references between containers and what is owed.                  *)

\* What a container takes or gives is owed less or more.
LEMMA MovedOK ==
  ASSUME NEW g, NEW owed, HeapOK(g, owed), NEW o \in g.alive, o \notin Strings,
         NEW d \in Contents, \A x \in Objs \ {o} : d[x] = g.items[x],
         NEW after \in [Objs -> Nat],
         \A x \in Objs : after[x] + HeldBy(x, g.alive, d) = owed[x] + HeldBy(x, g.alive, g.items)
  PROVE  HeapOK([g EXCEPT !.items = d], after)
<1> DEFINE r == [g EXCEPT !.items = d]
<1>1. r \in Heaps /\ r.alive = g.alive /\ r.rc = g.rc /\ r.items = d
  BY DEF HeapOK, Heaps
<1> HIDE DEF r
<1>2. \A x \in Objs : x \in r.alive <=> r.rc[x] > 0
  BY <1>1 DEF HeapOK
<1>3. \A x \in Objs : x \notin r.alive \/ x \in Strings => r.items[x] = <<>>
  BY <1>1 DEF HeapOK
<1>4. \A x \in Objs : r.rc[x] = after[x] + HeldBy(x, r.alive, r.items)
  BY <1>1 DEF HeapOK
<1> QED
  BY <1>1, <1>2, <1>3, <1>4 DEF HeapOK, r

LEMMA HasItems ==
  ASSUME NEW g, NEW owed, HeapOK(g, owed), NEW o \in Objs, NEW i \in DOMAIN g.items[o]
  PROVE  /\ o \in g.alive /\ o \notin Strings /\ g.alive \subseteq Objs /\ g.items \in Contents
         /\ g.items[o] \in Seq(Objs \cup {None}) /\ i \in 1 .. Len(g.items[o])
<1>1. g.items \in Contents /\ g.alive \subseteq Objs
  BY DEF HeapOK, Heaps
<1>2. g.items[o] # <<>>
  OBVIOUS
<1>3. g.items[o] \in Seq(Objs \cup {None})
  BY <1>1 DEF Contents
<1> QED
  BY <1>1, <1>2, <1>3 DEF HeapOK

\* An element that is taken out is owed instead, ...
LEMMA HoleOK ==
  ASSUME NEW g, NEW owed, HeapOK(g, owed), NEW o \in Objs, NEW i \in DOMAIN g.items[o],
         NEW y \in Objs, g.items[o][i] = y
  PROVE  HeapOK([g EXCEPT !.items[o][i] = None], More(owed, y))
<1> DEFINE d == [g.items EXCEPT ![o] = [@ EXCEPT ![i] = None]]
           more == More(owed, y)
<1>1. o \in g.alive /\ o \notin Strings /\ g.alive \subseteq Objs /\ g.items \in Contents
  BY HasItems
<1>2. d \in Contents /\ d[o][i] = None /\ SameBut(g.items, d, o, i)
  BY <1>1, OnePlace
<1>3. [g EXCEPT !.items[o][i] = None] = [g EXCEPT !.items = d]
  BY <1>1
<1>4. owed \in [Objs -> Nat] /\ more \in [Objs -> Nat]
  BY MoreLess DEF HeapOK
<1> HIDE DEF d
<1>5. ASSUME NEW x \in Objs
      PROVE  more[x] + HeldBy(x, g.alive, d) = owed[x] + HeldBy(x, g.alive, g.items)
  <2>1. HeldBy(x, g.alive, g.items) = HeldBy(x, g.alive, d) + (IF x = y THEN 1 ELSE 0)
    BY <1>1, <1>2, CountHole
  <2>2. HeldBy(x, g.alive, d) \in Nat
    BY <1>1, <1>2, ReferencesFinite
  <2>3. more[x] = IF x = y THEN owed[x] + 1 ELSE owed[x]
    BY <1>4, MoreLess
  <2> QED
    BY <1>4, <2>1, <2>2, <2>3
<1>6. \A x \in Objs \ {o} : d[x] = g.items[x]
  BY <1>2 DEF SameBut
<1> HIDE DEF more
<1>7. HeapOK([g EXCEPT !.items = d], more)
  BY <1>1, <1>2, <1>4, <1>5, <1>6, MovedOK
<1> QED
  BY <1>3, <1>7 DEF more

LEMMA RemoveOK ==
  ASSUME NEW g, NEW owed, HeapOK(g, owed), NEW o \in Objs, NEW i \in DOMAIN g.items[o],
         NEW y \in Objs, g.items[o][i] = y
  PROVE  /\ HeapOK([g EXCEPT !.items[o] = RemoveAt(@, i)], More(owed, y))
         /\ Full(g) => Full([g EXCEPT !.items[o] = RemoveAt(@, i)])
<1> DEFINE d == [g.items EXCEPT ![o] = RemoveAt(@, i)]
           more == More(owed, y)
<1>1. /\ o \in g.alive /\ o \notin Strings /\ g.alive \subseteq Objs /\ g.items \in Contents
      /\ g.items[o] \in Seq(Objs \cup {None}) /\ i \in 1 .. Len(g.items[o])
  BY HasItems
<1>2. \A x \in Objs \ {o} : d[x] = g.items[x]
  BY <1>1 DEF Contents
<1>3. [g EXCEPT !.items[o] = RemoveAt(@, i)] = [g EXCEPT !.items = d]
  BY <1>1
<1>4. owed \in [Objs -> Nat] /\ more \in [Objs -> Nat]
  BY MoreLess DEF HeapOK
<1>5. ASSUME NEW x \in Objs
      PROVE  /\ d \in Contents
             /\ HeldBy(x, g.alive, g.items) = HeldBy(x, g.alive, d) + (IF x = y THEN 1 ELSE 0)
  <2>1. d \in Contents /\ Shorter(g.items, d, o, i)
    <3>1. RemoveAt(g.items[o], i) \in Seq(Objs \cup {None})
      BY <1>1, RemoveAtIs
    <3> QED
      BY <1>1, <3>1 DEF Contents, Shorter
  <2> HIDE DEF d
  <2>2. HeldBy(x, g.alive, g.items) = HeldBy(x, g.alive, d) + (IF x = g.items[o][i] THEN 1 ELSE 0)
    BY <1>1, <2>1, CountRemove
  <2> QED
    BY <2>1, <2>2
<1>6. Full(g) => Full([g EXCEPT !.items = d])
  <2>1. SUFFICES ASSUME g.items \in [Objs -> Seq(Objs)]
                 PROVE  [g EXCEPT !.items = d].items \in [Objs -> Seq(Objs)]
    BY DEF Full
  <2>2. RemoveAt(g.items[o], i) \in Seq(Objs)
    BY <1>1, <2>1, RemoveAtIs
  <2>3. d \in [Objs -> Seq(Objs)]
    BY <2>1, <2>2
  <2>4. [g EXCEPT !.items = d].items = d
    BY DEF HeapOK, Heaps
  <2> QED
    BY <2>3, <2>4
<1> HIDE DEF d
<1>7. ASSUME NEW x \in Objs
      PROVE  more[x] + HeldBy(x, g.alive, d) = owed[x] + HeldBy(x, g.alive, g.items)
  <2>1. HeldBy(x, g.alive, g.items) = HeldBy(x, g.alive, d) + (IF x = y THEN 1 ELSE 0)
    BY <1>5
  <2>2. HeldBy(x, g.alive, d) \in Nat
    BY <1>1, <1>5, ReferencesFinite
  <2>3. more[x] = IF x = y THEN owed[x] + 1 ELSE owed[x]
    BY <1>4, MoreLess
  <2> QED
    BY <1>4, <2>1, <2>2, <2>3
<1> HIDE DEF more
<1>8. HeapOK([g EXCEPT !.items = d], more)
  BY <1>1, <1>2, <1>4, <1>5, <1>7, MovedOK, SMTT(40)
<1> QED
  BY <1>3, <1>6, <1>8 DEF more

\* ... and one that is put in was owed before.
LEMMA FillOK ==
  ASSUME NEW g, NEW owed, HeapOK(g, owed), NEW o \in Objs, NEW i \in DOMAIN g.items[o],
         g.items[o][i] = None, NEW y \in Objs, owed[y] > 0
  PROVE  HeapOK([g EXCEPT !.items[o][i] = y], Less(owed, y))
<1> DEFINE d == [g.items EXCEPT ![o] = [@ EXCEPT ![i] = y]]
           less == Less(owed, y)
<1>1. o \in g.alive /\ o \notin Strings /\ g.alive \subseteq Objs /\ g.items \in Contents
  BY HasItems
<1>2. d \in Contents /\ d[o][i] = y /\ SameBut(g.items, d, o, i)
  BY <1>1, OnePlace
<1>3. [g EXCEPT !.items[o][i] = y] = [g EXCEPT !.items = d]
  BY <1>1
<1>4. owed \in [Objs -> Nat] /\ less \in [Objs -> Nat]
  BY MoreLess DEF HeapOK
<1> HIDE DEF d
<1>5. ASSUME NEW x \in Objs
      PROVE  less[x] + HeldBy(x, g.alive, d) = owed[x] + HeldBy(x, g.alive, g.items)
  <2>1. HeldBy(x, g.alive, d) = HeldBy(x, g.alive, g.items) + (IF x = y THEN 1 ELSE 0)
    BY <1>1, <1>2, CountFill
  <2>2. HeldBy(x, g.alive, g.items) \in Nat
    BY <1>1, <1>2, ReferencesFinite
  <2>3. less[x] = IF x = y THEN owed[x] - 1 ELSE owed[x]
    BY <1>4, MoreLess
  <2> QED
    BY <1>4, <2>1, <2>2, <2>3
<1>6. \A x \in Objs \ {o} : d[x] = g.items[x]
  BY <1>2 DEF SameBut
<1> HIDE DEF less
<1>7. HeapOK([g EXCEPT !.items = d], less)
  BY <1>1, <1>2, <1>4, <1>5, <1>6, MovedOK
<1> QED
  BY <1>3, <1>7 DEF less

LEMMA AppendOK ==
  ASSUME NEW g, NEW owed, HeapOK(g, owed), NEW o \in g.alive, o \notin Strings,
         NEW y \in Objs, owed[y] > 0
  PROVE  /\ HeapOK([g EXCEPT !.items[o] = Append(@, y)], Less(owed, y))
         /\ Full(g) => Full([g EXCEPT !.items[o] = Append(@, y)])
<1> DEFINE d == [g.items EXCEPT ![o] = Append(@, y)]
           less == Less(owed, y)
<1>1. g.alive \subseteq Objs /\ g.items \in Contents /\ g \in Heaps
  BY DEF HeapOK, Heaps
<1>2. \A x \in Objs \ {o} : d[x] = g.items[x]
  BY <1>1 DEF Contents
<1>3. [g EXCEPT !.items[o] = Append(@, y)] = [g EXCEPT !.items = d]
  BY <1>1
<1>4. owed \in [Objs -> Nat] /\ less \in [Objs -> Nat]
  BY MoreLess DEF HeapOK
<1>5. ASSUME NEW x \in Objs
      PROVE  /\ d \in Contents
             /\ HeldBy(x, g.alive, d) = HeldBy(x, g.alive, g.items) + (IF x = y THEN 1 ELSE 0)
  BY <1>1, CountAppend, ZenonT(60)
<1>6. Full(g) => Full([g EXCEPT !.items = d])
  <2>1. SUFFICES ASSUME g.items \in [Objs -> Seq(Objs)]
                 PROVE  [g EXCEPT !.items = d].items \in [Objs -> Seq(Objs)]
    BY DEF Full
  <2>2. o \in Objs
    BY <1>1
  <2>3. d \in [Objs -> Seq(Objs)]
    BY <2>1, <2>2, AppendProperties
  <2>4. [g EXCEPT !.items = d].items = d
    BY <1>1 DEF Heaps
  <2> QED
    BY <2>3, <2>4
<1> HIDE DEF d
<1>7. ASSUME NEW x \in Objs
      PROVE  less[x] + HeldBy(x, g.alive, d) = owed[x] + HeldBy(x, g.alive, g.items)
  <2>1. HeldBy(x, g.alive, d) = HeldBy(x, g.alive, g.items) + (IF x = y THEN 1 ELSE 0)
    BY <1>5
  <2>2. HeldBy(x, g.alive, g.items) \in Nat
    BY <1>1, ReferencesFinite
  <2>3. less[x] = IF x = y THEN owed[x] - 1 ELSE owed[x]
    BY <1>4, MoreLess
  <2> QED
    BY <1>4, <2>1, <2>2, <2>3
<1> HIDE DEF less
<1>8. HeapOK([g EXCEPT !.items = d], less)
  BY <1>1, <1>2, <1>4, <1>5, <1>7, MovedOK
<1> QED
  BY <1>3, <1>6, <1>8 DEF less

\* A new object is owed to whoever created it.
LEMMA BornOK ==
  ASSUME NEW g, NEW owed, HeapOK(g, owed), NEW o \in Objs, o \notin g.alive
  PROVE  /\ HeapOK([alive |-> g.alive \cup {o}, rc |-> [g.rc EXCEPT ![o] = 1],
                    items |-> [g.items EXCEPT ![o] = <<>>]], More(owed, o))
         /\ [g.items EXCEPT ![o] = <<>>] = g.items
<1> DEFINE more == More(owed, o)
<1>1. g \in Heaps /\ g.alive \subseteq Objs /\ g.items \in Contents /\ g.rc \in [Objs -> Nat]
      /\ owed \in [Objs -> Nat] /\ more \in [Objs -> Nat]
  BY MoreLess DEF HeapOK, Heaps
<1>2. g.items[o] = <<>>
  BY DEF HeapOK
<1>3. [g.items EXCEPT ![o] = <<>>] = g.items
  BY <1>1, <1>2 DEF Contents
<1>4. g.rc[o] = 0 /\ owed[o] = 0
  <2>1. ~(g.rc[o] > 0) /\ g.rc[o] = owed[o] + HeldBy(o, g.alive, g.items)
    BY DEF HeapOK
  <2>2. HeldBy(o, g.alive, g.items) \in Nat
    BY <1>1, HeldByNat
  <2> QED
    BY <1>1, <2>1, <2>2
<1>5. ASSUME NEW x \in Objs
      PROVE  HeldBy(x, g.alive \cup {o}, g.items) = HeldBy(x, g.alive, g.items)
  <2>1. HeldBy(x, g.alive \cup {o}, g.items) = HeldBy(x, g.alive, g.items) + HeldBy(x, {o}, g.items)
    BY <1>1, HeldBySplit
  <2>2. HeldBy(x, {o}, g.items) = 0
    BY <1>1, <1>2, HeldByNone
  <2>3. HeldBy(x, g.alive, g.items) \in Nat
    BY <1>1, HeldByNat
  <2> QED
    BY <2>1, <2>2, <2>3
<1> DEFINE r == [alive |-> g.alive \cup {o}, rc |-> [g.rc EXCEPT ![o] = 1], items |-> g.items]
<1>6. r \in Heaps /\ r.alive = g.alive \cup {o} /\ r.items = g.items
  BY <1>1 DEF Heaps
<1>7. \A x \in Objs : r.rc[x] = IF x = o THEN 1 ELSE g.rc[x]
  BY <1>1
<1>8. \A x \in Objs : more[x] = IF x = o THEN 1 ELSE owed[x]
  BY <1>1, <1>4, MoreLess
<1> HIDE DEF r, more
<1>9. \A x \in Objs : x \in r.alive <=> r.rc[x] > 0
  BY <1>6, <1>7 DEF HeapOK
<1>10. \A x \in Objs : x \notin r.alive \/ x \in Strings => r.items[x] = <<>>
  BY <1>2, <1>6 DEF HeapOK
<1>11. ASSUME NEW x \in Objs
       PROVE  r.rc[x] = more[x] + HeldBy(x, r.alive, r.items)
  <2>1. HeldBy(x, r.alive, r.items) = HeldBy(x, g.alive, g.items)
    BY <1>5, <1>6
  <2>2. g.rc[x] = owed[x] + HeldBy(x, g.alive, g.items) /\ HeldBy(x, g.alive, g.items) \in Nat
    BY <1>1, HeldByNat DEF HeapOK
  <2> QED
    BY <1>1, <1>4, <1>7, <1>8, <2>1, <2>2
<1>12. HeapOK(r, more)
  BY <1>1, <1>6, <1>9, <1>10, <1>11 DEF HeapOK
<1> QED
  BY <1>3, <1>12 DEF r, more

-----------------------------------------------------------------------------
(* What variables, temporaries, C pointers and losses account for.         *)

SlotValues == [Slots -> Objs \cup {None}]

Count(f, x) == Cardinality({s \in Slots : f[s] = x})

Accounted(f, r, l) == [x \in Objs |-> Count(f, x) + r[x] + l[x]]

Counts(f, r, l) == f \in SlotValues /\ r \in [Objs -> 0 .. 1] /\ l \in [Objs -> Nat]

LEMMA CountNat ==
  ASSUME NEW f \in SlotValues, NEW x
  PROVE  /\ IsFiniteSet({s \in Slots : f[s] = x})
         /\ Count(f, x) \in Nat
         /\ Count(f, x) > 0 <=> \E s \in Slots : f[s] = x
<1> DEFINE S == {s \in Slots : f[s] = x}
<1>1. IsFiniteSet(Slots)
  BY HeapAssumption, FS_Union DEF HeapAssumption, Slots
<1>2. IsFiniteSet(S)
  BY <1>1, FS_Subset
<1>3. Cardinality(S) \in Nat /\ (Cardinality(S) = 0 <=> S = {})
  BY <1>2, FS_CardinalityType, FS_EmptySet
<1> QED
  BY <1>2, <1>3 DEF Count

\* A slot that holds nothing takes a value.
LEMMA CountGain ==
  ASSUME NEW f \in SlotValues, NEW s \in Slots, f[s] = None, NEW y \in Objs, NEW x \in Objs
  PROVE  /\ [f EXCEPT ![s] = y] \in SlotValues
         /\ Count([f EXCEPT ![s] = y], x) = Count(f, x) + (IF x = y THEN 1 ELSE 0)
<1> DEFINE e == [f EXCEPT ![s] = y]
           S == {p \in Slots : f[p] = x}
<1>1. e \in SlotValues /\ x # None
  BY HeapAssumption DEF SlotValues, HeapAssumption
<1>2. IsFiniteSet(S) /\ Cardinality(S) \in Nat
  BY CountNat DEF Count
<1>3. CASE x = y
  <2>1. {p \in Slots : e[p] = x} = S \cup {s} /\ s \notin S
    BY <1>1, <1>3 DEF SlotValues
  <2> HIDE DEF e, S
  <2>2. Cardinality(S \cup {s}) = Cardinality(S) + 1
    BY <1>2, <2>1, FS_AddElement
  <2>3. Count(e, x) = Count(f, x) + 1
    BY <2>1, <2>2 DEF Count, S
  <2> QED
    BY <1>1, <1>3, <2>3 DEF e
<1>4. CASE x # y
  <2>1. {p \in Slots : e[p] = x} = S
    BY <1>1, <1>4 DEF SlotValues
  <2>2. Count(e, x) = Count(f, x)
    BY <2>1 DEF Count
  <2> QED
    BY <1>1, <1>2, <1>4, <2>2 DEF Count
<1> QED
  BY <1>3, <1>4

\* A slot that holds a value loses it.
LEMMA CountLose ==
  ASSUME NEW f \in SlotValues, NEW s \in Slots, NEW y \in Objs, f[s] = y, NEW x \in Objs
  PROVE  /\ [f EXCEPT ![s] = None] \in SlotValues
         /\ Count(f, x) = Count([f EXCEPT ![s] = None], x) + (IF x = y THEN 1 ELSE 0)
<1> DEFINE e == [f EXCEPT ![s] = None]
<1>1. e \in SlotValues /\ e[s] = None
  BY DEF SlotValues
<1>2. [e EXCEPT ![s] = y] = f
  BY DEF SlotValues
<1> HIDE DEF e
<1>3. Count([e EXCEPT ![s] = y], x) = Count(e, x) + (IF x = y THEN 1 ELSE 0)
  BY <1>1, CountGain
<1> QED
  BY <1>1, <1>2, <1>3 DEF e

LEMMA AccountedNat ==
  ASSUME NEW f, NEW r, NEW l, Counts(f, r, l)
  PROVE  /\ Accounted(f, r, l) \in [Objs -> Nat]
         /\ \A x \in Objs : /\ Accounted(f, r, l)[x] = Count(f, x) + r[x] + l[x]
                            /\ Count(f, x) \in Nat /\ r[x] \in Nat /\ l[x] \in Nat
<1>1. \A x \in Objs : Count(f, x) \in Nat
  BY CountNat DEF Counts
<1> QED
  BY <1>1 DEF Counts, Accounted

\* Whoever holds an object keeps it accounted for.
LEMMA AccountedHeld ==
  ASSUME NEW f, NEW r, NEW l, Counts(f, r, l), NEW x \in Objs,
         r[x] > 0 \/ l[x] > 0 \/ \E s \in Slots : f[s] = x
  PROVE  Accounted(f, r, l)[x] > 0
<1>1. /\ Accounted(f, r, l)[x] = Count(f, x) + r[x] + l[x]
      /\ Count(f, x) \in Nat /\ r[x] \in Nat /\ l[x] \in Nat
  BY AccountedNat
<1>2. (\E s \in Slots : f[s] = x) => Count(f, x) > 0
  BY CountNat DEF Counts
<1> QED
  BY <1>1, <1>2

\* Two ways of accounting that differ by one reference to y.
LEMMA AccountedMore ==
  ASSUME NEW f, NEW r, NEW l, Counts(f, r, l), NEW e, NEW q, NEW m, Counts(e, q, m), NEW y \in Objs,
         \A x \in Objs :
           Count(e, x) + q[x] + m[x] = Count(f, x) + r[x] + l[x] + (IF x = y THEN 1 ELSE 0)
  PROVE  /\ Accounted(e, q, m) = More(Accounted(f, r, l), y)
         /\ Accounted(f, r, l) = Less(Accounted(e, q, m), y)
<1> DEFINE A == Accounted(f, r, l)
           B == Accounted(e, q, m)
<1>1. A \in [Objs -> Nat] /\ B \in [Objs -> Nat]
  BY AccountedNat
<1>2. \A x \in Objs : B[x] = IF x = y THEN A[x] + 1 ELSE A[x]
  BY AccountedNat
<1> HIDE DEF A, B
<1>3. B = More(A, y)
  BY <1>1, <1>2 DEF More
<1>4. A = Less(B, y)
  BY <1>1, <1>3, MoreLess
<1> QED
  BY <1>3, <1>4 DEF A, B

\* f with y at s.
Put(f, s, y) == [f EXCEPT ![s] = y]

LEMMA GainSlot ==
  ASSUME NEW f, NEW r, NEW l, Counts(f, r, l), NEW s \in Slots, f[s] = None, NEW y \in Objs
  PROVE  /\ Counts(Put(f, s, y), r, l)
         /\ Accounted(Put(f, s, y), r, l) = More(Accounted(f, r, l), y)
<1> DEFINE e == Put(f, s, y)
<1>1. f \in SlotValues
  BY DEF Counts
<1>2. \A x \in Objs : e \in SlotValues /\ Count(e, x) = Count(f, x) + (IF x = y THEN 1 ELSE 0)
  BY <1>1, CountGain DEF Put
<1> HIDE DEF e
<1>3. Counts(e, r, l)
  BY <1>2 DEF Counts
<1>4. \A x \in Objs :
        Count(e, x) + r[x] + l[x] = Count(f, x) + r[x] + l[x] + (IF x = y THEN 1 ELSE 0)
  BY <1>2, <1>3, AccountedNat
<1> QED
  BY <1>3, <1>4, AccountedMore DEF e

LEMMA LoseSlot ==
  ASSUME NEW f, NEW r, NEW l, Counts(f, r, l), NEW s \in Slots, NEW y \in Objs, f[s] = y
  PROVE  /\ Counts(Put(f, s, None), r, l)
         /\ Accounted(Put(f, s, None), r, l) = Less(Accounted(f, r, l), y)
<1> DEFINE e == Put(f, s, None)
<1>1. f \in SlotValues
  BY DEF Counts
<1>2. \A x \in Objs : e \in SlotValues /\ Count(f, x) = Count(e, x) + (IF x = y THEN 1 ELSE 0)
  BY <1>1, CountLose DEF Put
<1> HIDE DEF e
<1>3. Counts(e, r, l)
  BY <1>2 DEF Counts
<1>4. \A x \in Objs :
        Count(f, x) + r[x] + l[x] = Count(e, x) + r[x] + l[x] + (IF x = y THEN 1 ELSE 0)
  <2>1. \A x \in Objs : Count(e, x) \in Nat /\ r[x] \in Nat /\ l[x] \in Nat
    BY <1>3, AccountedNat
  <2> QED
    BY <1>2, <2>1
<1> QED
  BY <1>3, <1>4, AccountedMore DEF e

\* A C pointer that gets a reference, or gives it up.
LEMMA GainRaw ==
  ASSUME NEW f, NEW r, NEW l, Counts(f, r, l), NEW y \in Objs, r[y] = 0
  PROVE  /\ Counts(f, Put(r, y, 1), l)
         /\ Accounted(f, Put(r, y, 1), l) = More(Accounted(f, r, l), y)
<1> DEFINE q == Put(r, y, 1)
<1>1. Counts(f, q, l) /\ \A x \in Objs : q[x] = r[x] + (IF x = y THEN 1 ELSE 0)
  BY DEF Counts, Put
<1> HIDE DEF q
<1>2. \A x \in Objs :
        Count(f, x) + q[x] + l[x] = Count(f, x) + r[x] + l[x] + (IF x = y THEN 1 ELSE 0)
  BY <1>1, AccountedNat
<1> QED
  BY <1>1, <1>2, AccountedMore DEF q

LEMMA LoseRaw ==
  ASSUME NEW f, NEW r, NEW l, Counts(f, r, l), NEW y \in Objs, r[y] = 1
  PROVE  /\ Counts(f, Put(r, y, 0), l)
         /\ Accounted(f, Put(r, y, 0), l) = Less(Accounted(f, r, l), y)
<1> DEFINE q == Put(r, y, 0)
<1>1. Counts(f, q, l) /\ \A x \in Objs : r[x] = q[x] + (IF x = y THEN 1 ELSE 0)
  BY DEF Counts, Put
<1> HIDE DEF q
<1>2. \A x \in Objs :
        Count(f, x) + r[x] + l[x] = Count(f, x) + q[x] + l[x] + (IF x = y THEN 1 ELSE 0)
  <2>1. \A x \in Objs : Count(f, x) \in Nat /\ r[x] \in Nat /\ l[x] \in Nat
    BY AccountedNat
  <2>2. \A x \in Objs : q[x] \in Nat
    BY <1>1, AccountedNat
  <2> QED
    BY <1>1, <2>1, <2>2
<1> QED
  BY <1>1, <1>2, AccountedMore DEF q

\* A reference nobody will release.
LEMMA GainLost ==
  ASSUME NEW f, NEW r, NEW l, Counts(f, r, l), NEW y \in Objs
  PROVE  /\ Counts(f, r, More(l, y))
         /\ Accounted(f, r, More(l, y)) = More(Accounted(f, r, l), y)
<1> DEFINE q == More(l, y)
<1>1. Counts(f, r, q) /\ \A x \in Objs : q[x] = l[x] + (IF x = y THEN 1 ELSE 0)
  BY DEF Counts, More
<1> HIDE DEF q
<1>2. \A x \in Objs :
        Count(f, x) + r[x] + q[x] = Count(f, x) + r[x] + l[x] + (IF x = y THEN 1 ELSE 0)
  <2>1. \A x \in Objs : Count(f, x) \in Nat /\ r[x] \in Nat /\ l[x] \in Nat
    BY AccountedNat
  <2>2. \A x \in Objs : q[x] \in Nat
    BY <1>1, AccountedNat
  <2> QED
    BY <1>1, <2>1, <2>2
<1> QED
  BY <1>1, <1>2, AccountedMore DEF q

-----------------------------------------------------------------------------
(* The invariant, and each operation.                                      *)

HeapInv ==
  /\ HeapOK(Graph, Accounted(slot, raw, lost))
  /\ Full(Graph)
  /\ Counts(slot, raw, lost)
  /\ swept \in BOOLEAN

LEMMA KeepOK ==
  ASSUME NEW g, Keep(g), HeapOK(g, Accounted(slot', raw', lost')), Full(g), Counts(slot', raw', lost')
  PROVE  HeapInv'
<1>1. g = [alive |-> g.alive, rc |-> g.rc, items |-> g.items]
  BY DEF HeapOK, Heaps
<1>2. Graph' = g
  BY <1>1 DEF Keep, Graph
<1> QED
  BY <1>2 DEF HeapInv, Keep

LEMMA SameHeapOK ==
  ASSUME HeapInv, UNCHANGED <<alive, rc, items>>, swept' \in BOOLEAN,
         Accounted(slot', raw', lost') = Accounted(slot, raw, lost), Counts(slot', raw', lost')
  PROVE  HeapInv'
<1>1. Graph' = Graph
  BY DEF Graph
<1> QED
  BY <1>1 DEF HeapInv

\* What a slot holds or a C pointer refers to is alive.
LEMMA HeldAlive ==
  ASSUME HeapInv, NEW x \in Objs, raw[x] > 0 \/ lost[x] > 0 \/ \E s \in Slots : slot[s] = x
  PROVE  x \in alive /\ Accounted(slot, raw, lost)[x] > 0
<1>1. Accounted(slot, raw, lost)[x] > 0
  BY AccountedHeld DEF HeapInv
<1>2. x \in Graph.alive
  BY <1>1, OwedAlive DEF HeapInv
<1> QED
  BY <1>1, <1>2 DEF Graph

LEMMA TakenAlive ==
  ASSUME HeapInv, NEW o \in Objs, NEW i \in DOMAIN items[o]
  PROVE  items[o][i] \in Objs /\ items[o][i] \in alive /\ o \in alive
<1>1. items[o] \in Seq(Objs)
  BY DEF HeapInv, Full, Graph
<1>2. o \in Graph.alive
  BY HasItems DEF HeapInv, Graph
<1>3. items[o][i] \in ToSet(Graph.items[o]) /\ items[o][i] \in Objs
  BY <1>1 DEF ToSet, Graph
<1>4. items[o][i] \in Graph.alive
  BY <1>2, <1>3, OwedAlive DEF HeapInv
<1> QED
  BY <1>2, <1>3, <1>4 DEF Graph

LEMMA BornInv ==
  ASSUME HeapInv, NEW o \in Objs, Born(o), Counts(slot', raw', lost'),
         Accounted(slot', raw', lost') = More(Accounted(slot, raw, lost), o)
  PROVE  HeapInv'
<1>1. o \notin Graph.alive /\ Graph.items = items /\ HeapOK(Graph, Accounted(slot, raw, lost))
  BY DEF HeapInv, Born, Graph
<1>2. HeapOK([alive |-> Graph.alive \cup {o}, rc |-> [Graph.rc EXCEPT ![o] = 1],
              items |-> [Graph.items EXCEPT ![o] = <<>>]], More(Accounted(slot, raw, lost), o))
  BY <1>1, BornOK
<1>3. [Graph.items EXCEPT ![o] = <<>>] = Graph.items
  BY <1>1, BornOK
<1>4. Graph' = [alive |-> Graph.alive \cup {o}, rc |-> [Graph.rc EXCEPT ![o] = 1],
                items |-> [Graph.items EXCEPT ![o] = <<>>]]
  BY DEF Born, Graph
<1>5. Full(Graph')
  BY <1>3, <1>4 DEF HeapInv, Full
<1>6. swept' \in BOOLEAN
  BY DEF Born
<1> QED
  BY <1>2, <1>4, <1>5, <1>6 DEF HeapInv

LEMMA NewStringInv ==
  ASSUME HeapInv, NEW t \in Temps, NEW o \in Objs, NewString(t, o)
  PROVE  HeapInv'
<1>1. t \in Slots /\ slot[t] = None /\ Counts(slot, raw, lost)
  BY DEF NewString, Slots, HeapInv
<1>2. slot' = Put(slot, t, o) /\ raw' = raw /\ lost' = lost /\ Born(o)
  BY DEF NewString, Put
<1>3. /\ Counts(Put(slot, t, o), raw, lost)
      /\ Accounted(Put(slot, t, o), raw, lost) = More(Accounted(slot, raw, lost), o)
  BY <1>1, GainSlot
<1> QED
  BY <1>2, <1>3, BornInv

LEMMA NewObjectInv ==
  ASSUME HeapInv, NEW o \in Objs, NewObject(o)
  PROVE  HeapInv'
<1>1. Born(o) /\ raw' = Put(raw, o, 1) /\ slot' = slot /\ lost' = lost /\ o \notin alive
  BY DEF NewObject, Born, Put
<1>2. Counts(slot, raw, lost) /\ raw[o] \in 0 .. 1
  BY DEF HeapInv, Counts
<1>3. raw[o] = 0
  BY <1>1, <1>2, HeldAlive
<1>4. /\ Counts(slot, Put(raw, o, 1), lost)
      /\ Accounted(slot, Put(raw, o, 1), lost) = More(Accounted(slot, raw, lost), o)
  BY <1>2, <1>3, GainRaw
<1> QED
  BY <1>1, <1>4, BornInv

\* A slot takes a clone of a living object.
LEMMA CloneInv ==
  ASSUME HeapInv, NEW t \in Slots, slot[t] = None, NEW y \in Objs, y \in alive,
         Keep(Retain(Graph, y)), slot' = Put(slot, t, y), UNCHANGED <<raw, lost>>
  PROVE  HeapInv'
<1>1. /\ Counts(Put(slot, t, y), raw, lost)
      /\ Accounted(Put(slot, t, y), raw, lost) = More(Accounted(slot, raw, lost), y)
  BY GainSlot DEF HeapInv
<1>2. /\ HeapOK(Retain(Graph, y), More(Accounted(slot, raw, lost), y))
      /\ Retain(Graph, y).items = Graph.items
  BY RetainOK DEF HeapInv, Graph
<1>3. Full(Retain(Graph, y))
  BY <1>2 DEF HeapInv, Full
<1> QED
  BY <1>1, <1>2, <1>3, KeepOK

LEMMA BoxInv ==
  ASSUME HeapInv, NEW t \in Temps, NEW o \in Objs, Box(t, o)
  PROVE  HeapInv'
<1>1. o \in alive /\ t \in Slots
  BY HeldAlive DEF Box, Slots
<1> QED
  BY <1>1, CloneInv DEF Box, Put

LEMMA IndexInv ==
  ASSUME HeapInv, NEW o \in Objs, NEW i, NEW t \in Temps, Index(o, i, t)
  PROVE  HeapInv'
<1>1. items[o][i] \in Objs /\ items[o][i] \in alive /\ t \in Slots
  BY TakenAlive DEF Index, Slots
<1> QED
  BY <1>1, CloneInv DEF Index, Put

LEMMA LoadInv ==
  ASSUME HeapInv, NEW v \in Vars, NEW t \in Temps, Load(v, t)
  PROVE  HeapInv'
<1>1. v \in Slots /\ t \in Slots
  BY DEF Slots
<1>2. slot[v] \in Objs
  BY <1>1 DEF Load, HeapInv, Counts, SlotValues
<1>3. slot[v] \in alive
  BY <1>1, <1>2, HeldAlive
<1> QED
  BY <1>1, <1>2, <1>3, CloneInv DEF Load, Put

LEMMA FullReleased ==
  ASSUME NEW g, NEW owed, HeapOK(g, owed), NEW o \in Objs, owed[o] > 0, Full(g)
  PROVE  Full(Release(g, o))
<1>1. /\ HeapOK(Release(g, o), Less(owed, o))
      /\ \A x \in Objs : Release(g, o).items[x] \in {g.items[x], <<>>}
  BY ReleaseOK
<1>2. Release(g, o).items \in [Objs -> Seq(Objs \cup {None})]
  BY <1>1 DEF HeapOK, Heaps, Contents
<1>3. <<>> \in Seq(Objs)
  OBVIOUS
<1> QED
  BY <1>1, <1>2, <1>3 DEF Full

\* A slot or a C pointer gives up what it holds.
LEMMA DropInv ==
  ASSUME HeapInv, NEW o \in Objs, Accounted(slot, raw, lost)[o] > 0, Keep(Release(Graph, o)),
         Counts(slot', raw', lost'),
         Accounted(slot', raw', lost') = Less(Accounted(slot, raw, lost), o)
  PROVE  HeapInv'
<1>1. HeapOK(Release(Graph, o), Less(Accounted(slot, raw, lost), o))
  BY ReleaseOK DEF HeapInv
<1>2. Full(Release(Graph, o))
  BY FullReleased DEF HeapInv
<1> QED
  BY <1>1, <1>2, KeepOK

LEMMA DropRawInv ==
  ASSUME HeapInv, NEW o \in Objs, DropRaw(o)
  PROVE  HeapInv'
<1>1. /\ Counts(slot, raw, lost) /\ raw[o] = 1
      /\ raw' = Put(raw, o, 0) /\ slot' = slot /\ lost' = lost
  BY DEF DropRaw, HeapInv, Counts, Put
<1>2. /\ Counts(slot, Put(raw, o, 0), lost)
      /\ Accounted(slot, Put(raw, o, 0), lost) = Less(Accounted(slot, raw, lost), o)
  BY <1>1, LoseRaw
<1>3. Accounted(slot, raw, lost)[o] > 0
  BY <1>1, AccountedHeld
<1> QED
  BY <1>1, <1>2, <1>3, DropInv DEF DropRaw

LEMMA ReleaseSlotInv ==
  ASSUME HeapInv, NEW s \in Slots, ReleaseSlot(s)
  PROVE  HeapInv'
<1>1. /\ Counts(slot, raw, lost) /\ slot[s] \in Objs /\ raw' = raw /\ lost' = lost
      /\ slot' = Put(slot, s, None)
  BY DEF ReleaseSlot, HeapInv, Counts, SlotValues, Put
<1>2. /\ Counts(Put(slot, s, None), raw, lost)
      /\ Accounted(Put(slot, s, None), raw, lost) = Less(Accounted(slot, raw, lost), slot[s])
  BY <1>1, LoseSlot
<1>3. Accounted(slot, raw, lost)[slot[s]] > 0
  BY <1>1, AccountedHeld
<1> QED
  BY <1>1, <1>2, <1>3, DropInv DEF ReleaseSlot

\* What a slot or a C pointer held is lost: the count stays.
LEMMA LostInv ==
  ASSUME HeapInv, NEW o \in Objs, NEW f, NEW r, Counts(f, r, lost),
         Accounted(f, r, lost) = Less(Accounted(slot, raw, lost), o),
         Accounted(slot, raw, lost)[o] > 0,
         slot' = f, raw' = r, lost' = More(lost, o), swept' = FALSE, UNCHANGED <<alive, rc, items>>
  PROVE  HeapInv'
<1>1. /\ Counts(f, r, More(lost, o))
      /\ Accounted(f, r, More(lost, o)) = More(Accounted(f, r, lost), o)
  BY GainLost
<1>2. Accounted(slot, raw, lost) \in [Objs -> Nat]
  BY AccountedNat DEF HeapInv
<1>3. More(Less(Accounted(slot, raw, lost), o), o) = Accounted(slot, raw, lost)
  BY <1>2, MoreLess
<1>4. Accounted(slot', raw', lost') = Accounted(slot, raw, lost) /\ Counts(slot', raw', lost')
  BY <1>1, <1>3
<1> QED
  BY <1>4, SameHeapOK

LEMMA ForgetRawInv ==
  ASSUME HeapInv, NEW o \in Objs, ForgetRaw(o)
  PROVE  HeapInv'
<1>1. /\ Counts(slot, raw, lost) /\ raw[o] = 1 /\ slot' = slot
      /\ raw' = Put(raw, o, 0)
  BY DEF ForgetRaw, HeapInv, Counts, Put
<1>2. lost' = More(lost, o)
  <2>1. lost \in [Objs -> Nat]
    BY DEF HeapInv, Counts
  <2> QED
    BY <2>1 DEF ForgetRaw, More
<1>3. /\ Counts(slot, Put(raw, o, 0), lost)
      /\ Accounted(slot, Put(raw, o, 0), lost) = Less(Accounted(slot, raw, lost), o)
  BY <1>1, LoseRaw
<1>4. Accounted(slot, raw, lost)[o] > 0
  BY <1>1, AccountedHeld
<1>5. swept' = FALSE /\ UNCHANGED <<alive, rc, items>>
  BY DEF ForgetRaw
<1> QED
  BY <1>1, <1>2, <1>3, <1>4, <1>5, LostInv

LEMMA ForgetTempInv ==
  ASSUME HeapInv, NEW t \in Temps, ForgetTemp(t)
  PROVE  HeapInv'
<1>1. /\ Counts(slot, raw, lost) /\ t \in Slots /\ slot[t] \in Objs /\ raw' = raw
      /\ slot' = Put(slot, t, None)
  BY DEF ForgetTemp, HeapInv, Counts, SlotValues, Slots, Put
<1>2. lost' = More(lost, slot[t])
  <2>1. lost \in [Objs -> Nat]
    BY DEF HeapInv, Counts
  <2> QED
    BY <1>1, <2>1 DEF ForgetTemp, More
<1>3. /\ Counts(Put(slot, t, None), raw, lost)
      /\ Accounted(Put(slot, t, None), raw, lost) = Less(Accounted(slot, raw, lost), slot[t])
  BY <1>1, LoseSlot
<1>4. Accounted(slot, raw, lost)[slot[t]] > 0
  BY <1>1, AccountedHeld
<1>5. swept' = FALSE /\ UNCHANGED <<alive, rc, items>>
  BY DEF ForgetTemp
<1> QED
  BY <1>1, <1>2, <1>3, <1>4, <1>5, LostInv

LEMMA AppendToInv ==
  ASSUME HeapInv, NEW o \in Objs, NEW s \in Slots, AppendTo(o, s)
  PROVE  HeapInv'
<1> DEFINE A == Accounted(slot, raw, lost)
           y == slot[s]
           g == [Graph EXCEPT !.items[o] = Append(@, y)]
<1>1. /\ Counts(slot, raw, lost) /\ y \in Objs /\ o \in Graph.alive /\ o \notin Strings
      /\ raw' = raw /\ lost' = lost /\ slot' = slot /\ Keep(Retain(g, y))
  BY DEF AppendTo, InHand, HeapInv, Counts, SlotValues, Graph
<1>2. A \in [Objs -> Nat] /\ A[y] > 0 /\ y \in Graph.alive /\ HeapOK(Graph, A) /\ Full(Graph)
  BY <1>1, AccountedNat, HeldAlive DEF HeapInv, Graph
<1> HIDE DEF A, y
<1>3. HeapOK(g, Less(A, y)) /\ Full(g)
  BY <1>1, <1>2, AppendOK
<1>4. g.alive = Graph.alive
  BY DEF Graph
<1> HIDE DEF g
<1>5. /\ HeapOK(Retain(g, y), More(Less(A, y), y))
      /\ Retain(g, y).items = g.items
  BY <1>1, <1>2, <1>3, <1>4, RetainOK
<1>6. More(Less(A, y), y) = A
  BY <1>1, <1>2, MoreLess
<1>7. HeapOK(Retain(g, y), A) /\ Full(Retain(g, y))
  BY <1>3, <1>5, <1>6 DEF Full
<1> QED
  BY <1>1, <1>7, KeepOK DEF A

LEMMA RemoveItemInv ==
  ASSUME HeapInv, NEW o \in Objs, NEW i, NEW t \in Temps, RemoveItem(o, i, t)
  PROVE  HeapInv'
<1> DEFINE A == Accounted(slot, raw, lost)
           y == items[o][i]
           g == [Graph EXCEPT !.items[o] = RemoveAt(@, i)]
           h == Retain(g, y)
<1>1. /\ Counts(slot, raw, lost) /\ i \in DOMAIN items[o] /\ t \in Slots /\ slot[t] = None
      /\ raw' = raw /\ lost' = lost /\ slot' = Put(slot, t, y) /\ Keep(Release(h, y))
  BY DEF RemoveItem, HeapInv, Slots, Put
<1>2. /\ A \in [Objs -> Nat] /\ HeapOK(Graph, A) /\ Full(Graph)
      /\ y \in Objs /\ y \in Graph.alive
      /\ i \in DOMAIN Graph.items[o] /\ Graph.items[o][i] = y
  BY <1>1, AccountedNat, TakenAlive DEF HeapInv, Graph
<1> HIDE DEF A, y
<1>3. HeapOK(g, More(A, y)) /\ Full(g)
  BY <1>2, RemoveOK
<1>4. g.alive = Graph.alive
  BY DEF Graph
<1> HIDE DEF g
<1>5. /\ HeapOK(h, More(More(A, y), y))
      /\ h.items = g.items
  BY <1>2, <1>3, <1>4, RetainOK
<1>6. More(A, y) \in [Objs -> Nat] /\ More(More(A, y), y)[y] > 0 /\ Less(More(More(A, y), y), y) = More(A, y)
  BY <1>2, MoreLess
<1>7. Full(h)
  BY <1>3, <1>5 DEF Full
<1> HIDE DEF h
<1>8. HeapOK(Release(h, y), More(A, y)) /\ Full(Release(h, y))
  BY <1>2, <1>5, <1>6, <1>7, ReleaseOK, FullReleased
<1>9. /\ Counts(Put(slot, t, y), raw, lost)
      /\ Accounted(Put(slot, t, y), raw, lost) = More(A, y)
  BY <1>1, <1>2, GainSlot DEF A
<1> QED
  BY <1>1, <1>8, <1>9, KeepOK

LEMMA SetItemInv ==
  ASSUME HeapInv, NEW o \in Objs, NEW i, NEW s \in Slots, SetItem(o, i, s)
  PROVE  HeapInv'
<1> DEFINE A == Accounted(slot, raw, lost)
           y == slot[s]
           old == items[o][i]
           g == [Graph EXCEPT !.items[o][i] = None]
           h == Release(g, old)
           k == [h EXCEPT !.items[o][i] = y]
<1>1. /\ Counts(slot, raw, lost) /\ i \in DOMAIN items[o] /\ y \in Objs
      /\ raw' = raw /\ lost' = lost /\ slot' = slot /\ Keep(Retain(k, y))
  BY DEF SetItem, HeapInv, Counts, SlotValues
<1>2. /\ A \in [Objs -> Nat] /\ HeapOK(Graph, A) /\ Full(Graph)
      /\ old \in Objs /\ A[y] > 0 /\ i \in DOMAIN Graph.items[o] /\ Graph.items[o][i] = old
  BY <1>1, AccountedNat, TakenAlive, HeldAlive DEF HeapInv, Graph
<1>3. A[o] > 0
  <2>1. SlotsOn(o) > 0 \/ raw[o] > 0
    BY DEF SetItem, InHand
  <2>2. SlotsOn(o) = Count(slot, o)
    BY DEF SlotsOn, Count
  <2>3. raw[o] > 0 \/ \E p \in Slots : slot[p] = o
    BY <1>1, <2>1, <2>2, CountNat DEF Counts
  <2> QED
    BY <1>1, <2>3, AccountedHeld
<1>4. /\ g.items \in Contents /\ g.items[o][i] = None /\ i \in DOMAIN g.items[o]
      /\ \A x \in Objs \ {o} : g.items[x] = Graph.items[x]
      /\ g.items[o] = [Graph.items[o] EXCEPT ![i] = None]
  <2>1. Graph.items \in Contents
    BY <1>2 DEF HeapOK, Heaps
  <2>2. g.items = [Graph.items EXCEPT ![o] = [@ EXCEPT ![i] = None]]
    BY <2>1 DEF Graph
  <2>3. g.items \in Contents /\ g.items[o][i] = None /\ SameBut(Graph.items, g.items, o, i)
    BY <1>2, <2>1, <2>2, OnePlace, SMTT(40)
  <2>4. g.items[o] = [Graph.items[o] EXCEPT ![i] = None]
    BY <2>1, <2>2 DEF Contents
  <2> QED
    BY <1>2, <2>3, <2>4 DEF SameBut
<1> HIDE DEF A, y, old
<1>5. HeapOK(g, More(A, old))
  BY <1>2, HoleOK
<1>6. More(A, old)[old] > 0 /\ Less(More(A, old), old) = A
  BY <1>2, MoreLess
<1> HIDE DEF g
<1>7. /\ HeapOK(h, A)
      /\ \A x \in h.alive : h.items[x] = g.items[x]
      /\ \A x \in Objs : h.items[x] \in {g.items[x], <<>>}
  BY <1>2, <1>5, <1>6, ReleaseOK
<1> HIDE DEF h
<1>8. o \in h.alive /\ y \in h.alive
  BY <1>1, <1>2, <1>3, <1>7, OwedAlive
<1>9. h.items[o] = g.items[o] /\ h \in Heaps
  BY <1>7, <1>8 DEF HeapOK
<1>10. HeapOK(k, Less(A, y))
  BY <1>1, <1>2, <1>4, <1>7, <1>9, FillOK
<1>11. k.alive = h.alive /\ k.items = [h.items EXCEPT ![o] = [@ EXCEPT ![i] = y]]
  BY <1>9 DEF Heaps
<1> HIDE DEF k
<1>12. Full(k)
  <2>1. h.items \in Contents
    BY <1>9 DEF Heaps
  <2>2. Graph.items \in [Objs -> Seq(Objs)]
    BY <1>2 DEF Full
  <2>3. ASSUME NEW x \in Objs PROVE k.items[x] \in Seq(Objs)
    <3>1. CASE x = o
      <4>1. k.items[x] = [[Graph.items[o] EXCEPT ![i] = None] EXCEPT ![i] = y]
        BY <1>4, <1>9, <1>11, <2>1, <3>1 DEF Contents
      <4>2. k.items[x] = [Graph.items[o] EXCEPT ![i] = y]
        BY <1>2, <2>2, <4>1
      <4>3. Graph.items[o] \in Seq(Objs) /\ i \in 1 .. Len(Graph.items[o])
        BY <1>2, <2>2
      <4>4. [Graph.items[o] EXCEPT ![i] = y] \in Seq(Objs)
        BY <1>1, <4>3, ExceptSeq
      <4> QED
        BY <4>2, <4>4
    <3>2. CASE x # o
      <4>1. k.items[x] = h.items[x]
        BY <1>11, <2>1, <3>2 DEF Contents
      <4>2. h.items[x] \in {Graph.items[x], <<>>}
        BY <1>4, <1>7, <3>2
      <4>3. Graph.items[x] \in Seq(Objs) /\ <<>> \in Seq(Objs)
        BY <2>2
      <4> QED
        BY <4>1, <4>2, <4>3
    <3> QED
      BY <3>1, <3>2
  <2>4. k.items \in Contents
    BY <1>10 DEF HeapOK, Heaps
  <2> QED
    BY <2>3, <2>4 DEF Full, Contents
<1>13. /\ HeapOK(Retain(k, y), More(Less(A, y), y))
       /\ Retain(k, y).items = k.items
  BY <1>1, <1>8, <1>10, <1>11, RetainOK
<1>14. More(Less(A, y), y) = A
  BY <1>1, <1>2, MoreLess
<1>15. HeapOK(Retain(k, y), A) /\ Full(Retain(k, y))
  BY <1>12, <1>13, <1>14 DEF Full
<1> QED
  BY <1>1, <1>15, KeepOK DEF A

-----------------------------------------------------------------------------
(* Assignments.                                                            *)

LEMMA Emptied ==
  ASSUME NEW f, NEW r, NEW l, Counts(f, r, l), NEW g, HeapOK(g, Accounted(f, r, l)), Full(g),
         NEW s \in Slots
  PROVE  /\ Counts(Put(f, s, None), r, l)
         /\ HeapOK(Release(g, f[s]), Accounted(Put(f, s, None), r, l))
         /\ Full(Release(g, f[s]))
<1>1. CASE f[s] = None
  <2>1. Put(f, s, None) = f
    BY <1>1 DEF Put, Counts, SlotValues
  <2>2. Release(g, f[s]) = g
    BY <1>1 DEF Release
  <2> QED
    BY <2>1, <2>2
<1>2. CASE f[s] # None
  <2>1. f[s] \in Objs
    BY <1>2 DEF Counts, SlotValues
  <2>2. /\ Counts(Put(f, s, None), r, l)
        /\ Accounted(Put(f, s, None), r, l) = Less(Accounted(f, r, l), f[s])
    BY <2>1, LoseSlot
  <2>3. Accounted(f, r, l)[f[s]] > 0
    BY <2>1, AccountedHeld
  <2>4. HeapOK(Release(g, f[s]), Less(Accounted(f, r, l), f[s]))
    BY <2>1, <2>3, ReleaseOK
  <2>5. Full(Release(g, f[s]))
    BY <2>1, <2>3, FullReleased
  <2> QED
    BY <2>2, <2>4, <2>5
<1> QED
  BY <1>1, <1>2

LEMMA Filled ==
  ASSUME NEW f, NEW r, NEW l, Counts(f, r, l), NEW g, HeapOK(g, Accounted(f, r, l)), Full(g),
         NEW s \in Slots, f[s] = None, NEW p \in Slots
  PROVE  /\ Counts(Put(f, s, f[p]), r, l)
         /\ HeapOK(Retain(g, f[p]), Accounted(Put(f, s, f[p]), r, l))
         /\ Full(Retain(g, f[p]))
<1>1. CASE f[p] = None
  <2>1. Put(f, s, f[p]) = f
    BY <1>1 DEF Put, Counts, SlotValues
  <2>2. Retain(g, f[p]) = g
    BY <1>1 DEF Retain
  <2> QED
    BY <2>1, <2>2
<1>2. CASE f[p] # None
  <2>1. f[p] \in Objs
    BY <1>2 DEF Counts, SlotValues
  <2>2. /\ Counts(Put(f, s, f[p]), r, l)
        /\ Accounted(Put(f, s, f[p]), r, l) = More(Accounted(f, r, l), f[p])
    BY <2>1, GainSlot
  <2>3. Accounted(f, r, l)[f[p]] > 0
    BY <2>1, AccountedHeld
  <2>4. f[p] \in g.alive
    BY <2>1, <2>3, OwedAlive
  <2>5. /\ HeapOK(Retain(g, f[p]), More(Accounted(f, r, l), f[p]))
        /\ Retain(g, f[p]).items = g.items
    BY <2>1, <2>4, RetainOK
  <2> QED
    BY <2>2, <2>5 DEF Full
<1> QED
  BY <1>1, <1>2

LEMMA MoreLessCommute ==
  ASSUME NEW A \in [Objs -> Nat], NEW x \in Objs, NEW y \in Objs
  PROVE  Less(More(A, x), y) = More(Less(A, y), x)
  BY DEF More, Less

LEMMA AssignInv ==
  ASSUME HeapInv, NEW to \in Slots, NEW from \in Slots, NEW newFirst \in BOOLEAN,
         Assign(to, from, newFirst)
  PROVE  HeapInv'
<1> DEFINE old   == slot[to]
           new   == slot[from]
           empty == Put(slot, to, None)
           A     == Accounted(slot, raw, lost)
<1>1. /\ Counts(slot, raw, lost) /\ HeapOK(Graph, A) /\ Full(Graph) /\ to # from
      /\ raw' = raw /\ lost' = lost
      /\ Keep(IF newFirst THEN ReplaceNewFirst(Graph, old, new) ELSE Replace(Graph, old, new))
  BY DEF Assign, HeapInv
<1>2. /\ slot' = Put(empty, to, new) /\ empty[to] = None /\ empty[from] = new
      /\ old \in Objs \cup {None} /\ new \in Objs \cup {None}
  BY <1>1 DEF Assign, Counts, SlotValues, Put
<1>3. /\ Counts(empty, raw, lost)
      /\ HeapOK(Release(Graph, old), Accounted(empty, raw, lost))
      /\ Full(Release(Graph, old))
  BY <1>1, Emptied
<1> HIDE DEF empty
<1>4. /\ Counts(slot', raw', lost')
      /\ HeapOK(Replace(Graph, old, new), Accounted(slot', raw', lost'))
      /\ Full(Replace(Graph, old, new))
  <2>1. /\ Counts(Put(empty, to, new), raw, lost)
        /\ HeapOK(Retain(Release(Graph, old), new), Accounted(Put(empty, to, new), raw, lost))
        /\ Full(Retain(Release(Graph, old), new))
    BY <1>2, <1>3, Filled
  <2> QED
    BY <1>1, <1>2, <2>1 DEF Replace
<1>5. CASE ~newFirst
  BY <1>1, <1>4, <1>5, KeepOK
<1>6. CASE newFirst /\ new = None
  <2>1. ReplaceNewFirst(Graph, old, new) = Replace(Graph, old, new)
    BY <1>6 DEF ReplaceNewFirst, Replace, Retain
  <2> QED
    BY <1>1, <1>4, <1>6, <2>1, KeepOK
<1>7. CASE newFirst /\ old = None
  <2>1. ReplaceNewFirst(Graph, old, new) = Replace(Graph, old, new)
    BY <1>7 DEF ReplaceNewFirst, Replace, Release
  <2> QED
    BY <1>1, <1>4, <1>7, <2>1, KeepOK
<1>8. CASE newFirst /\ new # None /\ old # None
  <2>1. new \in Objs /\ old \in Objs
    BY <1>2, <1>8
  <2>2. A \in [Objs -> Nat] /\ A[new] > 0 /\ A[old] > 0
    BY <1>1, <2>1, AccountedNat, AccountedHeld
  <2> DEFINE g == Retain(Graph, new)
  <2>3. HeapOK(g, More(A, new)) /\ Full(g)
    <3>1. new \in Graph.alive
      BY <1>1, <2>1, <2>2, OwedAlive
    <3>2. HeapOK(g, More(A, new)) /\ g.items = Graph.items
      BY <1>1, <2>1, <3>1, RetainOK
    <3> QED
      BY <1>1, <3>2 DEF Full
  <2>4. More(A, new)[old] > 0
    BY <2>1, <2>2, MoreLess
  <2> HIDE DEF g
  <2>5. HeapOK(Release(g, old), Less(More(A, new), old)) /\ Full(Release(g, old))
    BY <2>1, <2>3, <2>4, ReleaseOK, FullReleased
  <2>6. Less(More(A, new), old) = Accounted(slot', raw', lost')
    <3>1. Accounted(empty, raw, lost) = Less(A, old)
      BY <1>1, <2>1, LoseSlot DEF empty
    <3>2. Accounted(Put(empty, to, new), raw, lost) = More(Accounted(empty, raw, lost), new)
      BY <1>2, <1>3, <2>1, GainSlot
    <3>3. Less(More(A, new), old) = More(Less(A, old), new)
      BY <2>1, <2>2, MoreLessCommute
    <3> QED
      BY <1>1, <1>2, <3>1, <3>2, <3>3
  <2>7. ReplaceNewFirst(Graph, old, new) = Release(g, old)
    BY DEF ReplaceNewFirst, g
  <2> QED
    BY <1>1, <1>4, <1>8, <2>5, <2>6, <2>7, KeepOK
<1> QED
  BY <1>5, <1>6, <1>7, <1>8

-----------------------------------------------------------------------------
(* Collections, and the invariant of the specification.                    *)

LEMMA CollectsNothing ==
  ASSUME HeapInv, CollectCycles
  PROVE  UNCHANGED <<alive, rc, items, slot, raw, lost>> /\ swept' = TRUE
<1>1. \A o \in Objs : o \in alive <=> rc[o] > 0
  BY DEF HeapInv, HeapOK, Graph
<1>2. alive \subseteq Objs
  BY DEF HeapInv, HeapOK, Heaps, Graph
<1> QED
  BY <1>1, <1>2 DEF CollectCycles

LEMMA InitInv ==
  ASSUME Init
  PROVE  HeapInv
<1>1. Counts(slot, raw, lost) /\ swept \in BOOLEAN
  <2>1. slot \in SlotValues /\ swept \in BOOLEAN
    BY DEF Init, SlotValues
  <2>2. raw \in [Objs -> 0 .. 1] /\ lost \in [Objs -> Nat]
    BY DEF Init
  <2> QED
    BY <2>1, <2>2 DEF Counts
<1>2. Graph \in Heaps /\ Full(Graph)
  BY DEF Init, Graph, Heaps, Contents, Full
<1>3. ASSUME NEW x \in Objs
      PROVE  Accounted(slot, raw, lost)[x] = 0 /\ HeldBy(x, Graph.alive, Graph.items) = 0
  <2>1. HeldBy(x, Graph.alive, Graph.items) = 0
    BY <1>2, HeldByNone DEF Init, Graph, Heaps
  <2>2. ~ \E s \in Slots : slot[s] = x
    BY HeapAssumption DEF Init, HeapAssumption
  <2>3. Count(slot, x) \in Nat /\ ~(Count(slot, x) > 0)
    BY <1>1, <2>2, CountNat DEF Counts
  <2>4. Count(slot, x) = 0
    BY <2>3
  <2>5. Accounted(slot, raw, lost)[x] = Count(slot, x) + raw[x] + lost[x]
    BY <1>1, AccountedNat
  <2> QED
    BY <2>1, <2>4, <2>5 DEF Init
<1>4. Accounted(slot, raw, lost) \in [Objs -> Nat]
  BY <1>1, AccountedNat
<1>5. /\ \A x \in Objs : x \in Graph.alive <=> Graph.rc[x] > 0
      /\ \A x \in Objs : x \notin Graph.alive \/ x \in Strings => Graph.items[x] = <<>>
      /\ \A x \in Objs : Graph.rc[x] = 0
  BY DEF Init, Graph
<1>6. HeapOK(Graph, Accounted(slot, raw, lost))
  BY <1>2, <1>3, <1>4, <1>5 DEF HeapOK
<1> QED
  BY <1>1, <1>2, <1>6 DEF HeapInv

LEMMA StepInv ==
  ASSUME HeapInv, [Next]_vars
  PROVE  HeapInv'
<1>1. CASE UNCHANGED vars
  <2>1. UNCHANGED <<alive, rc, items>> /\ slot' = slot /\ raw' = raw /\ lost' = lost /\ swept' = swept
    BY <1>1 DEF vars
  <2> QED
    BY <2>1, SameHeapOK DEF HeapInv
<1>2. CASE CollectCycles
  <2>1. UNCHANGED <<alive, rc, items>> /\ slot' = slot /\ raw' = raw /\ lost' = lost /\ swept' = TRUE
    BY <1>2, CollectsNothing
  <2> QED
    BY <2>1, SameHeapOK DEF HeapInv
<1>3. ASSUME NEW o \in Objs, NewObject(o) \/ DropRaw(o) \/ ForgetRaw(o)
      PROVE  HeapInv'
  BY <1>3, NewObjectInv, DropRawInv, ForgetRawInv
<1>4. ASSUME NEW o \in Objs, NEW t \in Temps, NewString(t, o) \/ Box(t, o)
      PROVE  HeapInv'
  BY <1>4, NewStringInv, BoxInv
<1>5. ASSUME NEW o \in Objs, NEW s \in Slots, AppendTo(o, s)
      PROVE  HeapInv'
  BY <1>5, AppendToInv
<1>6. ASSUME NEW o \in Objs, NEW i \in 1 .. MaxItems, NEW s \in Slots, SetItem(o, i, s)
      PROVE  HeapInv'
  BY <1>6, SetItemInv
<1>7. ASSUME NEW o \in Objs, NEW i \in 1 .. MaxItems, NEW t \in Temps, RemoveItem(o, i, t) \/ Index(o, i, t)
      PROVE  HeapInv'
  BY <1>7, RemoveItemInv, IndexInv
<1>8. ASSUME NEW v \in Vars, NEW t \in Temps, Load(v, t)
      PROVE  HeapInv'
  BY <1>8, LoadInv
<1>9. ASSUME NEW to \in Slots, NEW from \in Slots, NEW newFirst \in BOOLEAN, Assign(to, from, newFirst)
      PROVE  HeapInv'
  BY <1>9, AssignInv
<1>10. ASSUME NEW s \in Slots, ReleaseSlot(s)
       PROVE  HeapInv'
  BY <1>10, ReleaseSlotInv
<1>11. ASSUME NEW t \in Temps, ForgetTemp(t)
       PROVE  HeapInv'
  BY <1>11, ForgetTempInv
<1> QED
  BY <1>1, <1>2, <1>3, <1>4, <1>5, <1>6, <1>7, <1>8, <1>9, <1>10, <1>11 DEF Next

\* In every reachable state the heap owes each object exactly the references
\* that variables, temporaries, C pointers and losses account for (the retain
\* and release calls of value_core.c and of the code the compiler emits).
THEOREM HeapInvHolds == Spec => []HeapInv
<1>1. Init => HeapInv
  BY InitInv
<1>2. HeapInv /\ [Next]_vars => HeapInv'
  BY StepInv
<1> QED
  BY <1>1, <1>2, PTL DEF Spec

-----------------------------------------------------------------------------
(* What follows from it.                                                   *)

LEMMA InvMeans ==
  ASSUME HeapInv
  PROVE  TypeOK /\ RefsExact
<1>1. /\ Graph \in Heaps /\ Full(Graph) /\ Counts(slot, raw, lost) /\ swept \in BOOLEAN
      /\ \A x \in Objs : x \in Graph.alive <=> Graph.rc[x] > 0
      /\ \A x \in Objs : x \notin Graph.alive \/ x \in Strings => Graph.items[x] = <<>>
      /\ \A x \in Objs : Graph.rc[x] = Accounted(slot, raw, lost)[x] + HeldBy(x, Graph.alive, Graph.items)
  BY DEF HeapInv, HeapOK
<1>2. TypeOK
  BY <1>1 DEF TypeOK, Graph, Heaps, Full, Counts, SlotValues
<1>3. ASSUME NEW o \in Objs
      PROVE  rc[o] = SlotsOn(o) + HeldBy(o, alive, items) + raw[o] + lost[o]
  <2>1. rc[o] = Accounted(slot, raw, lost)[o] + HeldBy(o, alive, items)
    BY <1>1 DEF Graph
  <2>2. /\ Accounted(slot, raw, lost)[o] = Count(slot, o) + raw[o] + lost[o]
        /\ Count(slot, o) \in Nat /\ raw[o] \in Nat /\ lost[o] \in Nat
    BY <1>1, AccountedNat
  <2>3. HeldBy(o, alive, items) \in Nat
    BY <1>1, HeldByNat DEF Graph
  <2>4. SlotsOn(o) = Count(slot, o)
    BY DEF SlotsOn, Count
  <2> QED
    BY <2>1, <2>2, <2>3, <2>4
<1> QED
  BY <1>2, <1>3 DEF RefsExact

LEMMA InvNoDangling ==
  ASSUME HeapInv
  PROVE  NoDangling
<1>1. ASSUME NEW s \in Slots, slot[s] # None
      PROVE  slot[s] \in alive
  <2>1. slot[s] \in Objs
    BY <1>1 DEF HeapInv, Counts, SlotValues
  <2> QED
    BY <2>1, HeldAlive
<1>2. ASSUME NEW o \in alive, NEW x \in ToSet(items[o])
      PROVE  x \in alive
  <2>1. o \in Objs
    BY DEF HeapInv, HeapOK, Heaps, Graph
  <2>2. PICK i \in DOMAIN items[o] : items[o][i] = x
    BY DEF ToSet
  <2> QED
    BY <2>1, <2>2, TakenAlive
<1>3. ASSUME NEW o \in Objs, raw[o] > 0
      PROVE  o \in alive
  BY <1>3, HeldAlive
<1> QED
  BY <1>1, <1>2, <1>3 DEF NoDangling

\* Every variable keeps its type, and an object is allocated exactly while its
\* count is positive, for any objects, variables and temporaries.
THEOREM TypesHold == Spec => []TypeOK
<1>1. HeapInv => TypeOK
  BY InvMeans
<1> QED
  BY <1>1, HeapInvHolds, PTL

\* Every reference count is the number of references there are.
THEOREM RefsExactHolds == Spec => []RefsExact
<1>1. HeapInv => RefsExact
  BY InvMeans
<1> QED
  BY <1>1, HeapInvHolds, PTL

\* No variable, temporary, container or C pointer refers to a freed object.
THEOREM NoDanglingHolds == Spec => []NoDangling
<1>1. HeapInv => NoDangling
  BY InvNoDangling
<1> QED
  BY <1>1, HeapInvHolds, PTL

-----------------------------------------------------------------------------
(* Reachability.                                                           *)

ClosedUnder(S, refs) == \A x \in S : refs[x] \subseteq S

LEMMA ReachByIs ==
  ASSUME NEW from, NEW refs
  PROVE  /\ ReachBy(from, refs) \subseteq alive
         /\ \A S \in SUBSET alive :
              from \subseteq S /\ ClosedUnder(S, refs) => ReachBy(from, refs) \subseteq S
         /\ \A x \in alive :
              (\A S \in SUBSET alive : from \subseteq S /\ ClosedUnder(S, refs) => x \in S)
                => x \in ReachBy(from, refs)
  BY DEF ReachBy, ClosedUnder

Held == [x \in Objs |-> ToSet(items[x])]

LEMMA ReachIs ==
  ASSUME NoDangling, alive \subseteq Objs, NEW from, from \subseteq alive
  PROVE  /\ from \subseteq Reach(from) /\ Reach(from) \subseteq alive
         /\ \A x \in Reach(from) : ToSet(items[x]) \subseteq Reach(from)
         /\ \A S \in SUBSET alive :
              from \subseteq S /\ (\A x \in S : ToSet(items[x]) \subseteq S) => Reach(from) \subseteq S
<1>1. Reach(from) = ReachBy(from, Held)
  BY DEF Reach, Held
<1>2. \A x \in alive : Held[x] = ToSet(items[x]) /\ Held[x] \subseteq alive
  BY DEF Held, NoDangling
<1> HIDE DEF Held
<1>3. \A S \in SUBSET alive : ClosedUnder(S, Held) <=> \A x \in S : ToSet(items[x]) \subseteq S
  BY <1>2 DEF ClosedUnder
<1>4. /\ ReachBy(from, Held) \subseteq alive
      /\ \A S \in SUBSET alive :
           from \subseteq S /\ ClosedUnder(S, Held) => ReachBy(from, Held) \subseteq S
      /\ \A x \in alive :
           (\A S \in SUBSET alive : from \subseteq S /\ ClosedUnder(S, Held) => x \in S)
             => x \in ReachBy(from, Held)
  BY ReachByIs
<1> DEFINE R == ReachBy(from, Held)
<1> HIDE DEF R
<1>5. ASSUME NEW x \in from PROVE x \in R
  BY <1>4 DEF R
<1>6. ASSUME NEW x \in R, NEW y \in ToSet(items[x]) PROVE y \in R
  <2>1. x \in alive /\ y \in alive
    BY <1>2, <1>4 DEF R
  <2>2. SUFFICES ASSUME NEW S \in SUBSET alive, from \subseteq S, ClosedUnder(S, Held) PROVE y \in S
    BY <1>4, <2>1 DEF R
  <2>3. x \in S
    BY <1>4, <2>2 DEF R
  <2> QED
    BY <1>2, <2>1, <2>2, <2>3 DEF ClosedUnder
<1> QED
  BY <1>1, <1>3, <1>4, <1>5, <1>6 DEF R

LEMMA ReachMonotonic ==
  ASSUME NoDangling, alive \subseteq Objs, NEW from, from \subseteq alive, NEW to, to \subseteq Reach(from)
  PROVE  Reach(to) \subseteq Reach(from)
  BY ReachIs

\* A finite set of objects that each have a holder among them holds a cycle.
LEMMA HeldInCycle ==
  ASSUME NoDangling, alive \subseteq Objs, NEW U, U \subseteq alive, U # {},
         \A u \in U : \E h \in U : u \in ToSet(items[h])
  PROVE  \E u \in U : u \in Cyclic
<1> DEFINE reached == [u \in alive |-> Cardinality(Reach({u}))]
           spare == {Cardinality(Objs) - reached[u] : u \in U}
<1>1. \A u \in alive : /\ IsFiniteSet(Reach({u})) /\ reached[u] \in Nat
                       /\ reached[u] <= Cardinality(Objs) /\ Cardinality(Objs) \in Nat
  <2>1. SUFFICES ASSUME NEW u \in alive
                 PROVE  /\ IsFiniteSet(Reach({u})) /\ reached[u] \in Nat
                        /\ reached[u] <= Cardinality(Objs) /\ Cardinality(Objs) \in Nat
    OBVIOUS
  <2>2. Reach({u}) \subseteq Objs
    BY ReachIs
  <2>3. IsFiniteSet(Objs)
    BY HeapAssumption DEF HeapAssumption
  <2> QED
    BY <2>2, <2>3, FS_Subset, FS_CardinalityType
<1> HIDE DEF reached
<1>11. ASSUME NEW u \in U
      PROVE  Cardinality(Objs) - reached[u] \in spare
  OBVIOUS
<1>2. spare # {} /\ spare \subseteq Nat
  <2>1. PICK u \in U : TRUE
    OBVIOUS
  <2>2. Cardinality(Objs) - reached[u] \in spare
    BY <1>11
  <2>3. \A v \in U : Cardinality(Objs) - reached[v] \in Nat
    <3>1. SUFFICES ASSUME NEW v \in U PROVE Cardinality(Objs) - reached[v] \in Nat
      OBVIOUS
    <3>2. reached[v] \in Nat /\ Cardinality(Objs) \in Nat /\ reached[v] <= Cardinality(Objs)
      BY <1>1
    <3> HIDE DEF spare
    <3> QED
      BY <3>2
  <2>4. spare \subseteq Nat
    BY <2>3
  <2> HIDE DEF spare
  <2> QED
    BY <2>2, <2>4
<1>3. PICK n \in spare : \A m \in spare : m >= n
  <2>1. \A m, k \in Nat : <<m, k>> \in OpToRel(<, Nat) <=> m < k
    BY DEF OpToRel
  <2>2. IsWellFoundedOn(OpToRel(<, Nat), Nat)
    BY NatLessThanWellFounded
  <2> HIDE DEF spare
  <2>3. \E x \in spare : \A y \in spare : ~(<<y, x>> \in OpToRel(<, Nat))
    BY <1>2, <2>2, WFMin
  <2>4. PICK n \in spare : \A y \in spare : ~(<<y, n>> \in OpToRel(<, Nat))
    BY <2>3
  <2>5. ASSUME NEW m \in spare PROVE m >= n
    <3>1. m \in Nat /\ n \in Nat
      BY <1>2
    <3>2. ~(m < n)
      BY <2>1, <2>4, <3>1
    <3> QED
      BY <3>1, <3>2
  <2> QED
    BY <2>5
<1>4. PICK u \in U : n = Cardinality(Objs) - reached[u]
  OBVIOUS
<1>5. PICK h \in U : u \in ToSet(items[h])
  OBVIOUS
<1>6. u \in alive /\ h \in alive /\ {u} \subseteq alive /\ {h} \subseteq alive
  OBVIOUS
<1>7. h \in Reach({h}) /\ u \in Reach({h})
  BY <1>5, <1>6, ReachIs
<1>8. Reach({u}) \subseteq Reach({h})
  BY <1>6, <1>7, ReachMonotonic
<1>9. h \in Reach({u})
  <2>1. SUFFICES ASSUME h \notin Reach({u}) PROVE FALSE
    OBVIOUS
  <2>2. Reach({u}) # Reach({h})
    BY <1>7, <2>1
  <2>3. reached[u] < reached[h]
    <3>1. /\ Cardinality(Reach({u})) <= Cardinality(Reach({h}))
          /\ Cardinality(Reach({h})) = Cardinality(Reach({u})) => Reach({h}) = Reach({u})
      BY <1>1, <1>6, <1>8, FS_Subset
    <3> QED
      BY <1>1, <1>6, <2>2, <3>1 DEF reached
  <2>4. Cardinality(Objs) - reached[h] \in spare
    BY <1>11
  <2> HIDE DEF spare
  <2>5. Cardinality(Objs) - reached[h] >= n
    BY <1>3, <2>4
  <2>6. reached[u] \in Nat /\ reached[h] \in Nat /\ Cardinality(Objs) \in Nat
    BY <1>1, <1>6
  <2> QED
    BY <1>4, <2>3, <2>5, <2>6
<1>10. h \in Cyclic
  BY <1>5, <1>6, <1>9 DEF Cyclic
<1> QED
  BY <1>10

LEMMA InvGarbageExplained ==
  ASSUME HeapInv
  PROVE  GarbageExplained
<1> DEFINE known == Holders \cup Leaked \cup Cyclic
           U == alive \ Reach(known)
<1>1. NoDangling /\ TypeOK /\ RefsExact /\ alive \subseteq Objs /\ items \in Contents
  <2>1. alive \subseteq Objs /\ items \in Contents
    BY DEF HeapInv, HeapOK, Heaps, Graph
  <2> QED
    BY <2>1, InvNoDangling, InvMeans
<1>2. known \subseteq alive
  BY DEF Holders, Leaked, Cyclic
<1> HIDE DEF known
<1>3. known \subseteq Reach(known) /\ \A x \in Reach(known) : ToSet(items[x]) \subseteq Reach(known)
  BY <1>1, <1>2, ReachIs
<1>4. ASSUME NEW u \in U PROVE \E h \in U : u \in ToSet(items[h])
  <2>1. u \in alive /\ u \notin known
    BY <1>3
  <2>2. u \in Objs /\ u \notin Holders /\ u \notin Leaked
    BY <1>1, <2>1 DEF known
  <2>3. /\ SlotsOn(u) \in Nat /\ raw[u] \in Nat /\ lost[u] \in Nat /\ rc[u] > 0
        /\ HeldBy(u, alive, items) \in Nat
    <3>1. SlotsOn(u) = Count(slot, u) /\ Count(slot, u) \in Nat
      BY CountNat DEF SlotsOn, Count, HeapInv, Counts
    <3>2. raw[u] \in 0 .. 1 /\ lost[u] \in Nat
      BY <1>1, <2>2 DEF TypeOK
    <3>3. rc[u] > 0
      BY <1>1, <2>1 DEF TypeOK
    <3> QED
      BY <1>1, <3>1, <3>2, <3>3, ReferencesFinite
  <2>4. SlotsOn(u) = 0 /\ raw[u] = 0 /\ lost[u] = 0
    BY <2>1, <2>2, <2>3 DEF Holders, Leaked
  <2>5. HeldBy(u, alive, items) > 0
    BY <1>1, <2>2, <2>3, <2>4 DEF RefsExact
  <2>6. PICK h \in alive : u \in ToSet(items[h])
    BY <1>1, <2>5, HolderOf
  <2>7. h \notin Reach(known)
    BY <1>3, <2>6
  <2> QED
    BY <2>6, <2>7
<1>5. U \subseteq alive
  OBVIOUS
<1>6. U = {}
  <2>1. SUFFICES ASSUME U # {} PROVE FALSE
    OBVIOUS
  <2> HIDE DEF U
  <2>2. PICK u \in U : u \in Cyclic
    BY <1>1, <1>4, <1>5, <2>1, HeldInCycle
  <2> QED
    BY <1>3, <2>2 DEF U, known
<1> QED
  BY <1>6 DEF GarbageExplained, known

\* An object without a holder is explained by a lost reference or a cycle: a
\* release frees whatever acyclic structure it was the last to hold, however the
\* structure is shared.
THEOREM GarbageExplainedHolds == Spec => []GarbageExplained
<1>1. HeapInv => GarbageExplained
  BY InvGarbageExplained
<1> QED
  BY <1>1, HeapInvHolds, PTL

LEMMA StepFreesOnlyGarbage ==
  ASSUME HeapInv, NoDangling, NoDangling', Next
  PROVE  /\ ReachBy(Holders \cap Holders',
                    [x \in Objs |-> ToSet(items[x]) \cap ToSet(items'[x])]) \subseteq alive'
         /\ swept' => alive' = alive
<1> DEFINE refs == [x \in Objs |-> ToSet(items[x]) \cap ToSet(items'[x])]
           S == alive \cap alive'
<1>2. Holders \cap Holders' \subseteq S
  BY DEF Holders
<1>3. ClosedUnder(S, refs)
  BY DEF ClosedUnder, NoDangling, HeapInv, HeapOK, Heaps, Graph
<1>4. ReachBy(Holders \cap Holders', refs) \subseteq S
  <2> HIDE DEF refs
  <2> QED
    BY <1>2, <1>3, ReachByIs
<1>5. swept' => CollectCycles
  BY DEF Next, NewObject, DropRaw, ForgetRaw, NewString, Box, AppendTo, SetItem, RemoveItem, Index,
         Load, Assign, ReleaseSlot, ForgetTemp, Born, Keep
<1>6. swept' => alive' = alive
  BY <1>5, CollectsNothing
<1> QED
  BY <1>4, <1>6

\* What is held on to on both sides of a step, and reached through references
\* the step leaves alone, is not freed by it; a collection frees nothing.
THEOREM FreesOnlyGarbageHolds == Spec => FreesOnlyGarbage
<1>1. HeapInv => NoDangling
  BY InvNoDangling
<1>2. HeapInv /\ NoDangling /\ NoDangling' /\ [Next]_vars =>
        [/\ ReachBy(Holders \cap Holders',
                    [x \in Objs |-> ToSet(items[x]) \cap ToSet(items'[x])]) \subseteq alive'
         /\ swept' => alive' = alive]_vars
  BY StepFreesOnlyGarbage
<1> QED
  BY <1>1, <1>2, HeapInvHolds, PTL DEF Spec, FreesOnlyGarbage
=============================================================================
