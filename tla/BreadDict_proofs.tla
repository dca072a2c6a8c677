-------------------------- MODULE BreadDict_proofs --------------------------
(***************************************************************************)
(* Proofs about the dictionary's table: its count, the way from the home   *)
(* slot of a key to its entry, and the map it implements.                  *)
(***************************************************************************)
EXTENDS BreadDict, FiniteSetTheorems, SequenceTheorems, WellFoundedInduction, TLAPS

-----------------------------------------------------------------------------
(* The invariant.                                                          *)

\* A table of c slots.
Table(c) == [0 .. (c - 1) -> Slot]

\* No key has two entries.
OneEach(t) == \A r, s \in Live(t) : t[r].key = t[s].key => r = s

\* A probe for a key ends at its entry.
Reachable(t) == \A s \in Live(t) : FindSlot(t, t[s].key) = s

\* Where no two keys have the same home slot, every entry is in it.
AtHome(t) == \A s \in Live(t) : Separate(t) => Probe(t, t[s].key, 0) = s

\* The dictionary's types are those of every entry.
Typed(t, kt, vt) ==
  \A s \in Live(t) : KeyType[t[s].key] = kt /\ ValueType[t[s].val] = vt

\* A table of n entries that the calls made on the dictionary can work on.
Good(t, n) ==
  /\ Capacity(t) \in Nat
  /\ t \in Table(Capacity(t))
  /\ n = Cardinality(Live(t))
  /\ OneEach(t)
  /\ ~byName => Reachable(t) /\ AtHome(t)

DictInv == TypeOK /\ Good(table, count) /\ Typed(table, keyType, valueType)

-----------------------------------------------------------------------------
(* Arithmetic: the probes for a key visit every slot.                      *)

LEMMA Division ==
  ASSUME NEW c \in Nat \ {0}, NEW h \in Nat
  PROVE  /\ h \div c \in Nat
         /\ h % c \in 0 .. (c - 1)
         /\ h = (c * (h \div c)) + (h % c)
  OBVIOUS

LEMMA AtLeastOnce ==
  ASSUME NEW c \in Nat \ {0}, NEW q \in Int, q >= 1
  PROVE  c * q >= c
  OBVIOUS

LEMMA SameRemainder ==
  ASSUME NEW c \in Nat \ {0}, NEW q \in Int, NEW p \in Int, NEW s \in 0 .. (c - 1), NEW r \in 0 .. (c - 1),
         (c * q) + s = (c * p) + r
  PROVE  s = r
<1>0. c * (q - p) = (c * q) - (c * p) /\ c * (p - q) = (c * p) - (c * q)
  OBVIOUS
<1>1. CASE q >= p + 1
  <2>. c * (q - p) >= c
    BY <1>1, AtLeastOnce
  <2> QED
    BY <1>0
<1>2. CASE p >= q + 1
  <2>. c * (p - q) >= c
    BY <1>2, AtLeastOnce
  <2> QED
    BY <1>0
<1>3. CASE p = q
  BY <1>3
<1> QED
  BY <1>1, <1>2, <1>3

LEMMA Covers ==
  ASSUME NEW c \in Nat \ {0}, NEW h \in Nat, NEW s \in 0 .. (c - 1)
  PROVE  \E d \in 0 .. (c - 1) : (h + d) % c = s
<1>. DEFINE r == h % c
            q == h \div c
            d == IF s >= r THEN s - r ELSE s - r + c
            p == IF s >= r THEN q ELSE q + 1
            e == h + d
<1>1. r \in 0 .. (c - 1) /\ q \in Nat /\ h = (c * q) + r
  BY Division
<1>2. d \in 0 .. (c - 1) /\ p \in Nat /\ e \in Nat
  BY <1>1
<1>3. e = (c * p) + s
  <2>1. c * (q + 1) = (c * q) + c
    BY <1>1
  <2> QED
    BY <1>1, <2>1
<1>4. e \div c \in Nat /\ e % c \in 0 .. (c - 1) /\ e = (c * (e \div c)) + (e % c)
  <2>. HIDE DEF e
  <2> QED
    BY <1>2, Division
<1>5. s = e % c
  <2>. DEFINE a == e \div c
              b == e % c
  <2>1. p \in Int /\ a \in Int /\ b \in 0 .. (c - 1) /\ (c * p) + s = (c * a) + b
    <3>. HIDE DEF e, p
    <3> QED
      BY <1>2, <1>3, <1>4
  <2>. HIDE DEF a, b, p
  <2>2. s = b
    BY <2>1, SameRemainder
  <2> QED
    BY <2>2 DEF b
<1> QED
  BY <1>2, <1>5

LEMMA MinIs ==
  ASSUME NEW S \in SUBSET Nat, S # {}
  PROVE  Min(S) \in S /\ \A x \in S : Min(S) <= x
<1>. DEFINE Less == {ss \in Nat \X Nat : ss[1] < ss[2]}
<1>1. IsWellFoundedOn(Less, Nat)
  BY NatLessThanWellFounded DEF OpToRel
<1>2. PICK m \in S : \A x \in S : ~ (<<x, m>> \in Less)
  <2>. HIDE DEF Less
  <2> QED
    BY <1>1, WFMin
<1>3. ASSUME NEW x \in S
      PROVE  m <= x
  <2>1. x \in Nat /\ m \in Nat /\ ~ (<<x, m>> \in Less)
    BY <1>2
  <2>2. ~ (x < m)
    BY <2>1
  <2> QED
    BY <2>1, <2>2
<1> QED
  BY <1>3 DEF Min

-----------------------------------------------------------------------------
(* Tables and probes.                                                      *)

LEMMA CapacityIs ==
  ASSUME NEW c \in Nat, NEW t \in Table(c)
  PROVE  /\ DOMAIN t = 0 .. (c - 1)
         /\ Capacity(t) = c
  BY FS_Interval DEF Table, Capacity

LEMMA LiveIs ==
  ASSUME NEW c \in Nat, NEW t \in Table(c)
  PROVE  /\ Live(t) \subseteq 0 .. (c - 1)
         /\ IsFiniteSet(Live(t))
         /\ Cardinality(Live(t)) \in Nat
<1>1. Live(t) \subseteq 0 .. (c - 1)
  BY CapacityIs DEF Live
<1>2. IsFiniteSet(0 .. (c - 1))
  BY FS_Interval
<1> QED
  BY <1>1, <1>2, FS_Subset, FS_CardinalityType

\* A live slot holds an entry, and no other slot does.
LEMMA LiveEntry ==
  ASSUME NEW c \in Nat, NEW t \in Table(c)
  PROVE  /\ \A s \in Live(t) : /\ t[s].key \in Keys
                               /\ t[s].val \in Values
                               /\ t[s] = Entry(t[s].key, t[s].val)
         /\ \A s \in 0 .. (c - 1) : s \in Live(t) <=> t[s].state = "live"
  BY CapacityIs DEF Live, Table, Slot, Free, Deleted, Entry

LEMMA HashIs ==
  ASSUME hash \in Hashes
  PROVE  \A k \in Keys : hash[k] \in Nat
  BY DictAssumption DEF DictAssumption

LEMMA ProbeIs ==
  ASSUME hash \in Hashes, NEW c \in Nat \ {0}, NEW t \in Table(c), NEW k \in Keys, NEW d \in Nat
  PROVE  Probe(t, k, d) \in 0 .. (c - 1)
<1>1. Probe(t, k, d) = (hash[k] + d) % c
  BY CapacityIs DEF Probe
<1>2. hash[k] + d \in Nat
  BY HashIs
<1> QED
  BY <1>1, <1>2, Division

LEMMA ProbesCover ==
  ASSUME hash \in Hashes, NEW c \in Nat \ {0}, NEW t \in Table(c), NEW k \in Keys,
         NEW s \in 0 .. (c - 1)
  PROVE  \E d \in 0 .. (c - 1) : Probe(t, k, d) = s
<1>1. \A d : Probe(t, k, d) = (hash[k] + d) % c
  BY CapacityIs DEF Probe
<1>2. hash[k] \in Nat
  BY HashIs
<1>3. PICK d \in 0 .. (c - 1) : (hash[k] + d) % c = s
  BY <1>2, Covers
<1> QED
  BY <1>1, <1>3

\* A probe for k ends in s after d slots that hold other keys.
EndsAt(t, k, s, d) ==
  /\ d \in 0 .. (Capacity(t) - 1)
  /\ Probe(t, k, d) = s
  /\ Stops(t, k, s)
  /\ \A e \in 0 .. (d - 1) : ~ Stops(t, k, Probe(t, k, e))

LEMMA FindSlotIs ==
  ASSUME hash \in Hashes, NEW c \in Nat, NEW t \in Table(c), NEW k \in Keys,
         NEW s, NEW d, EndsAt(t, k, s, d)
  PROVE  FindSlot(t, k) = s
<1>. DEFINE ds == {x \in 0 .. (Capacity(t) - 1) : Stops(t, k, Probe(t, k, x))}
<1>1. ds \subseteq Nat /\ d \in ds
  BY CapacityIs DEF EndsAt
<1>2. \A x \in ds : d <= x
  BY CapacityIs DEF EndsAt
<1>3. Min(ds) \in ds /\ \A x \in ds : Min(ds) <= x
  <2>. HIDE DEF ds
  <2> QED
    BY <1>1, MinIs
<1>4. Min(ds) = d
  BY <1>1, <1>2, <1>3
<1>5. FindSlot(t, k) = IF ds = {} THEN -1 ELSE Probe(t, k, Min(ds))
  BY DEF FindSlot
<1> QED
  BY <1>1, <1>4, <1>5 DEF EndsAt

LEMMA FindSlotEnds ==
  ASSUME hash \in Hashes, NEW c \in Nat, NEW t \in Table(c), NEW k \in Keys, FindSlot(t, k) # -1
  PROVE  /\ FindSlot(t, k) \in 0 .. (c - 1)
         /\ \E d : EndsAt(t, k, FindSlot(t, k), d)
<1>. DEFINE ds == {x \in 0 .. (Capacity(t) - 1) : Stops(t, k, Probe(t, k, x))}
            d  == Min(ds)
<1>1. FindSlot(t, k) = IF ds = {} THEN -1 ELSE Probe(t, k, Min(ds))
  BY DEF FindSlot
<1>2. ds \subseteq Nat /\ ds # {}
  BY <1>1, CapacityIs
<1>3. d \in ds /\ \A x \in ds : d <= x
  <2>. HIDE DEF ds
  <2> QED
    BY <1>2, MinIs
<1>4. FindSlot(t, k) = Probe(t, k, d)
  BY <1>1, <1>2
<1>5. d \in 0 .. (c - 1) /\ Stops(t, k, Probe(t, k, d))
  BY <1>3, CapacityIs
<1>6. \A e \in 0 .. (d - 1) : ~ Stops(t, k, Probe(t, k, e))
  <2>1. ASSUME NEW e \in 0 .. (d - 1), Stops(t, k, Probe(t, k, e))
        PROVE  FALSE
    <3>1. e \in 0 .. (Capacity(t) - 1) /\ e < d
      BY <1>5, <2>1, CapacityIs
    <3>2. e \in ds
      BY <2>1, <3>1
    <3> QED
      BY <1>3, <1>5, <3>1, <3>2
  <2> QED
    BY <2>1
<1>7. EndsAt(t, k, Probe(t, k, d), d)
  <2>. HIDE DEF d
  <2> QED
    BY <1>5, <1>6, CapacityIs DEF EndsAt
<1>8. Probe(t, k, d) \in 0 .. (c - 1)
  <2>1. c # 0 /\ d \in Nat
    BY <1>5
  <2>. HIDE DEF d
  <2> QED
    BY <2>1, ProbeIs
<1> QED
  BY <1>4, <1>7, <1>8

\* There is no slot for a key only in a table full of other keys.
LEMMA FindSlotFails ==
  ASSUME hash \in Hashes, NEW c \in Nat, NEW t \in Table(c), NEW k \in Keys, FindSlot(t, k) = -1
  PROVE  \A s \in 0 .. (c - 1) : s \in Live(t) /\ t[s].key # k
<1>. DEFINE ds == {x \in 0 .. (Capacity(t) - 1) : Stops(t, k, Probe(t, k, x))}
<1>1. FindSlot(t, k) = IF ds = {} THEN -1 ELSE Probe(t, k, Min(ds))
  BY DEF FindSlot
<1>2. ASSUME NEW s \in 0 .. (c - 1), Stops(t, k, s)
      PROVE  FALSE
  <2>1. c # 0
    OBVIOUS
  <2>2. PICK d \in 0 .. (c - 1) : Probe(t, k, d) = s
    BY <2>1, ProbesCover
  <2>3. d \in ds
    BY <1>2, <2>2, CapacityIs
  <2>4. ds \subseteq Nat /\ ds # {}
    BY <2>3, CapacityIs
  <2>5. Min(ds) \in ds
    <3>. HIDE DEF ds
    <3> QED
      BY <2>4, MinIs
  <2>6. Min(ds) \in Nat
    BY <2>4, <2>5
  <2>7. Probe(t, k, Min(ds)) \in 0 .. (c - 1)
    <3>. HIDE DEF ds
    <3> QED
      BY <2>1, <2>6, ProbeIs
  <2> QED
    BY <1>1, <2>4, <2>7
<1> QED
  BY <1>2, LiveEntry DEF Stops

-----------------------------------------------------------------------------
(* One slot changes.                                                       *)

Written(t, s, e) == [t EXCEPT ![s] = e]

LEMMA EntryIs ==
  ASSUME NEW k \in Keys, NEW v \in Values
  PROVE  /\ Entry(k, v) \in Slot
         /\ Entry(k, v).state = "live" /\ Entry(k, v).key = k /\ Entry(k, v).val = v
  BY DEF Slot, Entry

LEMMA WrittenIs ==
  ASSUME NEW c \in Nat, NEW t \in Table(c), NEW s \in 0 .. (c - 1), NEW e \in Slot
  PROVE  /\ Written(t, s, e) \in Table(c)
         /\ Written(t, s, e)[s] = e
         /\ \A r \in 0 .. (c - 1) : r # s => Written(t, s, e)[r] = t[r]
  BY DEF Written, Table

\* The live slots of a table after one slot was given an entry.
LEMMA WrittenLive ==
  ASSUME NEW c \in Nat, NEW t \in Table(c), NEW s \in 0 .. (c - 1), NEW k \in Keys, NEW v \in Values
  PROVE  Live(Written(t, s, Entry(k, v))) = Live(t) \cup {s}
<1>. DEFINE e == Entry(k, v)
            u == Written(t, s, e)
<1>1. e \in Slot /\ e.state = "live"
  BY EntryIs
<1>2. u \in Table(c) /\ u[s] = e /\ \A r \in 0 .. (c - 1) : r # s => u[r] = t[r]
  <2>. HIDE DEF e
  <2> QED
    BY <1>1, WrittenIs
<1>. HIDE DEF e, u
<1>3. \A r \in 0 .. (c - 1) : r \in Live(u) <=> r \in Live(t) \/ r = s
  BY <1>1, <1>2, LiveEntry
<1>4. Live(u) \subseteq 0 .. (c - 1) /\ Live(t) \subseteq 0 .. (c - 1)
  BY <1>2, LiveIs
<1>5. Live(u) = Live(t) \cup {s}
  BY <1>3, <1>4
<1> QED
  BY <1>5 DEF u, e

\* A key may be written to a slot if no other slot holds it.
Fresh(t, s, k) == \A r \in Live(t) : r # s => t[r].key # k

LEMMA WrittenOneEach ==
  ASSUME NEW c \in Nat, NEW t \in Table(c), NEW s \in 0 .. (c - 1), NEW k \in Keys, NEW v \in Values,
         OneEach(t), Fresh(t, s, k)
  PROVE  OneEach(Written(t, s, Entry(k, v)))
<1>. DEFINE e == Entry(k, v)
            u == Written(t, s, e)
<1>1. e \in Slot /\ e.key = k
  BY EntryIs
<1>2. u \in Table(c) /\ u[s] = e /\ \A r \in 0 .. (c - 1) : r # s => u[r] = t[r]
  <2>. HIDE DEF e
  <2> QED
    BY <1>1, WrittenIs
<1>3. Live(u) = Live(t) \cup {s} /\ Live(t) \subseteq 0 .. (c - 1)
  BY WrittenLive, LiveIs
<1>. HIDE DEF e, u
<1>4. \A r \in Live(u) : r # s => r \in Live(t) /\ u[r].key = t[r].key /\ u[r].key # k
  BY <1>2, <1>3 DEF Fresh
<1>5. OneEach(u)
  BY <1>1, <1>2, <1>4 DEF OneEach
<1> QED
  BY <1>5 DEF u, e

\* Writing an entry to the slot where the probe for its key ends disturbs no
\* other probe.
LEMMA WrittenReachable ==
  ASSUME hash \in Hashes,
         NEW c \in Nat, NEW t \in Table(c), NEW s \in 0 .. (c - 1), NEW k \in Keys, NEW v \in Values,
         Reachable(t), Fresh(t, s, k), FindSlot(t, k) = s
  PROVE  Reachable(Written(t, s, Entry(k, v)))
<1>. DEFINE e == Entry(k, v)
            u == Written(t, s, e)
<1>1. e \in Slot /\ e.key = k /\ e.state = "live"
  BY EntryIs
<1>2. u \in Table(c) /\ u[s] = e /\ \A r \in 0 .. (c - 1) : r # s => u[r] = t[r]
  <2>. HIDE DEF e
  <2> QED
    BY <1>1, WrittenIs
<1>3. Live(u) = Live(t) \cup {s} /\ Live(t) \subseteq 0 .. (c - 1)
  BY WrittenLive, LiveIs
<1>. HIDE DEF e, u
<1>4. Capacity(t) = c /\ Capacity(u) = c
  BY <1>2, CapacityIs
<1>5. \A m, d : Probe(u, m, d) = Probe(t, m, d)
  BY <1>4 DEF Probe
<1>6. ASSUME NEW m \in Keys, NEW r \in 0 .. (c - 1), ~ Stops(t, m, r), r # s \/ m # k
      PROVE  ~ Stops(u, m, r)
  BY <1>1, <1>2, <1>6, LiveEntry DEF Stops
<1>7. ASSUME NEW r \in Live(u)
      PROVE  FindSlot(u, u[r].key) = r
  <2>. DEFINE m == u[r].key
  <2>0. m \in Keys
    BY <1>1, <1>2, <1>3, <1>7, LiveEntry
  <2>1. FindSlot(t, m) = r
    <3>1. CASE r = s
      BY <1>1, <1>2, <3>1
    <3>2. CASE r # s
      BY <1>2, <1>3, <1>7, <3>2 DEF Reachable
    <3> QED
      BY <3>1, <3>2
  <2>2. r \in 0 .. (c - 1) /\ r # -1
    BY <1>3, <1>7
  <2>3. r # s => m # k
    BY <1>2, <1>3, <1>7 DEF Fresh
  <2>. HIDE DEF m
  <2>4. PICK d : EndsAt(t, m, r, d)
    BY <2>0, <2>1, <2>2, FindSlotEnds
  <2>5. d \in 0 .. (c - 1) /\ Probe(t, m, d) = r /\ \A x \in 0 .. (d - 1) : ~ Stops(t, m, Probe(t, m, x))
    BY <1>4, <2>4 DEF EndsAt
  <2>6. Stops(u, m, r)
    BY DEF Stops, m
  <2>7. ASSUME NEW x \in 0 .. (d - 1)
        PROVE  ~ Stops(u, m, Probe(u, m, x))
    <3>1. ~ Stops(t, m, Probe(t, m, x))
      BY <2>5
    <3>2. c # 0 /\ x \in Nat
      BY <2>5
    <3>3. Probe(t, m, x) \in 0 .. (c - 1)
      BY <2>0, <3>2, ProbeIs
    <3>4. Probe(t, m, x) # s \/ m # k
      <4>1. CASE r # s
        BY <2>3, <4>1
      <4>2. CASE r = s
        <5>1. Stops(t, m, r)
          BY <2>4 DEF EndsAt
        <5> QED
          BY <3>1, <4>2, <5>1
      <4> QED
        BY <4>1, <4>2
    <3>5. ~ Stops(u, m, Probe(t, m, x))
      BY <1>6, <2>0, <3>1, <3>3, <3>4
    <3> QED
      BY <1>5, <3>5
  <2>8. EndsAt(u, m, r, d)
    BY <1>4, <1>5, <2>5, <2>6, <2>7 DEF EndsAt
  <2>9. FindSlot(u, m) = r
    BY <1>2, <2>0, <2>8, FindSlotIs
  <2> QED
    BY <2>9 DEF m
<1>8. Reachable(u)
  BY <1>7 DEF Reachable
<1> QED
  BY <1>8 DEF u, e

\* Where no two keys share a home, the probe for a key ends there.
LEMMA HomeIsFound ==
  ASSUME hash \in Hashes, NEW c \in Nat \ {0}, NEW t \in Table(c), NEW k \in Keys,
         AtHome(t), Separate(t)
  PROVE  FindSlot(t, k) = Probe(t, k, 0)
<1>. DEFINE s == Probe(t, k, 0)
<1>1. s \in 0 .. (c - 1)
  BY ProbeIs
<1>2. Stops(t, k, s)
  <2>1. ASSUME t[s].state = "live", t[s].key # k
        PROVE  FALSE
    <3>1. s \in Live(t) /\ t[s].key \in Keys
      BY <1>1, <2>1, LiveEntry
    <3>2. Probe(t, t[s].key, 0) = s
      BY <3>1 DEF AtHome
    <3> QED
      BY <2>1, <3>1, <3>2 DEF Separate
  <2> QED
    BY <2>1 DEF Stops
<1>3. EndsAt(t, k, s, 0)
  <2>1. 0 .. (0 - 1) = {} /\ 0 \in 0 .. (c - 1)
    OBVIOUS
  <2>. HIDE DEF s
  <2> QED
    BY <1>2, <2>1, CapacityIs DEF EndsAt, s
<1> QED
  BY <1>3, FindSlotIs

LEMMA HomeReachable ==
  ASSUME hash \in Hashes, NEW c \in Nat, NEW t \in Table(c), AtHome(t), Separate(t)
  PROVE  Reachable(t)
<1>1. ASSUME NEW s \in Live(t)
      PROVE  FindSlot(t, t[s].key) = s
  <2>1. s \in 0 .. (c - 1) /\ t[s].key \in Keys
    BY LiveIs, LiveEntry
  <2>2. c # 0
    BY <2>1
  <2>3. Probe(t, t[s].key, 0) = s
    BY DEF AtHome
  <2> QED
    BY <2>1, <2>2, <2>3, HomeIsFound
<1> QED
  BY <1>1 DEF Reachable

LEMMA WrittenAtHome ==
  ASSUME hash \in Hashes,
         NEW c \in Nat, NEW t \in Table(c), NEW s \in 0 .. (c - 1), NEW k \in Keys, NEW v \in Values,
         AtHome(t), FindSlot(t, k) = s
  PROVE  AtHome(Written(t, s, Entry(k, v)))
<1>. DEFINE e == Entry(k, v)
            u == Written(t, s, e)
<1>1. e \in Slot /\ e.key = k
  BY EntryIs
<1>2. u \in Table(c) /\ u[s] = e /\ \A r \in 0 .. (c - 1) : r # s => u[r] = t[r]
  <2>. HIDE DEF e
  <2> QED
    BY <1>1, WrittenIs
<1>3. Live(u) = Live(t) \cup {s} /\ Live(t) \subseteq 0 .. (c - 1)
  BY WrittenLive, LiveIs
<1>. HIDE DEF e, u
<1>4. \A m, d : Probe(u, m, d) = Probe(t, m, d)
  BY <1>2, CapacityIs DEF Probe
<1>5. ASSUME Separate(u), NEW r \in Live(u)
      PROVE  Probe(u, u[r].key, 0) = r
  <2>1. Separate(t) /\ c # 0
    BY <1>4, <1>5 DEF Separate
  <2>2. CASE r = s
    <3>1. Probe(t, k, 0) = s
      BY <2>1, HomeIsFound
    <3> QED
      BY <1>1, <1>2, <1>4, <2>2, <3>1
  <2>3. CASE r # s
    <3>1. r \in Live(t) /\ u[r] = t[r]
      BY <1>2, <1>3, <1>5, <2>3
    <3>2. Probe(t, t[r].key, 0) = r
      BY <2>1, <3>1 DEF AtHome
    <3> QED
      BY <1>4, <3>1, <3>2
  <2> QED
    BY <2>2, <2>3
<1>6. AtHome(u)
  BY <1>5 DEF AtHome
<1> QED
  BY <1>6 DEF u, e

LEMMA DeletedIs ==
  ASSUME NEW c \in Nat, NEW t \in Table(c), NEW s \in Live(t)
  PROVE  /\ Written(t, s, Deleted) \in Table(c)
         /\ Live(Written(t, s, Deleted)) = Live(t) \ {s}
         /\ \A r \in Live(t) \ {s} : Written(t, s, Deleted)[r] = t[r]
<1>. DEFINE u == Written(t, s, Deleted)
<1>1. Deleted \in Slot /\ Deleted.state # "live" /\ s \in 0 .. (c - 1)
  BY LiveIs DEF Slot, Deleted
<1>2. u \in Table(c) /\ u[s] = Deleted /\ \A r \in 0 .. (c - 1) : r # s => u[r] = t[r]
  BY <1>1, WrittenIs
<1>. HIDE DEF u
<1>3. \A r \in 0 .. (c - 1) : r \in Live(u) <=> r \in Live(t) /\ r # s
  BY <1>1, <1>2, LiveEntry
<1>4. Live(u) \subseteq 0 .. (c - 1) /\ Live(t) \subseteq 0 .. (c - 1)
  BY <1>2, LiveIs
<1>5. Live(u) = Live(t) \ {s}
  BY <1>3, <1>4
<1>6. \A r \in Live(t) \ {s} : u[r] = t[r]
  BY <1>2, <1>4
<1> QED
  BY <1>2, <1>5, <1>6 DEF u

LEMMA DeletedAtHome ==
  ASSUME NEW c \in Nat, NEW t \in Table(c), NEW s \in Live(t), OneEach(t)
  PROVE  /\ OneEach(Written(t, s, Deleted))
         /\ AtHome(t) => AtHome(Written(t, s, Deleted))
         /\ Separate(t) => Separate(Written(t, s, Deleted))
<1>. DEFINE u == Written(t, s, Deleted)
<1>1. u \in Table(c) /\ Live(u) = Live(t) \ {s} /\ \A r \in Live(t) \ {s} : u[r] = t[r]
  BY DeletedIs
<1>. HIDE DEF u
<1>2. \A m, d : Probe(u, m, d) = Probe(t, m, d)
  BY <1>1, CapacityIs DEF Probe
<1>3. Separate(u) <=> Separate(t)
  BY <1>2 DEF Separate
<1>4. OneEach(u)
  BY <1>1 DEF OneEach
<1>5. AtHome(t) => AtHome(u)
  BY <1>1, <1>2, <1>3 DEF AtHome
<1> QED
  BY <1>3, <1>4, <1>5 DEF u

LEMMA EmptyIs ==
  ASSUME NEW c \in Nat
  PROVE  /\ EmptyTable(c) \in Table(c)
         /\ Live(EmptyTable(c)) = {}
         /\ Capacity(EmptyTable(c)) = c
<1>1. EmptyTable(c) \in Table(c)
  BY DEF EmptyTable, Table, Slot
<1>2. Live(EmptyTable(c)) = {}
  BY DEF EmptyTable, Live, Free
<1> QED
  BY <1>1, <1>2, CapacityIs

-----------------------------------------------------------------------------
(* Placing entries in a new table.                                         *)

\* What the tables after each of the first n entries are.
IsAfter(g, es, n, capacity, inOrder) ==
  g = [m \in 0 .. n |-> IF m = 0 THEN EmptyTable(capacity)
                                 ELSE PlacedIn(g[m - 1], es[m], inOrder)]

LEMMA AfterExtends ==
  ASSUME NEW es, NEW n \in Nat, NEW capacity, NEW inOrder, NEW g, IsAfter(g, es, n, capacity, inOrder)
  PROVE  \E f : IsAfter(f, es, n + 1, capacity, inOrder)
<1>. DEFINE f == [m \in 0 .. (n + 1) |-> IF m = n + 1 THEN PlacedIn(g[n], es[n + 1], inOrder) ELSE g[m]]
            h == [m \in 0 .. (n + 1) |-> IF m = 0 THEN EmptyTable(capacity)
                                                  ELSE PlacedIn(f[m - 1], es[m], inOrder)]
<1>1. \A m \in 0 .. n : g[m] = IF m = 0 THEN EmptyTable(capacity) ELSE PlacedIn(g[m - 1], es[m], inOrder)
  BY DEF IsAfter
<1>2. ASSUME NEW m \in 0 .. (n + 1)
      PROVE  f[m] = h[m]
  <2>1. CASE m = 0
    BY <1>1, <2>1
  <2>2. CASE m \in 1 .. (n + 1)
    <3>1. f[m - 1] = g[m - 1]
      BY <2>2
    <3>2. f[m] = PlacedIn(g[m - 1], es[m], inOrder)
      <4>1. CASE m = n + 1
        BY <4>1
      <4>2. CASE m # n + 1
        <5>1. m \in 0 .. n /\ m # 0
          BY <2>2, <4>2
        <5>2. f[m] = g[m]
          BY <4>2
        <5> QED
          BY <1>1, <5>1, <5>2
      <4> QED
        BY <4>1, <4>2
    <3>. HIDE DEF f
    <3> QED
      BY <2>2, <3>1, <3>2
  <2> QED
    BY <2>1, <2>2
<1>3. f = h
  <2>1. DOMAIN f = DOMAIN h /\ f = [m \in DOMAIN f |-> f[m]] /\ h = [m \in DOMAIN h |-> h[m]] /\ DOMAIN f = 0 .. (n + 1)
    OBVIOUS
  <2>. HIDE DEF f, h
  <2> QED
    BY <1>2, <2>1
<1>4. IsAfter(f, es, n + 1, capacity, inOrder)
  BY <1>3 DEF IsAfter
<1> QED
  BY <1>4

LEMMA AfterExists ==
  ASSUME NEW es, NEW n \in Nat, NEW capacity, NEW inOrder
  PROVE  \E g : IsAfter(g, es, n, capacity, inOrder)
<1>. DEFINE Bad == {m \in Nat : ~ \E g : IsAfter(g, es, m, capacity, inOrder)}
            b   == Min(Bad)
<1>1. ASSUME Bad # {}
      PROVE  FALSE
  <2>1. b \in Bad /\ \A x \in Bad : b <= x
    <3>1. Bad \in SUBSET Nat
      OBVIOUS
    <3>. HIDE DEF Bad
    <3> QED
      BY <1>1, <3>1, MinIs
  <2>2. b \in Nat /\ ~ \E g : IsAfter(g, es, b, capacity, inOrder)
    BY <2>1
  <2>. HIDE DEF b
  <2>3. CASE b = 0
    <3>. DEFINE g == [m \in 0 .. 0 |-> EmptyTable(capacity)]
    <3>1. IsAfter(g, es, 0, capacity, inOrder)
      BY DEF IsAfter
    <3> QED
      BY <2>2, <2>3, <3>1
  <2>4. CASE b # 0
    <3>1. b - 1 \in Nat /\ ~ (b <= b - 1) /\ (b - 1) + 1 = b
      BY <2>2, <2>4
    <3>2. b - 1 \notin Bad
      BY <2>1, <3>1
    <3>3. PICK g : IsAfter(g, es, b - 1, capacity, inOrder)
      BY <3>1, <3>2
    <3> QED
      BY <2>2, <3>1, <3>3, AfterExtends
  <2> QED
    BY <2>3, <2>4
<1> QED
  BY <1>1

LEMMA PlacedIs ==
  ASSUME NEW es, Len(es) \in Nat, NEW capacity, NEW inOrder
  PROVE  \E g : /\ IsAfter(g, es, Len(es), capacity, inOrder)
                /\ Placed(es, capacity, inOrder) = g[Len(es)]
<1>. DEFINE g == CHOOSE g : IsAfter(g, es, Len(es), capacity, inOrder)
<1>1. IsAfter(g, es, Len(es), capacity, inOrder)
  BY AfterExists
<1>2. Placed(es, capacity, inOrder) = g[Len(es)]
  BY DEF Placed, IsAfter
<1> QED
  BY <1>1, <1>2

LiveUpTo(es, n) == {i \in 1 .. n : es[i].state = "live"}

\* The entries of a table.
Pairs(t) == {t[s] : s \in Live(t)}

\* What a table is when the first n entries have been placed.
HasPlaced(t, es, n, c, inOrder) ==
  /\ t \in Table(c)
  /\ OneEach(t)
  /\ Pairs(t) = {es[i] : i \in LiveUpTo(es, n)}
  /\ Cardinality(Live(t)) = Cardinality(LiveUpTo(es, n))
  /\ ~inOrder => Reachable(t) /\ AtHome(t)

LEMMA LiveUpToIs ==
  ASSUME NEW es, NEW n \in Nat
  PROVE  /\ IsFiniteSet(LiveUpTo(es, n))
         /\ Cardinality(LiveUpTo(es, n)) \in 0 .. n
<1>1. IsFiniteSet(1 .. n) /\ Cardinality(1 .. n) = n
  BY FS_Interval
<1>2. LiveUpTo(es, n) \subseteq 1 .. n
  BY DEF LiveUpTo
<1>3. IsFiniteSet(LiveUpTo(es, n)) /\ Cardinality(LiveUpTo(es, n)) <= n
  BY <1>1, <1>2, FS_Subset
<1> QED
  BY <1>3, FS_CardinalityType

LEMMA LiveUpToNext ==
  ASSUME NEW es, NEW n \in Nat \ {0}
  PROVE  LiveUpTo(es, n) = IF es[n].state = "live" THEN LiveUpTo(es, n - 1) \cup {n}
                                                   ELSE LiveUpTo(es, n - 1)
<1>1. \A i \in 1 .. n : i \in 1 .. (n - 1) \/ i = n
  OBVIOUS
<1>2. 1 .. (n - 1) \subseteq 1 .. n /\ n \in 1 .. n
  OBVIOUS
<1> QED
  BY <1>1, <1>2 DEF LiveUpTo

\* A table with fewer entries than slots has a slot that is not live.
LEMMA RoomLeft ==
  ASSUME NEW c \in Nat, NEW t \in Table(c), Cardinality(Live(t)) < c
  PROVE  \E s \in 0 .. (c - 1) : s \notin Live(t)
<1>1. ASSUME Live(t) = 0 .. (c - 1)
      PROVE  FALSE
  BY <1>1, FS_Interval, SMTT(40)
<1> QED
  BY <1>1, LiveIs

LEMMA FirstUnusedIs ==
  ASSUME NEW c \in Nat, NEW t \in Table(c)
  PROVE  /\ FirstUnused(t) # -1 => FirstUnused(t) \in (0 .. (c - 1)) \ Live(t)
         /\ (\E s \in 0 .. (c - 1) : s \notin Live(t)) => FirstUnused(t) # -1
<1>. DEFINE unused == (0 .. (c - 1)) \ Live(t)
<1>1. FirstUnused(t) = IF unused = {} THEN -1 ELSE Min(unused)
  BY CapacityIs DEF FirstUnused
<1>2. unused # {} => Min(unused) \in unused
  <2>1. unused \in SUBSET Nat
    OBVIOUS
  <2>. HIDE DEF unused
  <2> QED
    BY <2>1, MinIs
<1> QED
  BY <1>1, <1>2

\* A key that is not in the table gets a slot that is not live.
LEMMA FreshSlot ==
  ASSUME hash \in Hashes, NEW c \in Nat, NEW t \in Table(c), NEW k \in Keys,
         \A s \in Live(t) : t[s].key # k,
         FindSlot(t, k) # -1
  PROVE  FindSlot(t, k) \in (0 .. (c - 1)) \ Live(t)
<1>1. FindSlot(t, k) \in 0 .. (c - 1) /\ Stops(t, k, FindSlot(t, k))
  BY FindSlotEnds DEF EndsAt
<1> QED
  BY <1>1, LiveEntry DEF Stops

LEMMA PlacedInOK ==
  ASSUME hash \in Hashes, NEW es \in Seq(Slot), NEW c \in Nat, NEW inOrder \in BOOLEAN, NEW t,
         NEW n \in 1 .. Len(es), Len(es) <= c,
         \A i, j \in LiveUpTo(es, Len(es)) : es[i].key = es[j].key => i = j,
         HasPlaced(t, es, n - 1, c, inOrder)
  PROVE  HasPlaced(PlacedIn(t, es[n], inOrder), es, n, c, inOrder)
<1>0. n \in Nat \ {0} /\ n - 1 \in Nat /\ Len(es) \in Nat
  OBVIOUS
<1>1. CASE es[n].state # "live"
  <2>1. LiveUpTo(es, n) = LiveUpTo(es, n - 1)
    BY <1>0, <1>1, LiveUpToNext
  <2>2. PlacedIn(t, es[n], inOrder) = t
    BY <1>1 DEF PlacedIn
  <2> QED
    BY <2>1, <2>2 DEF HasPlaced
<1>2. CASE es[n].state = "live"
  <2>. DEFINE k == es[n].key
              v == es[n].val
              s == IF inOrder THEN FirstUnused(t) ELSE FindSlot(t, k)
              u == Written(t, s, Entry(k, v))
  <2>1. k \in Keys /\ v \in Values /\ es[n] = Entry(k, v)
    <3>1. es[n] \in Slot
      BY <1>0
    <3> QED
      BY <1>2, <3>1 DEF Slot, Entry, Free, Deleted
  <2>2. LiveUpTo(es, n) = LiveUpTo(es, n - 1) \cup {n} /\ n \notin LiveUpTo(es, n - 1)
    <3>1. n \notin LiveUpTo(es, n - 1)
      BY <1>0 DEF LiveUpTo
    <3> QED
      BY <1>0, <1>2, <3>1, LiveUpToNext
  <2>3. t \in Table(c) /\ OneEach(t)
    BY DEF HasPlaced
  <2>4. \A r \in Live(t) : t[r].key # k
    <3>1. ASSUME NEW r \in Live(t), t[r].key = k
          PROVE  FALSE
      <4>1. PICK i \in LiveUpTo(es, n - 1) : t[r] = es[i]
        BY DEF HasPlaced, Pairs
      <4>2. i \in LiveUpTo(es, Len(es)) /\ n \in LiveUpTo(es, Len(es))
        BY <1>0, <1>2, <4>1 DEF LiveUpTo
      <4>3. es[i].key = es[n].key
        BY <3>1, <4>1
      <4>4. i = n
        BY <4>2, <4>3
      <4> QED
        BY <2>2, <4>4
    <3> QED
      BY <3>1
  <2>5. \E x \in 0 .. (c - 1) : x \notin Live(t)
    <3>1. Cardinality(Live(t)) = Cardinality(LiveUpTo(es, n - 1))
      BY DEF HasPlaced
    <3>2. Cardinality(LiveUpTo(es, n - 1)) \in 0 .. (n - 1)
      BY <1>0, LiveUpToIs
    <3>3. Cardinality(Live(t)) < c
      BY <1>0, <3>1, <3>2
    <3> QED
      BY <2>3, <3>3, RoomLeft
  <2>6. s \in (0 .. (c - 1)) \ Live(t)
    <3>1. CASE inOrder
      BY <2>3, <2>5, <3>1, FirstUnusedIs
    <3>2. CASE ~inOrder
      <4>1. FindSlot(t, k) # -1
        BY <2>1, <2>3, <2>5, FindSlotFails
      <4>2. FindSlot(t, k) \in (0 .. (c - 1)) \ Live(t)
        <5>. HIDE DEF k
        <5> QED
          BY <2>1, <2>3, <2>4, <4>1, FreshSlot
      <4> QED
        BY <3>2, <4>2
    <3> QED
      BY <3>1, <3>2
  <2>7. PlacedIn(t, es[n], inOrder) = u
    <3>1. s # -1
      BY <2>6
    <3>2. PlacedIn(t, es[n], inOrder) = Put(t, s, es[n])
      BY <1>2 DEF PlacedIn
    <3>. HIDE DEF s, k, v
    <3>3. PlacedIn(t, es[n], inOrder) = Put(t, s, Entry(k, v))
      BY <2>1, <3>2
    <3> QED
      BY <3>1, <3>3 DEF Put, Written
  <2>8. ~inOrder => FindSlot(t, k) = s
    OBVIOUS
  <2>9. es[n] = Entry(k, v)
    BY <2>1
  <2>. HIDE DEF s, k, v
  <2>10. Fresh(t, s, k)
    BY <2>4 DEF Fresh
  <2>11. u \in Table(c) /\ u[s] = Entry(k, v) /\ \A r \in 0 .. (c - 1) : r # s => u[r] = t[r]
    BY <2>1, <2>3, <2>6, EntryIs, WrittenIs
  <2>12. Live(u) = Live(t) \cup {s}
    BY <2>1, <2>3, <2>6, WrittenLive
  <2>13. OneEach(u)
    BY <2>1, <2>3, <2>6, <2>10, WrittenOneEach
  <2>14. ~inOrder => Reachable(u) /\ AtHome(u)
    BY <2>1, <2>3, <2>6, <2>8, <2>10, WrittenReachable, WrittenAtHome DEF HasPlaced
  <2>. HIDE DEF u
  <2>15. Pairs(u) = {es[i] : i \in LiveUpTo(es, n)}
    <3>1. Live(t) \subseteq 0 .. (c - 1)
      BY <2>3, LiveIs
    <3>2. \A r \in Live(t) : u[r] = t[r]
      BY <2>6, <2>11, <3>1
    <3>3. Pairs(u) = Pairs(t) \cup {es[n]}
      BY <2>9, <2>11, <2>12, <3>2 DEF Pairs
    <3>4. Pairs(t) = {es[i] : i \in LiveUpTo(es, n - 1)}
      BY DEF HasPlaced
    <3> QED
      BY <2>2, <3>3, <3>4
  <2>16. Cardinality(Live(u)) = Cardinality(LiveUpTo(es, n))
    <3>1. Cardinality(Live(t)) = Cardinality(LiveUpTo(es, n - 1))
      BY DEF HasPlaced
    <3>2. Cardinality(Live(t) \cup {s}) = Cardinality(Live(t)) + 1
      BY <2>3, <2>6, LiveIs, FS_AddElement
    <3>3. Cardinality(LiveUpTo(es, n - 1) \cup {n}) = Cardinality(LiveUpTo(es, n - 1)) + 1
      BY <1>0, <2>2, LiveUpToIs, FS_AddElement
    <3> QED
      BY <2>2, <2>12, <3>1, <3>2, <3>3
  <2>17. HasPlaced(u, es, n, c, inOrder)
    BY <2>11, <2>13, <2>14, <2>15, <2>16 DEF HasPlaced
  <2> QED
    BY <2>7, <2>17
<1> QED
  BY <1>1, <1>2

\* Placing a list of entries with different keys in a table that is large enough
\* loses none of them, and when it is done by hash every probe finds them.
LEMMA PlacedOK ==
  ASSUME hash \in Hashes, NEW es \in Seq(Slot), NEW c \in Nat, NEW inOrder \in BOOLEAN,
         Len(es) <= c,
         \A i, j \in LiveUpTo(es, Len(es)) : es[i].key = es[j].key => i = j
  PROVE  HasPlaced(Placed(es, c, inOrder), es, Len(es), c, inOrder)
<1>0. Len(es) \in Nat
  OBVIOUS
<1>1. PICK g : IsAfter(g, es, Len(es), c, inOrder) /\ Placed(es, c, inOrder) = g[Len(es)]
  BY <1>0, PlacedIs
<1>2. /\ g[0] = EmptyTable(c)
      /\ \A n \in 1 .. Len(es) : g[n] = PlacedIn(g[n - 1], es[n], inOrder)
  <2>1. \A n \in 0 .. Len(es) : g[n] = IF n = 0 THEN EmptyTable(c) ELSE PlacedIn(g[n - 1], es[n], inOrder)
    BY <1>1 DEF IsAfter
  <2> QED
    BY <1>0, <2>1
<1>3. HasPlaced(g[0], es, 0, c, inOrder)
  <2>1. LiveUpTo(es, 0) = {}
    BY DEF LiveUpTo
  <2>2. EmptyTable(c) \in Table(c) /\ Live(EmptyTable(c)) = {}
    BY EmptyIs
  <2>3. HasPlaced(EmptyTable(c), es, 0, c, inOrder)
    BY <2>1, <2>2 DEF HasPlaced, OneEach, Pairs, Reachable, AtHome
  <2> QED
    BY <1>2, <2>3
<1>. DEFINE Bad == {n \in 0 .. Len(es) : ~ HasPlaced(g[n], es, n, c, inOrder)}
            b   == Min(Bad)
<1>4. ASSUME Bad # {}
      PROVE  FALSE
  <2>1. b \in Bad /\ \A x \in Bad : b <= x
    <3>1. Bad \in SUBSET Nat
      OBVIOUS
    <3>. HIDE DEF Bad
    <3> QED
      BY <1>4, <3>1, MinIs
  <2>2. b \in 0 .. Len(es) /\ ~ HasPlaced(g[b], es, b, c, inOrder)
    BY <2>1
  <2>. HIDE DEF b
  <2>3. b # 0
    BY <1>3, <2>2
  <2>4. b \in 1 .. Len(es) /\ b - 1 \in 0 .. Len(es) /\ ~ (b <= b - 1)
    BY <1>0, <2>2, <2>3
  <2>5. HasPlaced(g[b - 1], es, b - 1, c, inOrder)
    BY <2>1, <2>4
  <2>6. HasPlaced(PlacedIn(g[b - 1], es[b], inOrder), es, b, c, inOrder)
    BY <2>4, <2>5, PlacedInOK
  <2> QED
    BY <1>2, <2>2, <2>4, <2>6
<1> QED
  BY <1>0, <1>1, <1>4

\* A larger table with the same entries.
Regrown(u, t, inOrder) ==
  /\ u \in Table(GrownCapacity(t))
  /\ OneEach(u)
  /\ Pairs(u) = Pairs(t)
  /\ Cardinality(Live(u)) = Cardinality(Live(t))
  /\ ~inOrder => Reachable(u) /\ AtHome(u)

LEMMA GrownIs ==
  ASSUME NEW c \in Nat, NEW t \in Table(c)
  PROVE  /\ GrownCapacity(t) \in Nat \ {0}
         /\ GrownCapacity(t) > c
  BY CapacityIs, DictAssumption DEF GrownCapacity, DictAssumption

LEMMA RegrownOK ==
  ASSUME hash \in Hashes, NEW c \in Nat, NEW t \in Table(c), OneEach(t), NEW inOrder \in BOOLEAN
  PROVE  Regrown(Placed(Entries(t), GrownCapacity(t), inOrder), t, inOrder)
<1>. DEFINE es == Entries(t)
<1>1. es = [i \in 1 .. c |-> t[i - 1]]
  BY CapacityIs DEF Entries
<1>2. \A i \in 1 .. c : i - 1 \in 0 .. (c - 1) /\ es[i] = t[i - 1] /\ t[i - 1] \in Slot
  BY <1>1 DEF Table
<1>3. es \in Seq(Slot) /\ Len(es) = c
  BY <1>1, <1>2
<1>. HIDE DEF es
<1>4. \A i \in 1 .. c : i \in LiveUpTo(es, c) <=> i - 1 \in Live(t)
  BY <1>2, LiveEntry DEF LiveUpTo
<1>5. LiveUpTo(es, c) \subseteq 1 .. c /\ Live(t) \subseteq 0 .. (c - 1)
  BY LiveIs DEF LiveUpTo
<1>6. \A i, j \in LiveUpTo(es, Len(es)) : es[i].key = es[j].key => i = j
  <2>1. ASSUME NEW i \in LiveUpTo(es, c), NEW j \in LiveUpTo(es, c), es[i].key = es[j].key
        PROVE  i = j
    <3>1. i \in 1 .. c /\ j \in 1 .. c
      BY <1>5
    <3>2. i - 1 = j - 1
      BY <1>2, <1>4, <2>1, <3>1 DEF OneEach
    <3> QED
      BY <3>1, <3>2
  <2> QED
    BY <1>3, <2>1
<1>7. {es[i] : i \in LiveUpTo(es, c)} = Pairs(t)
  <2>1. ASSUME NEW i \in LiveUpTo(es, c)
        PROVE  es[i] \in Pairs(t)
    BY <1>2, <1>4, <1>5 DEF Pairs
  <2>2. ASSUME NEW s \in Live(t)
        PROVE  s + 1 \in LiveUpTo(es, c) /\ es[s + 1] = t[s]
    <3>1. s \in 0 .. (c - 1)
      BY <1>5
    <3>2. s + 1 \in 1 .. c /\ (s + 1) - 1 = s
      BY <3>1
    <3> QED
      BY <1>2, <1>4, <3>2
  <2> QED
    BY <2>1, <2>2 DEF Pairs
<1>8. Cardinality(Live(t)) = Cardinality(LiveUpTo(es, c))
  <2>. DEFINE f == [s \in Live(t) |-> s + 1]
  <2>1. \A s \in Live(t) : s \in Int /\ s + 1 \in 1 .. c /\ (s + 1) - 1 = s
    BY <1>5
  <2>2. f \in Injection(Live(t), LiveUpTo(es, c))
    BY <1>4, <2>1 DEF Injection, IsInjective
  <2>3. f \in Surjection(Live(t), LiveUpTo(es, c))
    <3>1. ASSUME NEW i \in LiveUpTo(es, c)
          PROVE  i - 1 \in Live(t) /\ f[i - 1] = i
      BY <1>4, <1>5
    <3>2. f \in [Live(t) -> LiveUpTo(es, c)]
      BY <1>4, <2>1
    <3> QED
      BY <3>1, <3>2 DEF Surjection
  <2>4. f \in Bijection(Live(t), LiveUpTo(es, c))
    BY <2>2, <2>3 DEF Bijection
  <2> QED
    BY <2>4, LiveIs, FS_Bijection DEF ExistsBijection
<1>9. GrownCapacity(t) \in Nat /\ Len(es) <= GrownCapacity(t)
  BY <1>3, GrownIs
<1>10. HasPlaced(Placed(es, GrownCapacity(t), inOrder), es, c, GrownCapacity(t), inOrder)
  BY <1>3, <1>6, <1>9, PlacedOK
<1> QED
  BY <1>7, <1>8, <1>10 DEF HasPlaced, Regrown, es

-----------------------------------------------------------------------------
(* What a call makes of the table.                                         *)

\* The entries after k was set to v.
PairsWith(t, k, v) == {e \in Pairs(t) : e.key # k} \cup {Entry(k, v)}

Has(t, k) == \E s \in Live(t) : t[s].key = k

LEMMA StoredOK ==
  ASSUME NEW n, NEW t, Good(t, n), NEW k \in Keys, NEW v \in Values,
         NEW s \in 0 .. (Capacity(t) - 1), Fresh(t, s, k), s \in Live(t) => t[s].key = k,
         hash \in Hashes, ~byName => FindSlot(t, k) = s
  PROVE  LET u == Written(t, s, Entry(k, v))
         IN  /\ Good(u, IF s \in Live(t) THEN n ELSE n + 1)
             /\ Pairs(u) = PairsWith(t, k, v)
<1>. DEFINE c == Capacity(t)
            u == Written(t, s, Entry(k, v))
<1>1. c \in Nat /\ t \in Table(c) /\ n = Cardinality(Live(t)) /\ OneEach(t) /\ s \in 0 .. (c - 1)
  BY DEF Good
<1>2. ~byName => Reachable(t) /\ AtHome(t)
  BY DEF Good
<1>. HIDE DEF c
<1>3. u \in Table(c) /\ u[s] = Entry(k, v) /\ \A r \in 0 .. (c - 1) : r # s => u[r] = t[r]
  BY <1>1, EntryIs, WrittenIs
<1>4. Live(u) = Live(t) \cup {s}
  BY <1>1, WrittenLive
<1>5. OneEach(u)
  BY <1>1, WrittenOneEach
<1>6. ~byName => Reachable(u) /\ AtHome(u)
  BY <1>1, <1>2, WrittenReachable, WrittenAtHome
<1>. HIDE DEF u
<1>7. Cardinality(Live(u)) = IF s \in Live(t) THEN n ELSE n + 1
  BY <1>1, <1>4, LiveIs, FS_AddElement
<1>8. Capacity(u) = c
  BY <1>1, <1>3, CapacityIs
<1>9. Good(u, IF s \in Live(t) THEN n ELSE n + 1)
  BY <1>1, <1>3, <1>5, <1>6, <1>7, <1>8 DEF Good
<1>10. Pairs(u) = PairsWith(t, k, v)
  <2>1. Live(t) \subseteq 0 .. (c - 1)
    BY <1>1, LiveIs
  <2>2. ASSUME NEW r \in Live(t), r # s
        PROVE  u[r] = t[r] /\ t[r].key # k /\ r \in Live(u)
    BY <1>3, <1>4, <2>1, <2>2 DEF Fresh
  <2>3. ASSUME NEW e \in Pairs(t), e.key # k
        PROVE  e \in Pairs(u)
    <3>1. PICK r \in Live(t) : e = t[r]
      BY DEF Pairs
    <3>2. r # s
      BY <2>3, <3>1
    <3> QED
      BY <2>2, <3>1, <3>2 DEF Pairs
  <2>4. ASSUME NEW e \in Pairs(u)
        PROVE  e \in PairsWith(t, k, v)
    <3>1. PICK r \in Live(u) : e = u[r]
      BY DEF Pairs
    <3>2. CASE r = s
      BY <1>3, <3>1, <3>2 DEF PairsWith
    <3>3. CASE r # s
      <4>1. r \in Live(t)
        BY <1>4, <3>3
      <4>2. e = t[r] /\ e.key # k
        BY <2>2, <3>1, <3>3, <4>1
      <4> QED
        BY <4>1, <4>2 DEF PairsWith, Pairs
    <3> QED
      BY <3>2, <3>3
  <2>5. Entry(k, v) \in Pairs(u)
    BY <1>3, <1>4 DEF Pairs
  <2> QED
    BY <2>3, <2>4, <2>5 DEF PairsWith
<1> QED
  BY <1>9, <1>10 DEF u

\* A larger table is as good, and so is the old one.
LEMMA TablesOK ==
  ASSUME NEW n, NEW t, Good(t, n), hash \in Hashes,
         NEW u \in {t, Placed(Entries(t), GrownCapacity(t), byName)}, byName \in BOOLEAN
  PROVE  Good(u, n) /\ Pairs(u) = Pairs(t)
<1>1. CASE u = t
  BY <1>1
<1>2. CASE u = Placed(Entries(t), GrownCapacity(t), byName)
  <2>1. Regrown(u, t, byName)
    BY <1>2, RegrownOK DEF Good
  <2>2. GrownCapacity(t) \in Nat /\ Capacity(u) = GrownCapacity(t)
    <3>1. GrownCapacity(t) \in Nat
      BY GrownIs DEF Good
    <3> QED
      BY <2>1, <3>1, CapacityIs DEF Regrown
  <2> QED
    BY <2>1, <2>2 DEF Good, Regrown
<1> QED
  BY <1>1, <1>2

LEMMA SameEntries ==
  ASSUME NEW t, NEW u, Pairs(u) = Pairs(t)
  PROVE  /\ \A k : Has(u, k) <=> Has(t, k)
         /\ \A kt, vt : Typed(t, kt, vt) => Typed(u, kt, vt)
         /\ Live(u) = {} <=> Live(t) = {}
<1>1. \A s \in Live(u) : \E r \in Live(t) : u[s] = t[r]
  BY DEF Pairs
<1>2. \A r \in Live(t) : \E s \in Live(u) : u[s] = t[r]
  BY DEF Pairs
<1> QED
  BY <1>1, <1>2 DEF Has, Typed

LEMMA StoredTyped ==
  ASSUME NEW t, NEW u, NEW k \in Keys, NEW v \in Values, Pairs(u) = PairsWith(t, k, v),
         Typed(t, KeyType[k], ValueType[v])
  PROVE  Typed(u, KeyType[k], ValueType[v])
<1>1. ASSUME NEW s \in Live(u)
      PROVE  KeyType[u[s].key] = KeyType[k] /\ ValueType[u[s].val] = ValueType[v]
  <2>1. u[s] \in PairsWith(t, k, v)
    BY DEF Pairs
  <2>2. CASE u[s] = Entry(k, v)
    BY <2>2, EntryIs
  <2>3. CASE u[s] \in Pairs(t)
    BY <2>3 DEF Pairs, Typed
  <2> QED
    BY <2>1, <2>2, <2>3 DEF PairsWith
<1> QED
  BY <1>1 DEF Typed

-----------------------------------------------------------------------------
(* The calls.                                                              *)

LEMMA InvIs ==
  ASSUME DictInv
  PROVE  /\ hash \in Hashes /\ byName \in BOOLEAN /\ count \in Nat
         /\ Capacity(table) \in Nat
         /\ table \in Table(Capacity(table))
         /\ count = Cardinality(Live(table))
         /\ OneEach(table)
         /\ ~byName => Reachable(table) /\ AtHome(table)
         /\ Typed(table, keyType, valueType)
         /\ count = 0 <=> Live(table) = {}
<1>1. Capacity(table) \in Nat /\ table \in Table(Capacity(table)) /\ count = Cardinality(Live(table))
  BY DEF DictInv, Good
<1>2. count = 0 <=> Live(table) = {}
  BY <1>1, LiveIs, FS_EmptySet
<1> QED
  BY <1>1, <1>2 DEF DictInv, Good, TypeOK

LEMMA TypesFixed ==
  ASSUME DictInv, NEW k \in Keys, NEW v \in Values, Fits(k, v), FixTypes(k, v)
  PROVE  /\ keyType' = KeyType[k] /\ valueType' = ValueType[v]
         /\ Typed(table, KeyType[k], ValueType[v])
<1>0. KeyType[k] # Untyped /\ ValueType[v] # Untyped
  BY DictAssumption DEF DictAssumption, Range
<1>1. CASE Live(table) = {}
  <2>1. count = 0
    BY <1>1, InvIs
  <2> QED
    BY <1>1, <2>1 DEF FixTypes, Fits, KeyFits, Typed
<1>2. CASE Live(table) # {}
  <2>1. PICK s \in Live(table) : TRUE
    BY <1>2
  <2>2. count # 0 /\ Typed(table, keyType, valueType)
    BY <1>2, InvIs
  <2>3. table[s].key \in Keys /\ table[s].val \in Values
    BY InvIs, LiveEntry
  <2>4. keyType # Untyped /\ valueType # Untyped
    BY <2>2, <2>3, DictAssumption DEF Typed, DictAssumption, Range
  <2>5. keyType = KeyType[k] /\ valueType = ValueType[v]
    BY <2>4 DEF Fits, KeyFits
  <2> QED
    BY <2>2, <2>5 DEF FixTypes
<1> QED
  BY <1>1, <1>2

\* The call set k to v in the table u.
Stores(u, k, v) ==
  /\ table' = u
  /\ Good(u, count')
  /\ count' \in Nat
  /\ Pairs(u) = PairsWith(table, k, v)

\* The call left the entries as they were.
Keeps(u) ==
  /\ table' = u
  /\ Good(u, count')
  /\ count' \in Nat
  /\ Pairs(u) = Pairs(table)

LEMMA SetSafeDoes ==
  ASSUME DictInv, ~byName, NEW k \in Keys, NEW v \in Values, SetSafe(k, v)
  PROVE  \E u : \/ Stores(u, k, v) /\ result' = Done /\ stopped' = FALSE
                \/ Keeps(u) /\ ~ Has(table, k) /\ result' = Failed /\ stopped' = TRUE
<1>1. PICK t \in TablesFor(FullByHash, Rehashed(table, GrownCapacity(table))) :
        LET s == FindSlot(t, k)
            n == IF t = table THEN count ELSE Cardinality(Live(t))
        IN  /\ table'   = Put(t, s, Entry(k, v))
            /\ count'   = IF s # -1 /\ s \notin Live(t) THEN n + 1 ELSE n
            /\ result'  = IF s = -1 THEN Failed ELSE Done
            /\ stopped' = (s = -1)
  BY DEF SetSafe
<1>2. t \in {table, Placed(Entries(table), GrownCapacity(table), byName)}
  <2>1. byName = FALSE
    BY InvIs
  <2> QED
    BY <2>1 DEF TablesFor, Rehashed
<1>3. Good(t, count) /\ Pairs(t) = Pairs(table) /\ hash \in Hashes /\ count \in Nat
  BY <1>2, InvIs, TablesOK DEF DictInv
<1>. DEFINE s == FindSlot(t, k)
            c == Capacity(t)
<1>4. /\ table'   = Put(t, s, Entry(k, v))
      /\ count'   = IF s # -1 /\ s \notin Live(t) THEN count + 1 ELSE count
      /\ result'  = IF s = -1 THEN Failed ELSE Done
      /\ stopped' = (s = -1)
  BY <1>1, <1>3 DEF Good
<1>5. c \in Nat /\ t \in Table(c) /\ Reachable(t)
  BY <1>3 DEF Good
<1>6. CASE s = -1
  <2>1. table' = t /\ count' = count
    BY <1>4, <1>6 DEF Put
  <2>2. ~ Has(t, k)
    <3>1. Live(t) \subseteq 0 .. (c - 1)
      BY <1>5, LiveIs
    <3>. HIDE DEF c
    <3>2. \A r \in 0 .. (c - 1) : t[r].key # k
      BY <1>3, <1>5, <1>6, FindSlotFails
    <3> QED
      BY <3>1, <3>2 DEF Has
  <2>3. ~ Has(table, k)
    BY <1>3, <2>2, SameEntries
  <2> QED
    BY <1>3, <1>4, <1>6, <2>1, <2>3 DEF Keeps
<1>7. CASE s # -1
  <2>. DEFINE u == Written(t, s, Entry(k, v))
  <2>1. s \in 0 .. (c - 1) /\ Stops(t, k, s)
    <3>. HIDE DEF c
    <3> QED
      BY <1>3, <1>5, <1>7, FindSlotEnds DEF EndsAt
  <2>2. s \in Live(t) => t[s].key = k
    BY <2>1 DEF Stops, Live
  <2>3. Fresh(t, s, k)
    BY <1>5 DEF Fresh, Reachable
  <2>4. table' = u /\ result' = Done /\ stopped' = FALSE
    BY <1>4, <1>7 DEF Put, Written
  <2>5. count' = IF s \in Live(t) THEN count ELSE count + 1
    BY <1>4, <1>7
  <2>. HIDE DEF s, u
  <2>6. Good(u, count') /\ Pairs(u) = PairsWith(t, k, v)
    BY <1>3, <2>1, <2>2, <2>3, <2>5, StoredOK DEF s, u
  <2>7. Pairs(u) = PairsWith(table, k, v)
    BY <1>3, <2>6 DEF PairsWith
  <2>8. count' \in Nat
    BY <1>3, <2>5
  <2> QED
    BY <2>4, <2>6, <2>7, <2>8 DEF Stores
<1> QED
  BY <1>6, <1>7

LEMMA FindIs ==
  ASSUME DictInv, NEW k \in Keys, Find(table, k) # {}
  PROVE  /\ Min(Find(table, k)) \in Live(table)
         /\ Min(Find(table, k)) \in 0 .. (Capacity(table) - 1)
         /\ table[Min(Find(table, k))].key = k
         /\ Fresh(table, Min(Find(table, k)), k)
<1>1. Live(table) \subseteq 0 .. (Capacity(table) - 1)
  BY InvIs, LiveIs
<1>2. Find(table, k) \in SUBSET Nat
  BY <1>1 DEF Find
<1>3. Min(Find(table, k)) \in Find(table, k)
  BY <1>2, MinIs
<1> QED
  BY <1>1, <1>3, InvIs DEF Find, Fresh, OneEach

LEMMA SetReplaceDoes ==
  ASSUME DictInv, byName, NEW k \in Keys, NEW v \in Values, SetReplace(k, v)
  PROVE  \E u : Stores(u, k, v) /\ result' = Done /\ stopped' = stopped
<1>. DEFINE s == Min(Find(table, k))
            u == Written(table, s, Entry(k, v))
<1>1. table' = u /\ result' = Done /\ stopped' = stopped /\ count' = count
  BY DEF SetReplace, Written
<1>2. s \in Live(table) /\ s \in 0 .. (Capacity(table) - 1) /\ table[s].key = k /\ Fresh(table, s, k)
  BY FindIs DEF SetReplace
<1>3. hash \in Hashes /\ Good(table, count) /\ count \in Nat
  BY InvIs DEF DictInv
<1>. HIDE DEF s
<1>4. Good(u, count) /\ Pairs(u) = PairsWith(table, k, v)
  BY <1>2, <1>3, StoredOK
<1> QED
  BY <1>1, <1>3, <1>4 DEF Stores

LEMMA SetInsertDoes ==
  ASSUME DictInv, byName, NEW k \in Keys, NEW v \in Values, SetInsert(k, v)
  PROVE  \E u : \/ Stores(u, k, v) /\ result' = Done /\ stopped' = stopped
                \/ Keeps(u) /\ ~ Has(table, k) /\ result' = Failed /\ stopped' = stopped
<1>0. hash \in Hashes /\ Good(table, count) /\ count \in Nat
  BY InvIs DEF DictInv
<1>1. ~ Has(table, k) /\ stopped' = stopped
  BY DEF SetInsert, Has, Find
<1>2. CASE result' = Failed /\ UNCHANGED <<table, count>>
  BY <1>0, <1>1, <1>2 DEF Keeps
<1>. DEFINE t == IF FullInOrder THEN Packed(table, GrownCapacity(table)) ELSE table
            n == IF FullInOrder THEN Cardinality(Live(t)) ELSE count
            s == FirstUnused(t)
            u == Written(t, s, Entry(k, v))
            c == Capacity(t)
<1>3. CASE /\ s # -1
           /\ table'  = Put(t, s, Entry(k, v))
           /\ count'  = n + 1
           /\ result' = Done
  <2>1. t \in {table, Placed(Entries(table), GrownCapacity(table), byName)}
    BY DEF Packed
  <2>. HIDE DEF t
  <2>2. Good(t, count) /\ Pairs(t) = Pairs(table)
    BY <1>0, <2>1, InvIs, TablesOK
  <2>3. n = count
    BY <2>2 DEF Good
  <2>4. c \in Nat /\ t \in Table(c)
    BY <2>2 DEF Good
  <2>5. s \in (0 .. (c - 1)) \ Live(t)
    <3>. HIDE DEF c
    <3> QED
      BY <1>3, <2>4, FirstUnusedIs
  <2>6. Fresh(t, s, k)
    <3>1. ~ Has(t, k)
      BY <1>1, <2>2, SameEntries
    <3> QED
      BY <3>1 DEF Has, Fresh
  <2>7. table' = u /\ count' = count + 1
    BY <1>3, <2>3 DEF Put, Written
  <2>. HIDE DEF s, u, n
  <2>8. Good(u, count') /\ Pairs(u) = PairsWith(t, k, v)
    BY <1>0, <2>2, <2>5, <2>6, <2>7, StoredOK DEF u
  <2>9. Pairs(u) = PairsWith(table, k, v) /\ count' \in Nat
    BY <1>0, <2>2, <2>7, <2>8 DEF PairsWith
  <2> QED
    BY <1>1, <1>3, <2>7, <2>8, <2>9 DEF Stores
<1> QED
  BY <1>2, <1>3 DEF SetInsert

LEMMA ResolvedIs ==
  ASSUME DictInv, ~byName, NEW k \in Keys
  PROVE  /\ Has(table, k) => \E s \in Live(table) : /\ table[s].key = k
                                                    /\ FindSlot(table, k) = s
                                                    /\ Resolved(k) = table[s].val
                                                    /\ Resolved(k) \in Values
         /\ ~ Has(table, k) => Resolved(k) = Null
         /\ Has(table, k) <=> Resolved(k) # Null
<1>1. ASSUME NEW s \in Live(table), table[s].key = k
      PROVE  FindSlot(table, k) = s /\ Resolved(k) = table[s].val /\ Resolved(k) \in Values
  <2>1. FindSlot(table, k) = s
    BY <1>1, InvIs DEF Reachable
  <2>2. table[s].val \in Values
    BY InvIs, LiveEntry
  <2> QED
    BY <2>1, <2>2 DEF Resolved
<1>2. ASSUME ~ Has(table, k)
      PROVE  Resolved(k) = Null
  <2>1. ASSUME FindSlot(table, k) \in Live(table)
        PROVE  FALSE
    <3>1. FindSlot(table, k) # -1
      BY <2>1, InvIs, LiveIs
    <3>2. Stops(table, k, FindSlot(table, k))
      BY <3>1, InvIs, FindSlotEnds DEF EndsAt
    <3>3. table[FindSlot(table, k)].key = k
      BY <2>1, <3>2 DEF Stops, Live
    <3> QED
      BY <1>2, <2>1, <3>3 DEF Has
  <2> QED
    BY <2>1 DEF Resolved
<1>3. Null \notin Values
  BY DictAssumption DEF DictAssumption
<1> QED
  BY <1>1, <1>2, <1>3 DEF Has

\* The entries after k was removed.
PairsWithout(t, k) == {e \in Pairs(t) : e.key # k}

LEMMA RemoveKeyDoes ==
  ASSUME DictInv, ~byName, CollisionFree, NEW k \in Keys, RemoveKey(k)
  PROVE  \E u : /\ table' = u /\ Good(u, count') /\ count' \in Nat
                /\ Pairs(u) = PairsWithout(table, k)
<1>. DEFINE s == FindSlot(table, k)
            c == Capacity(table)
            u == Written(table, s, Deleted)
<1>1. s \in Live(table) /\ table[s].key = k
  BY ResolvedIs DEF RemoveKey
<1>2. c \in Nat /\ table \in Table(c) /\ count = Cardinality(Live(table)) /\ OneEach(table) /\ AtHome(table)
  BY InvIs
<1>3. table' = u /\ count' = count - 1
  BY DEF RemoveKey, Written
<1>4. hash \in Hashes
  BY InvIs
<1>5. Separate(table)
  <2>1. Live(table) \subseteq 0 .. (c - 1)
    BY <1>2, LiveIs
  <2>2. c > 0
    BY <1>1, <1>2, <2>1
  <2> QED
    BY <2>2 DEF CollisionFree
<1>. HIDE DEF s, c
<1>6. u \in Table(c) /\ Live(u) = Live(table) \ {s} /\ \A r \in Live(table) \ {s} : u[r] = table[r]
  BY <1>1, <1>2, DeletedIs
<1>7. OneEach(u) /\ AtHome(u) /\ Separate(u)
  BY <1>1, <1>2, <1>5, DeletedAtHome
<1>. HIDE DEF u
<1>8. Reachable(u) /\ Capacity(u) = c
  BY <1>2, <1>4, <1>6, <1>7, HomeReachable, CapacityIs
<1>9. Cardinality(Live(u)) = count - 1 /\ Cardinality(Live(u)) \in Nat
  BY <1>1, <1>2, <1>6, LiveIs, FS_RemoveElement
<1>10. Pairs(u) = PairsWithout(table, k)
  <2>1. \A r \in Live(table) : table[r].key = k <=> r = s
    BY <1>1, <1>2 DEF OneEach
  <2> QED
    BY <1>6, <2>1 DEF Pairs, PairsWithout
<1>11. Good(u, count') /\ count' \in Nat
  BY <1>2, <1>3, <1>6, <1>7, <1>8, <1>9 DEF Good
<1> QED
  BY <1>3, <1>10, <1>11

LEMMA ClearDoes ==
  ASSUME DictInv, Clear
  PROVE  \E u : table' = u /\ Good(u, count') /\ count' = 0 /\ Live(u) = {}
<1>. DEFINE c == Capacity(table)
            u == EmptyTable(c)
<1>1. table' = u /\ count' = 0 /\ c \in Nat
  BY InvIs DEF Clear
<1>. HIDE DEF c
<1>2. u \in Table(c) /\ Live(u) = {} /\ Capacity(u) = c
  BY <1>1, EmptyIs
<1>. HIDE DEF u
<1>3. Good(u, 0)
  BY <1>1, <1>2, FS_EmptySet DEF Good, OneEach, Reachable, AtHome
<1> QED
  BY <1>1, <1>2, <1>3

LEMMA GoodPrime ==
  ASSUME NEW u, table' = u, hash' = hash, byName' = byName, Good(u, count')
  PROVE  Good(table, count)'
<1>1. Live(table)' = Live(u) /\ Capacity(table)' = Capacity(u)
  BY DEF Live, Capacity
<1>2. \A k, d : Probe(table, k, d)' = Probe(u, k, d)
  BY DEF Probe, Capacity
<1>3. \A k, s : Stops(table, k, s)' <=> Stops(u, k, s)
  BY DEF Stops
<1>4. \A k : FindSlot(table, k)' = FindSlot(u, k)
  BY DEF FindSlot, Stops, Probe, Capacity
<1>5. OneEach(table)' <=> OneEach(u)
  BY <1>1 DEF OneEach
<1>6. Reachable(table)' <=> Reachable(u)
  BY <1>1, <1>4 DEF Reachable
<1>7. AtHome(table)' <=> AtHome(u)
  BY <1>1, <1>2 DEF AtHome, Separate
<1> QED
  BY <1>1, <1>5, <1>6, <1>7 DEF Good, Table

LEMMA TypedPrime ==
  ASSUME NEW u, table' = u, Typed(u, keyType', valueType')
  PROVE  Typed(table, keyType, valueType)'
BY DEF Typed, Live

-----------------------------------------------------------------------------
(* The invariant holds.                                                    *)

LEMMA LiteralCapacityIs ==
  ASSUME NEW n \in Nat
  PROVE  LiteralCapacity(n) \in Nat /\ n <= LiteralCapacity(n)
<1>. DEFINE a == FirstCapacity
            b == IF n > 0 THEN (4 * n) \div 3 + 1 ELSE FirstCapacity
<1>1. a \in Nat
  BY DictAssumption DEF DictAssumption
<1>2. b \in Nat /\ n <= b
  BY <1>1
<1>3. LiteralCapacity(n) = Max({a, b})
  BY DEF LiteralCapacity
<1>. HIDE DEF a, b
<1>4. \E x \in {a, b} : \A y \in {a, b} : x >= y
  BY <1>1, <1>2
<1>5. Max({a, b}) \in {a, b} /\ \A y \in {a, b} : Max({a, b}) >= y
  BY <1>4 DEF Max
<1> QED
  BY <1>1, <1>2, <1>3, <1>5

LEMMA EmptyGood ==
  ASSUME table = EmptyTable(0)
  PROVE  /\ Capacity(table) \in Nat
         /\ table \in Table(Capacity(table))
         /\ Good(table, 0)
         /\ \A kt, vt : Typed(table, kt, vt)
<1>1. table \in Table(0) /\ Live(table) = {} /\ Capacity(table) = 0
  BY EmptyIs
<1> QED
  BY <1>1, FS_EmptySet DEF Good, OneEach, Reachable, AtHome, Typed

LEMMA LiteralGood ==
  ASSUME hash \in Hashes, NEW l \in Literals, FromLiteral(l)
  PROVE  /\ Capacity(table) \in Nat
         /\ table \in Table(Capacity(table))
         /\ Good(table, count)
         /\ Typed(table, keyType, valueType)
         /\ count \in Nat
         /\ keyType \in Range(KeyType) \cup {Untyped}
         /\ valueType \in Range(ValueType) \cup {Untyped}
<1>. DEFINE n == Len(l)
            c == LiteralCapacity(n)
            R == [state : {"live"}, key : Keys, val : Values]
<1>1. l \in Seq(R) /\ n \in Nat
  <2>1. Literals \subseteq Seq(R)
    BY LiteralsAssumption DEF LiteralsAssumption
  <2>. HIDE DEF R
  <2>2. l \in Seq(R)
    BY <2>1
  <2> QED
    BY <2>2
<1>2. \A i \in 1 .. n : l[i].state = "live" /\ l[i].key \in Keys /\ l[i].val \in Values
                       /\ l[i] = Entry(l[i].key, l[i].val)
  <2>1. ASSUME NEW i \in 1 .. n
        PROVE  l[i] \in R
    <3>. HIDE DEF R
    <3> QED
      BY <1>1
  <2> QED
    BY <2>1 DEF Entry
<1>3. \A i, j \in 1 .. n : /\ KeyType[l[i].key] = KeyType[l[j].key]
                           /\ ValueType[l[i].val] = ValueType[l[j].val]
                           /\ l[i].key = l[j].key => i = j
  BY <1>1, LiteralsAssumption DEF LiteralsAssumption
<1>4. l \in Seq(Slot)
  <2>1. \A i \in 1 .. n : l[i] \in Slot
    BY <1>2, EntryIs
  <2> QED
    BY <1>1, <2>1
<1>5. c \in Nat /\ n <= c
  BY <1>1, LiteralCapacityIs
<1>6. LiveUpTo(l, n) = 1 .. n
  BY <1>2 DEF LiveUpTo
<1>7. table = Placed(l, c, FALSE) /\ count = n
  BY DEF FromLiteral
<1>8. HasPlaced(table, l, n, c, FALSE)
  <2>1. \A i, j \in LiveUpTo(l, Len(l)) : l[i].key = l[j].key => i = j
    <3>1. \A i, j \in LiveUpTo(l, n) : i \in 1 .. n /\ j \in 1 .. n
      BY <1>6
    <3> QED
      BY <1>3, <3>1
  <2>. HIDE DEF c
  <2>2. HasPlaced(Placed(l, c, FALSE), l, n, c, FALSE)
    BY <1>4, <1>5, <2>1, PlacedOK
  <2> QED
    BY <1>7, <2>2
<1>9. table \in Table(c) /\ Capacity(table) = c
  <2>. HIDE DEF c
  <2> QED
    BY <1>5, <1>8, CapacityIs DEF HasPlaced
<1>10. Cardinality(Live(table)) = n
  BY <1>1, <1>6, <1>8, FS_Interval DEF HasPlaced
<1>11. Good(table, count)
  BY <1>5, <1>7, <1>8, <1>9, <1>10 DEF Good, HasPlaced
<1>12. Typed(table, keyType, valueType)
  <2>1. ASSUME NEW s \in Live(table)
        PROVE  KeyType[table[s].key] = keyType /\ ValueType[table[s].val] = valueType
    <3>1. PICK i \in 1 .. n : table[s] = l[i]
      <4>1. Pairs(table) = {l[i] : i \in 1 .. n}
        BY <1>6, <1>8 DEF HasPlaced
      <4>2. table[s] \in Pairs(table)
        BY DEF Pairs
      <4> QED
        BY <4>1, <4>2
    <3>2. l # <<>> /\ 1 \in 1 .. n
      BY <1>1, <3>1
    <3>3. keyType = KeyType[l[1].key] /\ valueType = ValueType[l[1].val]
      BY <3>2 DEF FromLiteral
    <3>4. KeyType[l[i].key] = KeyType[l[1].key] /\ ValueType[l[i].val] = ValueType[l[1].val]
      BY <1>3, <3>2
    <3> QED
      BY <3>1, <3>3, <3>4
  <2> QED
    BY <2>1 DEF Typed
<1>13. keyType \in Range(KeyType) \cup {Untyped} /\ valueType \in Range(ValueType) \cup {Untyped}
  <2>1. CASE l = <<>>
    BY <2>1 DEF FromLiteral
  <2>2. CASE l # <<>>
    <3>1. 1 \in 1 .. n
      BY <1>1, <2>2
    <3>2. l[1].key \in DOMAIN KeyType /\ l[1].val \in DOMAIN ValueType
      BY <1>2, <3>1, DictAssumption DEF DictAssumption
    <3> QED
      BY <2>2, <3>2 DEF FromLiteral, Range
  <2> QED
    BY <2>1, <2>2
<1> QED
  BY <1>1, <1>5, <1>7, <1>9, <1>11, <1>12, <1>13

LEMMA InitInv ==
  ASSUME Init
  PROVE  DictInv
<1>1. hash \in Hashes /\ byName \in BOOLEAN /\ result = Done /\ stopped = FALSE /\ Head(call) = "new"
  BY DEF Init
<1>2. /\ Capacity(table) \in Nat
      /\ table \in Table(Capacity(table))
      /\ Good(table, count)
      /\ Typed(table, keyType, valueType)
      /\ count \in Nat
      /\ keyType \in Range(KeyType) \cup {Untyped}
      /\ valueType \in Range(ValueType) \cup {Untyped}
  <2>1. CASE New
    BY <2>1, EmptyGood DEF New
  <2>2. CASE NewTyped
    BY <2>2, EmptyGood DEF NewTyped
  <2>3. CASE \E l \in Literals : FromLiteral(l)
    BY <1>1, <2>3, LiteralGood
  <2> QED
    BY <2>1, <2>2, <2>3 DEF Init
<1> QED
  BY <1>1, <1>2 DEF DictInv, TypeOK, Table

\* What TypeOK says beyond the table and the count.
Rest ==
  /\ keyType \in Range(KeyType) \cup {Untyped}
  /\ valueType \in Range(ValueType) \cup {Untyped}
  /\ Head(call) \in {"new", "set", "get", "contains", "remove", "clear"}
  /\ result \in Values \cup BOOLEAN \cup {Null, Done, Failed}
  /\ stopped \in BOOLEAN
  /\ hash \in Hashes
  /\ byName \in BOOLEAN

LEMMA InvFromParts ==
  ASSUME DictInv, UNCHANGED <<hash, byName>>, NEW u, table' = u, Good(u, count'), count' \in Nat,
         Typed(u, keyType', valueType'), Rest'
  PROVE  DictInv'
<1>1. Good(table, count)' /\ Typed(table, keyType, valueType)'
  BY GoodPrime, TypedPrime
<1>2. Capacity(table)' \in Nat /\ (table \in [0 .. (Capacity(table) - 1) -> Slot])'
  BY <1>1 DEF Good, Table
<1> QED
  BY <1>1, <1>2 DEF DictInv, TypeOK, Rest

\* A call that changes nothing but its result.
LEMMA AnswerInv ==
  ASSUME DictInv, UNCHANGED <<hash, byName>>, NEW r \in Values \cup BOOLEAN \cup {Null, Done, Failed},
         Answer(r), Head(call') \in {"set", "get", "contains", "remove"}
  PROVE  DictInv'
<1>1. Rest'
  BY DEF Answer, Rest, DictInv, TypeOK
<1>2. /\ table' = table /\ Good(table, count') /\ count' \in Nat
      /\ Typed(table, keyType', valueType')
  BY InvIs DEF Answer, DictInv
<1> QED
  BY <1>1, <1>2, InvFromParts

LEMMA SetInv ==
  ASSUME DictInv, UNCHANGED <<hash, byName>>, NEW k \in Keys, NEW v \in Values,
         \/ ~byName /\ SetSafe(k, v)
         \/ byName /\ (SetReplace(k, v) \/ SetInsert(k, v)),
         call' = <<"set", k, v>>
  PROVE  DictInv'
<1>1. Fits(k, v) /\ FixTypes(k, v)
  BY DEF SetSafe, SetReplace, SetInsert
<1>2. keyType' = KeyType[k] /\ valueType' = ValueType[v] /\ Typed(table, KeyType[k], ValueType[v])
  BY <1>1, TypesFixed
<1>3. stopped \in BOOLEAN
  BY DEF DictInv, TypeOK
<1>4. PICK u : /\ Stores(u, k, v) \/ Keeps(u)
               /\ result' \in {Done, Failed} /\ stopped' \in BOOLEAN
  BY <1>3, SetSafeDoes, SetReplaceDoes, SetInsertDoes
<1>5. table' = u /\ Good(u, count') /\ count' \in Nat /\ Typed(u, KeyType[k], ValueType[v])
  <2>1. CASE Stores(u, k, v)
    BY <1>2, <2>1, StoredTyped DEF Stores
  <2>2. CASE Keeps(u)
    BY <1>2, <2>2, SameEntries DEF Keeps
  <2> QED
    BY <1>4, <2>1, <2>2
<1>6. Rest'
  <2>1. KeyType[k] \in Range(KeyType) /\ ValueType[v] \in Range(ValueType)
    BY DictAssumption DEF DictAssumption, Range
  <2>2. hash' \in Hashes /\ byName' \in BOOLEAN
    BY InvIs
  <2>3. Head(call') = "set"
    OBVIOUS
  <2> QED
    BY <1>2, <1>4, <2>1, <2>2, <2>3 DEF Rest
<1>7. Typed(u, keyType', valueType')
  BY <1>2, <1>5
<1> QED
  BY <1>5, <1>6, <1>7, InvFromParts

LEMMA RemoveKeyInv ==
  ASSUME DictInv, UNCHANGED <<hash, byName>>, ~byName, CollisionFree, NEW k \in Keys, RemoveKey(k),
         call' = <<"remove", k>>
  PROVE  DictInv'
<1>1. PICK u : /\ table' = u /\ Good(u, count') /\ count' \in Nat
               /\ Pairs(u) = PairsWithout(table, k)
  BY RemoveKeyDoes
<1>2. Typed(u, keyType', valueType')
  <2>1. \A s \in Live(u) : \E r \in Live(table) : u[s] = table[r]
    BY <1>1 DEF Pairs, PairsWithout
  <2>2. keyType' = keyType /\ valueType' = valueType /\ Typed(table, keyType, valueType)
    BY InvIs DEF RemoveKey
  <2> QED
    BY <2>1, <2>2 DEF Typed
<1>3. result' \in Values
  BY ResolvedIs DEF RemoveKey
<1>4. Rest'
  <2>1. Head(call') = "remove"
    OBVIOUS
  <2> QED
    BY <1>3, <2>1 DEF RemoveKey, Rest, DictInv, TypeOK
<1> QED
  BY <1>1, <1>2, <1>4, InvFromParts

LEMMA ClearInv ==
  ASSUME DictInv, UNCHANGED <<hash, byName>>, Clear, call' = <<"clear">>
  PROVE  DictInv'
<1>1. PICK u : table' = u /\ Good(u, count') /\ count' = 0 /\ Live(u) = {}
  BY ClearDoes
<1>2. Typed(u, keyType', valueType')
  BY <1>1 DEF Typed
<1>3. Rest'
  <2>1. Head(call') = "clear"
    OBVIOUS
  <2> QED
    BY <2>1 DEF Clear, Rest, DictInv, TypeOK
<1> QED
  BY <1>1, <1>2, <1>3, InvFromParts

LEMMA StepInv ==
  ASSUME DictInv, [Next]_vars
  PROVE  DictInv'
<1>1. CASE byName /\ Use(NextByName)
  <2>1. ASSUME NEW k \in StringKeys, NEW v \in Values,
               SetReplace(k, v) \/ SetInsert(k, v) \/ Refuse(k, v), call' = <<"set", k, v>>
        PROVE  DictInv'
    <3>0. k \in Keys /\ UNCHANGED <<hash, byName>> /\ Head(call') = "set"
      BY <1>1, <2>1 DEF StringKeys, Use
    <3>1. CASE SetReplace(k, v) \/ SetInsert(k, v)
      BY <1>1, <2>1, <3>0, <3>1, SetInv
    <3>2. CASE Refuse(k, v)
      BY <3>0, <3>2, AnswerInv DEF Refuse
    <3> QED
      BY <2>1, <3>1, <3>2
  <2>2. ASSUME NEW k \in StringKeys, GetByName(k), call' = <<"get", k>>
        PROVE  DictInv'
    <3>. DEFINE r == IF Find(table, k) = {} THEN Null ELSE table[Min(Find(table, k))].val
    <3>1. r \in Values \cup {Null}
      <4>1. ASSUME Find(table, k) # {}
            PROVE  table[Min(Find(table, k))].val \in Values
        <5>1. Min(Find(table, k)) \in Live(table)
          BY <4>1, FindIs DEF StringKeys
        <5> QED
          BY <5>1, InvIs, LiveEntry
      <4> QED
        BY <4>1
    <3>2. Answer(r) /\ UNCHANGED <<hash, byName>> /\ Head(call') = "get"
      BY <1>1, <2>2 DEF GetByName, Use
    <3>. HIDE DEF r
    <3> QED
      BY <3>1, <3>2, AnswerInv
  <2> QED
    BY <1>1, <2>1, <2>2 DEF NextByName, Use
<1>2. CASE ~byName /\ Use(NextByValue)
  <2>0. UNCHANGED <<hash, byName>>
    BY <1>2 DEF Use
  <2>1. ASSUME NEW k \in Keys, NEW v \in Values, SetSafe(k, v) \/ Refuse(k, v), call' = <<"set", k, v>>
        PROVE  DictInv'
    <3>1. CASE SetSafe(k, v)
      BY <1>2, <2>0, <2>1, <3>1, SetInv
    <3>2. CASE Refuse(k, v)
      <4>1. Head(call') = "set"
        BY <2>1
      <4> QED
        BY <2>0, <3>2, <4>1, AnswerInv DEF Refuse
    <3> QED
      BY <2>1, <3>1, <3>2
  <2>2. ASSUME NEW k \in Keys, GetSafe(k), call' = <<"get", k>>
        PROVE  DictInv'
    <3>. DEFINE r == IF KeyFits(k) THEN Resolved(k) ELSE Null
    <3>1. r \in Values \cup {Null}
      BY <1>2, ResolvedIs
    <3>2. Answer(r) /\ Head(call') = "get"
      BY <2>2 DEF GetSafe
    <3>. HIDE DEF r
    <3> QED
      BY <2>0, <3>1, <3>2, AnswerInv
  <2>3. ASSUME NEW k \in Keys, ContainsKey(k), call' = <<"contains", k>>
        PROVE  DictInv'
    <3>. DEFINE r == KeyFits(k) /\ Resolved(k) # Null
    <3>1. r \in BOOLEAN
      OBVIOUS
    <3>2. Answer(r) /\ Head(call') = "contains"
      BY <2>3 DEF ContainsKey
    <3>. HIDE DEF r
    <3> QED
      BY <2>0, <3>1, <3>2, AnswerInv
  <2>4. ASSUME Clear, call' = <<"clear">>
        PROVE  DictInv'
    BY <2>0, <2>4, ClearInv
  <2> QED
    BY <1>2, <2>1, <2>2, <2>3, <2>4 DEF NextByValue, Use
<1>3. CASE ~byName /\ CollisionFree /\ Use(Removal)
  <2>0. UNCHANGED <<hash, byName>>
    BY <1>3 DEF Use
  <2>1. PICK k \in Keys : (RemoveKey(k) \/ RemoveMissing(k)) /\ call' = <<"remove", k>>
    BY <1>3 DEF Use, Removal
  <2>2. CASE RemoveKey(k)
    BY <1>3, <2>0, <2>1, <2>2, RemoveKeyInv
  <2>3. CASE RemoveMissing(k)
    <3>1. Answer(Null) /\ Head(call') = "remove"
      BY <2>1, <2>3 DEF RemoveMissing
    <3> QED
      BY <2>0, <3>1, AnswerInv
  <2> QED
    BY <2>1, <2>2, <2>3
<1>4. CASE UNCHANGED vars
  <2>1. table' = table /\ Good(table, count') /\ count' \in Nat /\ Typed(table, keyType', valueType')
    BY <1>4, InvIs DEF vars, DictInv
  <2>2. Rest' /\ UNCHANGED <<hash, byName>>
    BY <1>4 DEF vars, Rest, DictInv, TypeOK
  <2> QED
    BY <2>1, <2>2, InvFromParts
<1> QED
  BY <1>1, <1>2, <1>3, <1>4 DEF Next

\* For any hashes, however the table is filled, grown, emptied and used.
THEOREM DictInvHolds == Spec => []DictInv
<1>1. Init => DictInv
  BY InitInv
<1>2. DictInv /\ [Next]_vars => DictInv'
  BY StepInv
<1> QED
  BY <1>1, <1>2, PTL DEF Spec

\* Every variable keeps its type: the table is one of entries, free slots and
\* tombstones, and the count never goes below zero.
THEOREM TypesHold == Spec => []TypeOK
<1>1. DictInv => TypeOK
  BY DEF DictInv
<1> QED
  BY <1>1, DictInvHolds, PTL

\* The count is the number of live slots, no key has two, and a table below its
\* load limit has a slot for a new key, after any calls.
THEOREM CountIsLiveHolds == Spec => []CountIsLive
<1>1. DictInv => CountIsLive
  <2>1. ASSUME DictInv, NEW k \in Keys
        PROVE  Cardinality(Find(table, k)) <= 1
    <3>1. OneEach(table)
      BY <2>1, InvIs
    <3>2. CASE Find(table, k) = {}
      BY <3>2, FS_EmptySet
    <3>3. CASE Find(table, k) # {}
      <4>1. PICK s \in Find(table, k) : TRUE
        BY <3>3
      <4>2. Find(table, k) = {s}
        BY <3>1, <4>1 DEF Find, OneEach
      <4> QED
        BY <4>2, FS_Singleton
    <3> QED
      BY <3>2, <3>3
  <2>2. DictInv => count = Cardinality(Live(table))
    BY InvIs
  <2>3. ASSUME DictInv, ~FullByHash \/ ~FullInOrder
        PROVE  Live(table) # DOMAIN table
    <3> DEFINE c == Capacity(table)
    <3>1. /\ c \in Nat /\ table \in Table(c) /\ count \in Nat
          /\ count = Cardinality(Live(table))
      BY <2>3, InvIs
    <3>2. count < c
      BY <2>3, <3>1 DEF FullByHash, FullInOrder
    <3> HIDE DEF c
    <3>3. DOMAIN table = 0 .. (c - 1)
      BY <3>1 DEF Table
    <3> QED
      BY <3>1, <3>2, <3>3, RoomLeft
  <2> QED
    BY <2>1, <2>2, <2>3 DEF CountIsLive
<1> QED
  BY <1>1, DictInvHolds, PTL

\* Looking up a key that the table lists gives the value that it lists for it, as
\* long as no key is removed that may share a probe with another.
THEOREM KeysResolveHolds == Spec => []KeysResolve
<1>1. DictInv => KeysResolve
  <2>1. ASSUME DictInv, ~byName, NEW s \in Live(table)
        PROVE  Resolved(table[s].key) = table[s].val
    <3>1. FindSlot(table, table[s].key) = s
      BY <2>1, InvIs DEF Reachable
    <3> QED
      BY <3>1 DEF Resolved
  <2> QED
    BY <2>1 DEF KeysResolve
<1> QED
  BY <1>1, DictInvHolds, PTL

-----------------------------------------------------------------------------
(* The map that the table stands for.                                      *)

DictOf(t) == [k \in {t[s].key : s \in Live(t)} |-> t[Min(Find(t, k))].val]

\* The function f maps the keys of the entries of t to their values.
Maps(f, t) ==
  /\ f = [x \in DOMAIN f |-> f[x]]
  /\ DOMAIN f = {e.key : e \in Pairs(t)}
  /\ \A e \in Pairs(t) : f[e.key] = e.val

LEMMA MapsOnce ==
  ASSUME NEW t, NEW f, NEW g, Maps(f, t), Maps(g, t)
  PROVE  f = g
<1>1. DOMAIN f = DOMAIN g
  BY DEF Maps
<1>2. ASSUME NEW x \in DOMAIN f
      PROVE  f[x] = g[x]
  BY DEF Maps
<1>3. f = [x \in DOMAIN f |-> f[x]] /\ g = [x \in DOMAIN g |-> g[x]]
  BY DEF Maps
<1> QED
  BY <1>1, <1>2, <1>3

LEMMA DictMaps ==
  ASSUME NEW n, NEW t, Good(t, n)
  PROVE  Maps(DictOf(t), t)
<1>. DEFINE c == Capacity(t)
            f == DictOf(t)
<1>1. c \in Nat /\ t \in Table(c) /\ OneEach(t)
  BY DEF Good
<1>2. Live(t) \subseteq Nat
  <2>. HIDE DEF c
  <2>1. Live(t) \subseteq 0 .. (c - 1)
    BY <1>1, LiveIs
  <2> QED
    BY <1>1, <2>1
<1>3. f = [x \in DOMAIN f |-> f[x]] /\ DOMAIN f = {t[s].key : s \in Live(t)}
  BY DEF DictOf
<1>4. {t[s].key : s \in Live(t)} = {e.key : e \in Pairs(t)}
  BY DEF Pairs
<1>5. ASSUME NEW e \in Pairs(t)
      PROVE  f[e.key] = e.val
  <2>1. PICK s \in Live(t) : e = t[s]
    BY DEF Pairs
  <2>2. Find(t, e.key) = {s}
    BY <1>1, <2>1 DEF Find, OneEach
  <2>3. Min(Find(t, e.key)) = s
    <3>1. Find(t, e.key) \in SUBSET Nat /\ Find(t, e.key) # {}
      BY <1>2, <2>2
    <3>2. Min(Find(t, e.key)) \in Find(t, e.key)
      BY <3>1, MinIs
    <3> QED
      BY <2>2, <3>2
  <2>4. e.key \in {t[r].key : r \in Live(t)}
    BY <2>1
  <2>5. f[e.key] = t[Min(Find(t, e.key))].val
    BY <2>4 DEF DictOf
  <2> QED
    BY <2>1, <2>3, <2>5
<1>6. DOMAIN f = {e.key : e \in Pairs(t)}
  BY <1>3, <1>4
<1>. HIDE DEF f
<1>7. Maps(f, t)
  BY <1>3, <1>5, <1>6 DEF Maps
<1> QED
  BY <1>7 DEF f

LEMMA DictSame ==
  ASSUME NEW n, NEW t, Good(t, n), NEW m, NEW u, Good(u, m), Pairs(u) = Pairs(t)
  PROVE  DictOf(u) = DictOf(t)
<1>1. Maps(DictOf(u), u) /\ Maps(DictOf(t), t)
  BY DictMaps
<1>2. Maps(DictOf(t), u)
  BY <1>1 DEF Maps
<1> QED
  BY <1>1, <1>2, MapsOnce

LEMMA DictWith ==
  ASSUME NEW n, NEW t, Good(t, n), NEW m, NEW u, Good(u, m), NEW k \in Keys, NEW v \in Values,
         Pairs(u) = PairsWith(t, k, v)
  PROVE  DictOf(u) = [x \in DOMAIN DictOf(t) \cup {k} |-> IF x = k THEN v ELSE DictOf(t)[x]]
<1>. DEFINE f == DictOf(t)
            g == [x \in DOMAIN f \cup {k} |-> IF x = k THEN v ELSE f[x]]
<1>1. Maps(f, t) /\ Maps(DictOf(u), u)
  BY DictMaps
<1>. HIDE DEF f
<1>2. DOMAIN f = {e.key : e \in Pairs(t)} /\ \A e \in Pairs(t) : f[e.key] = e.val
  BY <1>1 DEF Maps
<1>3. g = [x \in DOMAIN g |-> g[x]] /\ DOMAIN g = DOMAIN f \cup {k}
  OBVIOUS
<1>4. DOMAIN g = {e.key : e \in Pairs(u)}
  <2>1. Entry(k, v).key = k
    BY EntryIs
  <2> QED
    BY <1>2, <1>3, <2>1 DEF PairsWith
<1>5. ASSUME NEW e \in Pairs(u)
      PROVE  g[e.key] = e.val
  <2>1. CASE e = Entry(k, v)
    BY <2>1, EntryIs
  <2>2. CASE e \in Pairs(t) /\ e.key # k
    BY <1>2, <2>2
  <2> QED
    BY <2>1, <2>2 DEF PairsWith
<1>. HIDE DEF g
<1>6. Maps(g, u)
  BY <1>3, <1>4, <1>5 DEF Maps
<1>7. DictOf(u) = g
  BY <1>1, <1>6, MapsOnce
<1> QED
  BY <1>7 DEF g, f

LEMMA DictWithout ==
  ASSUME NEW n, NEW t, Good(t, n), NEW m, NEW u, Good(u, m), NEW k, Pairs(u) = PairsWithout(t, k)
  PROVE  DictOf(u) = Restrict(DictOf(t), DOMAIN DictOf(t) \ {k})
<1>. DEFINE f == DictOf(t)
            g == [x \in DOMAIN f \ {k} |-> f[x]]
<1>1. Maps(f, t) /\ Maps(DictOf(u), u)
  BY DictMaps
<1>. HIDE DEF f
<1>2. DOMAIN f = {e.key : e \in Pairs(t)} /\ \A e \in Pairs(t) : f[e.key] = e.val
  BY <1>1 DEF Maps
<1>3. g = [x \in DOMAIN g |-> g[x]] /\ DOMAIN g = DOMAIN f \ {k}
  OBVIOUS
<1>4. DOMAIN g = {e.key : e \in Pairs(u)}
  BY <1>2, <1>3 DEF PairsWithout
<1>5. ASSUME NEW e \in Pairs(u)
      PROVE  g[e.key] = e.val
  BY <1>2 DEF PairsWithout
<1>6. Maps(g, u)
  <2>. HIDE DEF g
  <2> QED
    BY <1>3, <1>4, <1>5 DEF Maps
<1>7. DictOf(u) = g
  <2>. HIDE DEF g
  <2> QED
    BY <1>1, <1>6, MapsOnce
<1> QED
  BY <1>7 DEF f, Restrict

\* Only a table without entries stands for the empty map.
LEMMA DictEmpty ==
  ASSUME NEW t
  PROVE  DictOf(t) = <<>> <=> Live(t) = {}
<1>1. ASSUME Live(t) = {}
      PROVE  DictOf(t) = <<>>
  <2>1. {t[s].key : s \in Live(t)} = {}
    BY <1>1
  <2>2. DictOf(t) = [k \in {} |-> t[Min(Find(t, k))].val]
    BY <2>1 DEF DictOf
  <2> QED
    BY <2>2
<1>2. ASSUME NEW s \in Live(t)
      PROVE  DictOf(t) # <<>>
  <2>1. t[s].key \in DOMAIN DictOf(t)
    BY DEF DictOf
  <2>2. DOMAIN <<>> = {}
    OBVIOUS
  <2> QED
    BY <2>1, <2>2
<1> QED
  BY <1>1, <1>2

-----------------------------------------------------------------------------
(* Each call does to the map what it promises.                             *)

LEMMA DictIs ==
  ASSUME DictInv
  PROVE  /\ Dict = DictOf(table)
         /\ Good(table, count)
         /\ \A k : k \in DOMAIN Dict <=> Has(table, k)
         /\ \A s \in Live(table) : Dict[table[s].key] = table[s].val
<1>1. Dict = DictOf(table)
  BY DEF Dict, DictOf
<1>2. Good(table, count)
  BY DEF DictInv
<1>3. Maps(Dict, table)
  BY <1>1, <1>2, DictMaps
<1> QED
  BY <1>1, <1>2, <1>3 DEF Maps, Pairs, Has

LEMMA DictPrime ==
  ASSUME NEW u, table' = u
  PROVE  Dict' = DictOf(u)
BY DEF Dict, DictOf, Live, Find

LEMMA InitMaps ==
  ASSUME Init
  PROVE  Promise!Init
<1>1. DictInv
  BY InitInv
<1>2. DOMAIN Dict \in SUBSET Keys
  BY <1>1, DictIs, InvIs, LiveEntry DEF Has
<1>3. Dict \in [DOMAIN Dict -> Values]
  <2>1. ASSUME NEW k \in DOMAIN Dict
        PROVE  Dict[k] \in Values
    <3>1. PICK s \in Live(table) : table[s].key = k
      BY <1>1, DictIs DEF Has
    <3> QED
      BY <1>1, <3>1, DictIs, InvIs, LiveEntry
  <2>2. Dict = [k \in DOMAIN Dict |-> Dict[k]]
    BY DEF Dict
  <2> QED
    BY <2>1, <2>2
<1>4. Dict \in UNION {[K -> Values] : K \in SUBSET Keys}
  BY <1>2, <1>3
<1> QED
  BY <1>1, <1>4 DEF Promise!Init, Promise!Range, Range, Init, DictInv, TypeOK

\* Setting fixes the types of an empty dictionary.
LEMMA TypesMap ==
  ASSUME DictInv, NEW k \in Keys, NEW v \in Values, Fits(k, v), FixTypes(k, v)
  PROVE  Promise!Fits(k, v) /\ Promise!FixTypes(k, v)
<1>1. count = 0 <=> Dict = <<>>
  BY DictIs, InvIs, DictEmpty
<1> QED
  BY <1>1 DEF Fits, KeyFits, FixTypes, Promise!Fits, Promise!FixTypes, Promise!Fixed

LEMMA SetMaps ==
  ASSUME DictInv, NEW k \in Keys, NEW v \in Values,
         \/ ~byName /\ SetSafe(k, v)
         \/ byName /\ (SetReplace(k, v) \/ SetInsert(k, v))
  PROVE  Promise!Set(k, v) \/ Promise!SetFails(k, v)
<1>1. Fits(k, v) /\ FixTypes(k, v)
  BY DEF SetSafe, SetReplace, SetInsert
<1>2. Promise!Fits(k, v) /\ Promise!FixTypes(k, v)
  BY <1>1, TypesMap
<1>3. PICK u : \/ Stores(u, k, v) /\ result' = Done
               \/ Keeps(u) /\ ~ Has(table, k) /\ result' = Failed
  BY SetSafeDoes, SetReplaceDoes, SetInsertDoes
<1>4. CASE Stores(u, k, v) /\ result' = Done
  <2>1. Dict' = DictOf(u)
    BY <1>4, DictPrime DEF Stores
  <2>2. DictOf(u) = [x \in DOMAIN DictOf(table) \cup {k} |-> IF x = k THEN v ELSE DictOf(table)[x]]
    BY <1>4, DictIs, DictWith DEF Stores
  <2>3. Dict' = [x \in DOMAIN Dict \cup {k} |-> IF x = k THEN v ELSE Dict[x]]
    BY <2>1, <2>2, DictIs
  <2> QED
    BY <1>2, <1>4, <2>3 DEF Promise!Set
<1>5. CASE Keeps(u) /\ ~ Has(table, k) /\ result' = Failed
  <2>1. Dict' = DictOf(u)
    BY <1>5, DictPrime DEF Keeps
  <2>2. DictOf(u) = DictOf(table)
    BY <1>5, DictIs, DictSame DEF Keeps
  <2>3. Dict' = Dict /\ k \notin DOMAIN Dict
    BY <1>5, <2>1, <2>2, DictIs
  <2> QED
    BY <1>2, <1>5, <2>3 DEF Promise!SetFails
<1> QED
  BY <1>3, <1>4, <1>5

LEMMA AnswerMaps ==
  ASSUME NEW r, Answer(r)
  PROVE  result' = r /\ UNCHANGED <<Dict, keyType, valueType>>
BY DEF Answer, Dict, Live, Find

\* A lookup by value finds what the map has.
LEMMA LookupMaps ==
  ASSUME DictInv, ~byName, NEW k \in Keys
  PROVE  /\ (IF KeyFits(k) THEN Resolved(k) ELSE Null) = Promise!Lookup(k)
         /\ (KeyFits(k) /\ Resolved(k) # Null) <=> k \in DOMAIN Dict
<1>1. k \in DOMAIN Dict <=> Has(table, k)
  BY DictIs
<1>2. CASE Has(table, k)
  <2>1. PICK s \in Live(table) : table[s].key = k /\ Resolved(k) = table[s].val
    BY <1>2, ResolvedIs
  <2>2. KeyFits(k)
    BY <2>1, InvIs DEF Typed, KeyFits
  <2>3. Dict[k] = table[s].val
    BY <2>1, DictIs
  <2> QED
    BY <1>1, <1>2, <2>1, <2>2, <2>3, ResolvedIs DEF Promise!Lookup
<1>3. CASE ~ Has(table, k)
  BY <1>1, <1>3, ResolvedIs DEF Promise!Lookup
<1> QED
  BY <1>2, <1>3

\* And so does a lookup by name.
LEMMA NameMaps ==
  ASSUME DictInv, NEW k \in Keys
  PROVE  (IF Find(table, k) = {} THEN Null ELSE table[Min(Find(table, k))].val) = Promise!Lookup(k)
<1>1. k \in DOMAIN Dict <=> Find(table, k) # {}
  BY DictIs DEF Has, Find
<1>2. CASE Find(table, k) = {}
  BY <1>1, <1>2 DEF Promise!Lookup
<1>3. CASE Find(table, k) # {}
  <2>. DEFINE s == Min(Find(table, k))
  <2>1. s \in Live(table) /\ table[s].key = k
    BY <1>3, FindIs
  <2>2. Dict[k] = table[s].val
    BY <2>1, DictIs
  <2> QED
    BY <1>1, <1>3, <2>2 DEF Promise!Lookup
<1> QED
  BY <1>2, <1>3

LEMMA RemoveKeyMaps ==
  ASSUME DictInv, ~byName, CollisionFree, NEW k \in Keys, RemoveKey(k)
  PROVE  Promise!Remove(k)
<1>1. PICK u : /\ table' = u /\ Good(u, count')
               /\ Pairs(u) = PairsWithout(table, k)
  BY RemoveKeyDoes
<1>2. Dict' = DictOf(u)
  BY <1>1, DictPrime
<1>3. DictOf(u) = Restrict(DictOf(table), DOMAIN DictOf(table) \ {k})
  BY <1>1, DictIs, DictWithout
<1>4. Dict' = Restrict(Dict, DOMAIN Dict \ {k})
  BY <1>2, <1>3, DictIs
<1>5. result' = Promise!Lookup(k)
  BY LookupMaps DEF RemoveKey
<1> QED
  BY <1>4, <1>5 DEF Promise!Remove, Promise!Restrict, Restrict, RemoveKey

LEMMA RemoveMissingMaps ==
  ASSUME DictInv, ~byName, NEW k \in Keys, RemoveMissing(k)
  PROVE  Promise!Remove(k)
<1>1. k \notin DOMAIN Dict /\ Promise!Lookup(k) = Null
  BY LookupMaps DEF RemoveMissing, Promise!Lookup
<1>2. Restrict(Dict, DOMAIN Dict \ {k}) = Dict
  <2>1. Dict = [x \in DOMAIN Dict |-> Dict[x]]
    BY DEF Dict
  <2>2. DOMAIN Dict \ {k} = DOMAIN Dict
    BY <1>1
  <2>3. Restrict(Dict, DOMAIN Dict \ {k}) = [x \in DOMAIN Dict |-> Dict[x]]
    BY <2>2 DEF Restrict
  <2> QED
    BY <2>1, <2>3
<1>3. result' = Null /\ UNCHANGED <<Dict, keyType, valueType>>
  BY AnswerMaps DEF RemoveMissing
<1> QED
  BY <1>1, <1>2, <1>3 DEF Promise!Remove, Promise!Restrict, Restrict

LEMMA StepMaps ==
  ASSUME DictInv, [Next]_vars
  PROVE  [Promise!Next]_(Promise!vars)
<1>1. CASE byName /\ Use(NextByName)
  <2>1. ASSUME NEW k \in StringKeys, NEW v \in Values,
               SetReplace(k, v) \/ SetInsert(k, v) \/ Refuse(k, v), call' = <<"set", k, v>>
        PROVE  Promise!Next
    <3>0. k \in Keys
      BY DEF StringKeys
    <3>1. CASE SetReplace(k, v) \/ SetInsert(k, v)
      <4>1. Promise!Set(k, v) \/ Promise!SetFails(k, v)
        BY <1>1, <3>0, <3>1, SetMaps
      <4> QED
        BY <2>1, <3>0, <4>1 DEF Promise!Next
    <3>2. CASE Refuse(k, v)
      <4>1. Promise!SetRefused(k, v)
        BY <3>2, AnswerMaps DEF Refuse, Fits, KeyFits, Promise!SetRefused, Promise!Fits
      <4> QED
        BY <2>1, <3>0, <4>1 DEF Promise!Next
    <3> QED
      BY <2>1, <3>1, <3>2
  <2>2. ASSUME NEW k \in StringKeys, GetByName(k), call' = <<"get", k>>
        PROVE  Promise!Next
    <3>0. k \in Keys
      BY DEF StringKeys
    <3>1. Promise!Get(k)
      BY <2>2, <3>0, NameMaps, AnswerMaps DEF GetByName, Promise!Get
    <3> QED
      BY <2>2, <3>0, <3>1 DEF Promise!Next
  <2> QED
    BY <1>1, <2>1, <2>2 DEF NextByName, Use
<1>2. CASE ~byName /\ Use(NextByValue)
  <2>1. ASSUME NEW k \in Keys, NEW v \in Values, SetSafe(k, v) \/ Refuse(k, v), call' = <<"set", k, v>>
        PROVE  Promise!Next
    <3>1. CASE SetSafe(k, v)
      <4>1. Promise!Set(k, v) \/ Promise!SetFails(k, v)
        BY <1>2, <3>1, SetMaps
      <4> QED
        BY <2>1, <4>1 DEF Promise!Next
    <3>2. CASE Refuse(k, v)
      <4>1. Promise!SetRefused(k, v)
        BY <3>2, AnswerMaps DEF Refuse, Fits, KeyFits, Promise!SetRefused, Promise!Fits
      <4> QED
        BY <2>1, <4>1 DEF Promise!Next
    <3> QED
      BY <2>1, <3>1, <3>2
  <2>2. ASSUME NEW k \in Keys, GetSafe(k), call' = <<"get", k>>
        PROVE  Promise!Next
    <3>1. Promise!Get(k)
      BY <1>2, <2>2, LookupMaps, AnswerMaps DEF GetSafe, Promise!Get
    <3> QED
      BY <2>2, <3>1 DEF Promise!Next
  <2>3. ASSUME NEW k \in Keys, ContainsKey(k), call' = <<"contains", k>>
        PROVE  Promise!Next
    <3>. DEFINE r == KeyFits(k) /\ Resolved(k) # Null
                d == k \in DOMAIN Dict
    <3>1. r \in BOOLEAN /\ d \in BOOLEAN /\ (r <=> d)
      BY <1>2, LookupMaps
    <3>2. Answer(r)
      BY <2>3 DEF ContainsKey
    <3>. HIDE DEF r
    <3>3. result' = r /\ UNCHANGED <<Dict, keyType, valueType>>
      BY <3>2, AnswerMaps
    <3>4. Promise!Contains(k)
      BY <3>1, <3>3 DEF Promise!Contains
    <3> QED
      BY <2>3, <3>4 DEF Promise!Next
  <2>4. ASSUME Clear, call' = <<"clear">>
        PROVE  Promise!Next
    <3>1. PICK u : table' = u /\ Live(u) = {}
      BY <2>4, ClearDoes
    <3>2. Dict' = <<>>
      BY <3>1, DictPrime, DictEmpty
    <3>3. Promise!Clear
      BY <2>4, <3>2 DEF Clear, Promise!Clear
    <3> QED
      BY <2>4, <3>3 DEF Promise!Next
  <2> QED
    BY <1>2, <2>1, <2>2, <2>3, <2>4 DEF NextByValue, Use
<1>3. CASE ~byName /\ CollisionFree /\ Use(Removal)
  <2>1. PICK k \in Keys : (RemoveKey(k) \/ RemoveMissing(k)) /\ call' = <<"remove", k>>
    BY <1>3 DEF Use, Removal
  <2>2. Promise!Remove(k)
    BY <1>3, <2>1, RemoveKeyMaps, RemoveMissingMaps
  <2> QED
    BY <2>1, <2>2 DEF Promise!Next
<1>4. CASE UNCHANGED vars
  <2>1. Dict' = Dict
    BY <1>4, DictPrime, DictIs DEF vars
  <2> QED
    BY <1>4, <2>1 DEF vars, Promise!vars
<1> QED
  BY <1>1, <1>2, <1>3, <1>4 DEF Next

\* The table implements the map: whatever the hashes, collisions, growth and
\* failed allocations, each call returns what the map would and leaves the map
\* that it promises.
THEOREM MapSpecHolds == Spec => MapSpec
<1>1. Init => Promise!Init
  BY InitMaps
<1>2. DictInv /\ [Next]_vars => [Promise!Next]_(Promise!vars)
  BY StepMaps
<1> QED
  BY <1>1, <1>2, DictInvHolds, PTL DEF Spec, MapSpec, Promise!Spec
=============================================================================
