-------------------------- MODULE BreadMemory_proofs --------------------------
(***************************************************************************)
(* Proofs about BreadMemory, for every chunk size, every supply of         *)
(* addresses and every bound.  A call of the manager passes a Manager      *)
(* record through one or two steps, so the lemmas say that each step keeps *)
(* ManagerOK, the inductive invariant stated of such a record.  The sum of *)
(* the sizes on the list is shown not to depend on the order in which it   *)
(* is taken by a least counterexample on the cardinality of the list.      *)
(***************************************************************************)
EXTENDS BreadMemory, FiniteSetTheorems, WellFoundedInduction, TLAPS

ManagerType == [tracked  : SUBSET Addrs,
                size     : [Addrs -> Nat],
                refcount : [Addrs -> Nat],
                pool     : PoolType,
                heapUsed : SUBSET HeapAddrs,
                stats    : StatsType,
                gc       : GcType]

\* Pool p is in order for the set T of objects on the list.
PoolFor(p, T) ==
  /\ p \in PoolType
  /\ p.count[0] = 0
  /\ \A c \in 0 .. MaxChunks : p.count[c] = Cardinality(p.free[c])
  /\ \A c \in 1 .. MaxChunks, b \in Blocks :
       <<c, b>> \in T <=> c <= p.n /\ b \notin p.free[c]

CountFor(s, T) ==
  /\ s \in StatsType
  /\ IsFiniteSet(T)
  /\ s.current = Cardinality(T)
  /\ s.current = s.allocations - s.deallocations
  /\ s.current <= s.peak

\* What is malloc'd are the objects of T that are not in the pool, and F.
HeapFor(h, T, F) ==
  /\ F \subseteq HeapAddrs
  /\ h = (T \cap HeapAddrs) \cup F
  /\ T \cap F = {}

\* The objects with a reference are those of T and of F.
RefFor(refs, T, F) == \A a \in Addrs : refs[a] > 0 <=> a \in T \cup F

ManagerOK(m) ==
  /\ m \in ManagerType
  /\ PoolFor(m.pool, m.tracked)
  /\ CountFor(m.stats, m.tracked)
  /\ HeapFor(m.heapUsed, m.tracked, forgotten)
  /\ RefFor(m.refcount, m.tracked, forgotten)

\* The inductive invariant: while the manager is up its state is in order;
\* while it is down it has no object and no chunk.
IInv ==
  /\ TypeOK
  /\ ManagerOK(Manager)
  /\ ~inited => tracked = {}

-----------------------------------------------------------------------------
\* The blocks of a chunk, and any part of them, are finite sets.
LEMMA BlocksFinite ==
  /\ IsFiniteSet(Blocks)
  /\ Cardinality(Blocks) = BlocksPerChunk
  /\ \A S \in SUBSET Blocks : IsFiniteSet(S) /\ Cardinality(S) \in Nat
<1>1. IsFiniteSet(Blocks) /\ Cardinality(Blocks) = BlocksPerChunk
  BY PoolAssumption, FS_Interval DEF Blocks
<1>2. ASSUME NEW S \in SUBSET Blocks
      PROVE  IsFiniteSet(S) /\ Cardinality(S) \in Nat
  BY <1>1, FS_Subset, FS_CardinalityType
<1> QED
  BY <1>1, <1>2

\* A pool block is not a malloc'd address.
LEMMA AddrsDisjoint ==
  ASSUME NEW a \in PoolAddrs
  PROVE  a \notin HeapAddrs /\ a \in Addrs
  BY PoolAssumption DEF Addrs

\* A set of numbers has a least one.
LEMMA LeastIs ==
  ASSUME NEW S \in SUBSET Nat, S # {}
  PROVE  \E m \in S : \A s \in S : m <= s
<1> DEFINE Less == {ss \in Nat \X Nat : ss[1] < ss[2]}
<1>1. IsWellFoundedOn(Less, Nat)
  BY NatLessThanWellFounded DEF OpToRel
<1>2. PICK m \in S : \A s \in S : ~ (<<s, m>> \in Less)
  <2> HIDE DEF Less
  <2> QED
    BY <1>1, WFMin
<1>3. ASSUME NEW s \in S
      PROVE  m <= s
  <2>1. ~ (s < m) /\ s \in Nat /\ m \in Nat
    BY <1>2
  <2> QED
    BY <2>1
<1> QED
  BY <1>3

\* The scan of the bitmap finds a block of it: the lowest free one.
LEMMA LowestBitFree ==
  ASSUME NEW S \in SUBSET Blocks, S # {}
  PROVE  LowestBit(S) \in S
<1>1. S \subseteq Nat
  BY PoolAssumption DEF Blocks
<1>2. PICK b \in S : \A other \in S : b <= other
  BY <1>1, LeastIs
<1> QED
  BY <1>2 DEF LowestBit

-----------------------------------------------------------------------------
(* The pool.                                                               *)

\* A chunk that is pushed keeps the pool in order for the objects it holds:
\* all of its blocks are free.
LEMMA PushOK ==
  ASSUME NEW p, NEW T, PoolFor(p, T), p.n < MaxChunks
  PROVE  /\ PoolFor(PushChunk(p), T)
         /\ PushChunk(p).free[PushChunk(p).n] # {}
<1> DEFINE q == PushChunk(p)
<1>1. p \in PoolType /\ p.n \in 0 .. MaxChunks /\ MaxChunks \in Nat
  BY PoolAssumption DEF PoolFor, PoolType
<1>2. q \in PoolType /\ q.n = p.n + 1
  BY <1>1, PoolAssumption DEF PushChunk, PoolType
<1>3. \A c \in 0 .. MaxChunks :
        /\ q.free[c]  = IF c = p.n + 1 THEN Blocks ELSE p.free[c]
        /\ q.count[c] = IF c = p.n + 1 THEN BlocksPerChunk ELSE p.count[c]
  BY <1>1 DEF PushChunk, PoolType
<1>4. q.count[0] = 0
  BY <1>1, <1>3 DEF PoolFor
<1>5. \A c \in 0 .. MaxChunks : q.count[c] = Cardinality(q.free[c])
  BY <1>3, BlocksFinite DEF PoolFor
<1>6. ASSUME NEW c \in 1 .. MaxChunks, NEW b \in Blocks
      PROVE  <<c, b>> \in T <=> c <= q.n /\ b \notin q.free[c]
  <2>1. <<c, b>> \in T <=> c <= p.n /\ b \notin p.free[c]
    BY DEF PoolFor
  <2>2. CASE c = p.n + 1
    BY <1>1, <1>2, <1>3, <2>1, <2>2
  <2>3. CASE c # p.n + 1
    BY <1>1, <1>2, <1>3, <2>1, <2>3
  <2> QED
    BY <2>2, <2>3
<1>7. q.free[q.n] # {}
  <2>1. q.free[q.n] = Blocks /\ 0 \in Blocks
    BY <1>1, <1>2, <1>3, PoolAssumption DEF Blocks
  <2> QED
    BY <2>1
<1> QED
  BY <1>2, <1>4, <1>5, <1>6, <1>7 DEF PoolFor

\* Taking the lowest free block of the head chunk for a new object keeps bitmap,
\* count and objects in step.
LEMMA TakeOK ==
  ASSUME NEW p, NEW T, PoolFor(p, T), p.free[p.n] # {}
  PROVE  /\ NextBlock(p) \in PoolAddrs
         /\ NextBlock(p) \notin T
         /\ PoolFor(TakeBlock(p), T \cup {NextBlock(p)})
<1> DEFINE low == LowestBit(p.free[p.n])
           q   == TakeBlock(p)
<1>1. p \in PoolType /\ p.n \in 0 .. MaxChunks /\ MaxChunks \in Nat
  BY PoolAssumption DEF PoolFor, PoolType
<1>2. p.free[p.n] \in SUBSET Blocks /\ IsFiniteSet(p.free[p.n])
  BY <1>1, BlocksFinite DEF PoolType
<1>3. low \in p.free[p.n] /\ low \in Blocks
  BY <1>2, LowestBitFree
<1>4. p.n # 0
  <2>1. SUFFICES ASSUME p.n = 0 PROVE FALSE
    OBVIOUS
  <2>2. Cardinality(p.free[0]) = 0
    BY <1>1 DEF PoolFor
  <2> QED
    BY <1>2, <2>1, <2>2, FS_EmptySet
<1>5. NextBlock(p) \in PoolAddrs /\ NextBlock(p) \notin T
  BY <1>1, <1>3, <1>4 DEF NextBlock, PoolAddrs, PoolFor
<1>6. /\ Cardinality(p.free[p.n]) = p.count[p.n]
      /\ Cardinality(p.free[p.n] \ {low}) = p.count[p.n] - 1
      /\ p.count[p.n] - 1 \in Nat
  <2>1. Cardinality(p.free[p.n]) = p.count[p.n]
    BY <1>1 DEF PoolFor
  <2>2. Cardinality(p.free[p.n] \ {low}) = Cardinality(p.free[p.n]) - 1
    <3>1. \A S, x : IsFiniteSet(S) /\ x \in S => Cardinality(S \ {x}) = Cardinality(S) - 1
      BY FS_RemoveElement
    <3> QED
      BY <1>2, <1>3, <3>1
  <2>3. p.free[p.n] \ {low} \in SUBSET Blocks
    BY <1>2
  <2>4. Cardinality(p.free[p.n] \ {low}) \in Nat
    BY <2>3, BlocksFinite
  <2> QED
    BY <2>1, <2>2, <2>4
<1>7. q \in PoolType /\ q.n = p.n
  BY <1>1, <1>6 DEF TakeBlock, PoolType
<1>8. /\ q.free[p.n] = p.free[p.n] \ {low}
      /\ q.count[p.n] = p.count[p.n] - 1
      /\ \A c \in (0 .. MaxChunks) \ {p.n} : q.free[c] = p.free[c] /\ q.count[c] = p.count[c]
  BY <1>1 DEF TakeBlock, PoolType
<1> HIDE DEF q
<1>9. \A c \in 0 .. MaxChunks : q.count[c] = Cardinality(q.free[c])
  BY <1>6, <1>8 DEF PoolFor
<1>10. ASSUME NEW c \in 1 .. MaxChunks, NEW b \in Blocks
       PROVE  <<c, b>> \in T \cup {NextBlock(p)} <=> c <= q.n /\ b \notin q.free[c]
  <2>1. <<c, b>> \in T <=> c <= p.n /\ b \notin p.free[c]
    BY DEF PoolFor
  <2>2. <<c, b>> = NextBlock(p) <=> c = p.n /\ b = low
    BY DEF NextBlock
  <2>3. c \in 0 .. MaxChunks
    OBVIOUS
  <2>4. CASE c = p.n
    BY <1>1, <1>3, <1>7, <1>8, <2>1, <2>2, <2>4
  <2>5. CASE c # p.n
    BY <1>7, <1>8, <2>1, <2>2, <2>3, <2>5
  <2> QED
    BY <2>4, <2>5
<1>11. q.count[0] = 0
  <2>1. 0 \in (0 .. MaxChunks) \ {p.n}
    BY <1>1, <1>4
  <2> QED
    BY <1>8, <2>1 DEF PoolFor
<1> QED
  BY <1>5, <1>7, <1>9, <1>10, <1>11 DEF PoolFor, q

\* Giving the block of an object back to the pool keeps them in step for the
\* objects that remain.
LEMMA PutOK ==
  ASSUME NEW p, NEW T, PoolFor(p, T), NEW a \in T, InPool(p, a)
  PROVE  PoolFor(PoolFree(p, a), T \ {a})
<1> DEFINE q == PoolFree(p, a)
<1>1. p \in PoolType /\ p.n \in 0 .. MaxChunks /\ MaxChunks \in Nat
  BY PoolAssumption DEF PoolFor, PoolType
<1>2. PICK d \in 1 .. MaxChunks, e \in Blocks : a = <<d, e>>
  BY DEF InPool, PoolAddrs
<1>3. d <= p.n /\ e \notin p.free[d]
  BY <1>2 DEF PoolFor
<1>4. q \in PoolType /\ q.n = p.n
  <2>1. q = [p EXCEPT !.free[d] = @ \cup {e}, !.count[d] = @ + 1]
    BY <1>2 DEF PoolFree
  <2>2. d \in 0 .. MaxChunks
    BY <1>1
  <2>3. p.free[d] \cup {e} \in SUBSET Blocks /\ p.count[d] + 1 \in Nat
    BY <1>1, <2>2 DEF PoolType
  <2>4. /\ [p.free EXCEPT ![d] = @ \cup {e}] \in [0 .. MaxChunks -> SUBSET Blocks]
        /\ [p.count EXCEPT ![d] = @ + 1] \in [0 .. MaxChunks -> Nat]
    BY <1>1, <2>2, <2>3 DEF PoolType
  <2>5. q = [n |-> p.n, free |-> [p.free EXCEPT ![d] = @ \cup {e}],
             count |-> [p.count EXCEPT ![d] = @ + 1]]
    BY <1>1, <2>1 DEF PoolType
  <2> QED
    BY <1>1, <2>4, <2>5 DEF PoolType
<1>5. /\ q.free[d] = p.free[d] \cup {e}
      /\ q.count[d] = p.count[d] + 1
      /\ \A c \in (0 .. MaxChunks) \ {d} : q.free[c] = p.free[c] /\ q.count[c] = p.count[c]
  BY <1>1, <1>2 DEF PoolFree, PoolType
<1> HIDE DEF q
<1>6. Cardinality(p.free[d] \cup {e}) = Cardinality(p.free[d]) + 1
  <2>1. p.free[d] \in SUBSET Blocks
    BY <1>1, <1>2 DEF PoolType
  <2> QED
    BY <1>3, <2>1, BlocksFinite, FS_AddElement
<1>7. \A c \in 0 .. MaxChunks : q.count[c] = Cardinality(q.free[c])
  BY <1>5, <1>6 DEF PoolFor
<1>8. ASSUME NEW c \in 1 .. MaxChunks, NEW b \in Blocks
      PROVE  <<c, b>> \in T \ {a} <=> c <= q.n /\ b \notin q.free[c]
  <2>1. <<c, b>> \in T <=> c <= p.n /\ b \notin p.free[c]
    BY DEF PoolFor
  <2>2. c \in 0 .. MaxChunks
    OBVIOUS
  <2>3. CASE c = d
    BY <1>2, <1>3, <1>4, <1>5, <2>1, <2>3
  <2>4. CASE c # d
    BY <1>2, <1>4, <1>5, <2>1, <2>2, <2>4
  <2> QED
    BY <2>3, <2>4
<1>9. q.count[0] = 0
  <2>1. 0 \in (0 .. MaxChunks) \ {d}
    BY <1>1, <1>2
  <2> QED
    BY <1>5, <2>1 DEF PoolFor
<1> QED
  BY <1>4, <1>7, <1>8, <1>9 DEF PoolFor, q

\* What happens to malloc'd addresses does not concern the pool.
LEMMA HeapApart ==
  ASSUME NEW p, NEW T, PoolFor(p, T), NEW a \in HeapAddrs
  PROVE  PoolFor(p, T \cup {a}) /\ PoolFor(p, T \ {a})
<1>1. \A c \in 1 .. MaxChunks, b \in Blocks : <<c, b>> # a
  BY AddrsDisjoint DEF PoolAddrs
<1> QED
  BY <1>1 DEF PoolFor

\* Wherever an object can be put, no object of T and nothing malloc'd is there,
\* and the pool that is left is in order for T with the new object.
LEMMA PlacementOK ==
  ASSUME NEW m, NEW T, NEW bytes,
         PoolFor(m.pool, T), T \cap HeapAddrs \subseteq m.heapUsed,
         NEW place \in Placements(m, bytes)
  PROVE  /\ place.at \in Addrs
         /\ place.at \notin T
         /\ place.at \in HeapAddrs => place.at \notin m.heapUsed
         /\ PoolFor(place.pool, T \cup {place.at})
<1> DEFINE head == HeadChunk(m.pool)
<1>1. CASE /\ PoolServes(m.pool)
           /\ place = [at |-> NextBlock(head), pool |-> TakeBlock(head)]
  <2>1. m.pool.n \in 0 .. MaxChunks /\ MaxChunks \in Nat
    BY PoolAssumption DEF PoolFor, PoolType
  <2>2. PoolFor(head, T) /\ head.free[head.n] # {}
    <3>1. CASE HeadFull(m.pool)
      BY <1>1, <2>1, <3>1, PushOK DEF HeadChunk, PoolServes
    <3>2. CASE ~HeadFull(m.pool)
      BY <1>1, <3>2 DEF HeadChunk, PoolServes
    <3> QED
      BY <3>1, <3>2
  <2> HIDE DEF head
  <2>3. /\ NextBlock(head) \in PoolAddrs
        /\ NextBlock(head) \notin T
        /\ PoolFor(TakeBlock(head), T \cup {NextBlock(head)})
    BY <2>2, TakeOK
  <2>4. NextBlock(head) \notin HeapAddrs
    BY <2>3, AddrsDisjoint
  <2> QED
    BY <1>1, <2>3, <2>4 DEF Addrs, head
<1>2. CASE \E a \in HeapAddrs \ m.heapUsed : place = [at |-> a, pool |-> m.pool]
  <2>1. PICK a \in HeapAddrs \ m.heapUsed : place = [at |-> a, pool |-> m.pool]
    BY <1>2
  <2>2. a \in Addrs /\ a \notin T
    BY DEF Addrs
  <2>3. PoolFor(m.pool, T \cup {a})
    BY HeapApart
  <2> QED
    BY <2>1, <2>2, <2>3
<1> QED
  BY <1>1, <1>2 DEF Placements

-----------------------------------------------------------------------------
(* The manager's steps.                                                    *)

\* Counting a new object and its bytes keeps the statistics consistent.
LEMMA CountAllocOK ==
  ASSUME NEW s \in StatsType, NEW bytes \in Nat, s.current <= s.peak
  PROVE  LET t == CountBytes(CountTrack(s), bytes, 0)
         IN  /\ t \in StatsType
             /\ t.current = s.current + 1
             /\ t.allocations = s.allocations + 1
             /\ t.deallocations = s.deallocations
             /\ t.current <= t.peak
<1> DEFINE u == CountTrack(s)
           t == CountBytes(u, bytes, 0)
<1>1. /\ u \in StatsType
      /\ u.current = s.current + 1
      /\ u.allocations = s.allocations + 1
      /\ u.deallocations = s.deallocations
      /\ u.current <= u.peak
  <2>1. s.current + 1 \in Nat /\ s.allocations + 1 \in Nat /\ s.peak \in Nat
    BY DEF StatsType
  <2> QED
    <3> DEFINE top == IF s.current + 1 > s.peak THEN s.current + 1 ELSE s.peak
    <3>1. top \in Nat /\ s.current + 1 <= top
      BY <2>1
    <3>2. u = [s EXCEPT !.allocations = s.allocations + 1, !.current = s.current + 1,
                        !.peak = top]
      BY DEF CountTrack
    <3> HIDE DEF top, u
    <3> QED
      BY <2>1, <3>1, <3>2 DEF StatsType
<1> HIDE DEF u
<1>2. u.bytesAllocated + bytes \in Nat /\ u.bytesFreed + 0 \in Nat
  BY <1>1 DEF StatsType
<1>3. /\ t \in StatsType
      /\ t.current = u.current
      /\ t.allocations = u.allocations
      /\ t.deallocations = u.deallocations
      /\ t.peak = u.peak
  BY <1>1, <1>2 DEF CountBytes, StatsType
<1> QED
  BY <1>1, <1>3 DEF u

\* The counters since the last collection keep their type.
LEMMA SinceGcOK ==
  ASSUME NEW g \in GcType, NEW objects \in Nat, NEW bytes \in Nat
  PROVE  CountSinceGc(g, objects, bytes) \in GcType
<1>1. g.allocs + objects \in Nat /\ g.bytes + bytes \in Nat
  BY DEF GcType
<1> QED
  BY <1>1 DEF CountSinceGc, GcType

\* bread_memory_alloc leaves a manager in order.
LEMMA AllocatedOK ==
  ASSUME NEW m, ManagerOK(m), NEW bytes \in Nat, NEW place \in Placements(m, bytes)
  PROVE  ManagerOK(Allocated(m, place, bytes))
<1> DEFINE r == Allocated(m, place, bytes)
           a == place.at
<1>1. m \in ManagerType /\ m.stats \in StatsType /\ m.gc \in GcType
  BY DEF ManagerOK, ManagerType
<1>2. /\ a \in Addrs /\ a \notin m.tracked
      /\ PoolFor(place.pool, m.tracked \cup {a})
      /\ a \notin forgotten
  <2>1. PoolFor(m.pool, m.tracked) /\ m.tracked \cap HeapAddrs \subseteq m.heapUsed
    BY DEF ManagerOK, HeapFor
  <2>2. forgotten \subseteq HeapAddrs /\ forgotten \subseteq m.heapUsed
    BY DEF ManagerOK, HeapFor
  <2> QED
    BY <2>1, <2>2, PlacementOK
<1> HIDE DEF a
<1>3. /\ r.tracked = m.tracked \cup {a}
      /\ r.size = [m.size EXCEPT ![a] = bytes]
      /\ r.refcount = [m.refcount EXCEPT ![a] = 1]
      /\ r.pool = place.pool
      /\ r.heapUsed = m.heapUsed \cup ({a} \cap HeapAddrs)
  BY <1>1 DEF Allocated, ManagerType, a
<1>31. r.stats = CountBytes(CountTrack(m.stats), bytes, 0)
  BY <1>1 DEF Allocated, ManagerType, a
<1>32. r.gc = CountSinceGc(m.gc, 1, bytes)
  BY <1>1 DEF Allocated, ManagerType, a
<1>4. DOMAIN r = {"tracked", "size", "refcount", "pool", "heapUsed", "stats", "gc"} /\
      r = [f \in DOMAIN r |-> r[f]]
  BY <1>1 DEF Allocated, ManagerType
<1> HIDE DEF r
<1>5. CountFor(r.stats, r.tracked)
  <2>1. IsFiniteSet(m.tracked) /\ m.stats.current = Cardinality(m.tracked)
        /\ m.stats.current = m.stats.allocations - m.stats.deallocations
        /\ m.stats.current <= m.stats.peak
    BY DEF ManagerOK, CountFor
  <2>2. IsFiniteSet(r.tracked) /\ Cardinality(r.tracked) = Cardinality(m.tracked) + 1
    <3>1. r.tracked = m.tracked \cup {a}
      BY <1>3
    <3>2. IsFiniteSet(m.tracked) /\ a \notin m.tracked
      BY <1>2, <2>1
    <3> QED
      BY <3>1, <3>2, FS_AddElement
  <2>3. /\ r.stats \in StatsType
        /\ r.stats.current = m.stats.current + 1
        /\ r.stats.allocations = m.stats.allocations + 1
        /\ r.stats.deallocations = m.stats.deallocations
        /\ r.stats.current <= r.stats.peak
    BY <1>1, <1>31, <2>1, CountAllocOK
  <2> QED
    <3>1. m.stats.current \in Nat /\ m.stats.allocations \in Nat /\ m.stats.deallocations \in Nat
      BY <1>1 DEF StatsType
    <3>2. r.stats.current = Cardinality(r.tracked)
      BY <2>1, <2>2, <2>3
    <3>3. r.stats.current = r.stats.allocations - r.stats.deallocations
      BY <2>1, <2>3, <3>1
    <3> QED
      BY <2>2, <2>3, <3>2, <3>3 DEF CountFor
<1>6. r \in ManagerType
  <2>1. r.gc \in GcType
    BY <1>1, <1>32, SinceGcOK
  <2>2. r.stats \in StatsType /\ r.pool \in PoolType
    BY <1>2, <1>3, <1>5 DEF CountFor, PoolFor
  <2>3. /\ r.tracked \in SUBSET Addrs /\ r.heapUsed \in SUBSET HeapAddrs
        /\ r.size \in [Addrs -> Nat] /\ r.refcount \in [Addrs -> Nat]
    BY <1>1, <1>2, <1>3 DEF ManagerType
  <2> QED
    BY <1>4, <2>1, <2>2, <2>3 DEF ManagerType
<1>7. RefFor(r.refcount, r.tracked, forgotten)
  BY <1>1, <1>2, <1>3 DEF RefFor, ManagerOK, ManagerType
<1>8. PoolFor(r.pool, r.tracked)
  BY <1>2, <1>3
<1>9. HeapFor(r.heapUsed, r.tracked, forgotten)
  BY <1>2, <1>3 DEF HeapFor, ManagerOK
<1> QED
  BY <1>5, <1>6, <1>7, <1>8, <1>9 DEF ManagerOK, r

\* Counting an object out keeps the statistics consistent.
LEMMA CountUntrackOK ==
  ASSUME NEW s \in StatsType, NEW bytes \in Nat, s.current > 0
  PROVE  LET t == CountUntrack(s, bytes)
         IN  /\ t \in StatsType
             /\ t.current = s.current - 1
             /\ t.allocations = s.allocations
             /\ t.deallocations = s.deallocations + 1
             /\ t.peak = s.peak
<1> DEFINE t == CountUntrack(s, bytes)
<1>1. /\ s.current - 1 \in Nat
      /\ s.deallocations + 1 \in Nat
      /\ s.bytesFreed + bytes \in Nat
  BY DEF StatsType
<1>2. t = [s EXCEPT !.bytesFreed = s.bytesFreed + bytes,
                    !.deallocations = s.deallocations + 1,
                    !.current = s.current - 1]
  BY DEF CountUntrack
<1> HIDE DEF t
<1>3. /\ t \in StatsType
      /\ t.current = s.current - 1
      /\ t.allocations = s.allocations
      /\ t.deallocations = s.deallocations + 1
      /\ t.peak = s.peak
  BY <1>1, <1>2 DEF StatsType
<1> QED
  BY <1>3 DEF t

\* A tracked object is in the pool exactly when its address is a block.
LEMMA InPoolIff ==
  ASSUME NEW p, NEW T \in SUBSET Addrs, PoolFor(p, T), NEW a \in T
  PROVE  IF a \in HeapAddrs THEN ~InPool(p, a) ELSE InPool(p, a)
<1>1. CASE a \in HeapAddrs
  BY <1>1, AddrsDisjoint DEF InPool
<1>2. CASE a \notin HeapAddrs
  <2>1. PICK c \in 1 .. MaxChunks, b \in Blocks : a = <<c, b>>
    BY <1>2 DEF Addrs, PoolAddrs
  <2>2. a \in PoolAddrs /\ c <= p.n
    BY <2>1 DEF PoolFor, PoolAddrs
  <2> QED
    BY <1>2, <2>1, <2>2 DEF InPool
<1> QED
  BY <1>1, <1>2

\* bread_memory_free of an object whose last reference has gone leaves a manager
\* in order.
LEMMA FreedOK ==
  ASSUME NEW m, ManagerOK(m), NEW a \in m.tracked, m.refcount[a] = 1
  PROVE  ManagerOK(Freed([m EXCEPT !.refcount[a] = @ - 1], a))
<1> DEFINE d == [m EXCEPT !.refcount[a] = @ - 1]
           r == Freed(d, a)
           T == m.tracked \ {a}
<1>1. m \in ManagerType /\ m.stats \in StatsType /\ m.gc \in GcType /\ a \in Addrs
  BY DEF ManagerOK, ManagerType
<1>2. /\ d \in ManagerType
      /\ d.refcount = [m.refcount EXCEPT ![a] = 0]
      /\ d.tracked = m.tracked /\ d.size = m.size /\ d.pool = m.pool
      /\ d.heapUsed = m.heapUsed /\ d.stats = m.stats /\ d.gc = m.gc
  BY <1>1 DEF ManagerType
<1> HIDE DEF d
<1>3. /\ r.tracked = T
      /\ r.size = [m.size EXCEPT ![a] = 0]
      /\ r.refcount = [m.refcount EXCEPT ![a] = 0]
      /\ r.pool = IF InPool(m.pool, a) THEN PoolFree(m.pool, a) ELSE m.pool
      /\ r.heapUsed = m.heapUsed \ {a}
      /\ r.gc = m.gc
  BY <1>2 DEF Freed, ManagerType
<1>4. r.stats = CountUntrack(m.stats, m.size[a])
  BY <1>2 DEF Freed, ManagerType
<1>5. DOMAIN r = {"tracked", "size", "refcount", "pool", "heapUsed", "stats", "gc"} /\
      r = [f \in DOMAIN r |-> r[f]]
  BY <1>2 DEF Freed, ManagerType
<1> HIDE DEF r
<1>6. PoolFor(r.pool, r.tracked)
  <2>1. PoolFor(m.pool, m.tracked) /\ m.tracked \in SUBSET Addrs
    BY <1>1 DEF ManagerOK, ManagerType
  <2>2. CASE a \in HeapAddrs
    <3>1. ~InPool(m.pool, a) /\ PoolFor(m.pool, T)
      BY <2>1, <2>2, InPoolIff, HeapApart
    <3> QED
      BY <1>3, <3>1
  <2>3. CASE a \notin HeapAddrs
    <3>1. InPool(m.pool, a) /\ PoolFor(PoolFree(m.pool, a), T)
      BY <2>1, <2>3, InPoolIff, PutOK
    <3> QED
      BY <1>3, <3>1
  <2> QED
    BY <2>2, <2>3
<1>7. CountFor(r.stats, r.tracked)
  <2>1. /\ IsFiniteSet(m.tracked)
        /\ m.stats.current = Cardinality(m.tracked)
        /\ m.stats.current = m.stats.allocations - m.stats.deallocations
        /\ m.stats.current <= m.stats.peak
    BY DEF ManagerOK, CountFor
  <2>2. IsFiniteSet(T) /\ Cardinality(T) = Cardinality(m.tracked) - 1 /\ Cardinality(T) \in Nat
    BY <2>1, FS_RemoveElement, FS_CardinalityType
  <2>3. /\ m.stats.current \in Nat /\ m.stats.allocations \in Nat
        /\ m.stats.deallocations \in Nat /\ m.stats.peak \in Nat
    BY <1>1 DEF StatsType
  <2>4. m.stats.current > 0 /\ m.size[a] \in Nat
    BY <1>1, <2>1, <2>2, <2>3 DEF ManagerType
  <2>5. /\ r.stats \in StatsType
        /\ r.stats.current = m.stats.current - 1
        /\ r.stats.allocations = m.stats.allocations
        /\ r.stats.deallocations = m.stats.deallocations + 1
        /\ r.stats.peak = m.stats.peak
    BY <1>1, <1>4, <2>4, CountUntrackOK
  <2>6. r.tracked = T
    BY <1>3
  <2> HIDE DEF T
  <2>7. r.stats.current = Cardinality(r.tracked)
    BY <2>1, <2>2, <2>5, <2>6
  <2>8. /\ r.stats.current = r.stats.allocations - r.stats.deallocations
        /\ r.stats.current <= r.stats.peak
    BY <2>1, <2>3, <2>5
  <2> QED
    BY <2>2, <2>5, <2>6, <2>7, <2>8 DEF CountFor
<1>8. r \in ManagerType
  <2>1. r.stats \in StatsType /\ r.pool \in PoolType /\ r.gc \in GcType
    BY <1>1, <1>3, <1>6, <1>7 DEF CountFor, PoolFor
  <2>2. /\ r.tracked \in SUBSET Addrs /\ r.heapUsed \in SUBSET HeapAddrs
        /\ r.size \in [Addrs -> Nat] /\ r.refcount \in [Addrs -> Nat]
    BY <1>1, <1>3 DEF ManagerType
  <2> QED
    BY <1>5, <2>1, <2>2 DEF ManagerType
<1>0. a \notin forgotten
  BY DEF ManagerOK, HeapFor
<1>9. RefFor(r.refcount, r.tracked, forgotten)
  BY <1>0, <1>1, <1>3 DEF RefFor, ManagerOK, ManagerType
<1>10. HeapFor(r.heapUsed, r.tracked, forgotten)
  BY <1>0, <1>3 DEF HeapFor, ManagerOK
<1> QED
  BY <1>6, <1>7, <1>8, <1>9, <1>10 DEF ManagerOK, r, d

\* Counting bytes alone changes no object counter.
LEMMA CountBytesOK ==
  ASSUME NEW s \in StatsType, NEW x \in Nat, NEW y \in Nat
  PROVE  LET t == CountBytes(s, x, y)
         IN  /\ t \in StatsType
             /\ t.current = s.current
             /\ t.allocations = s.allocations
             /\ t.deallocations = s.deallocations
             /\ t.peak = s.peak
<1>1. s.bytesAllocated + x \in Nat /\ s.bytesFreed + y \in Nat
  BY DEF StatsType
<1> QED
  BY <1>1 DEF CountBytes, StatsType

\* Where a moved object can be put no other object is, on the list or not, and
\* the pool that is left is in order.
LEMMA MovedPlace ==
  ASSUME NEW m, ManagerOK(m), NEW old \in m.tracked, NEW bytes,
         NEW place \in MovePlacements(m, old, bytes)
  PROVE  /\ place.at \in Addrs /\ place.at \notin m.tracked \ {old}
         /\ PoolFor(place.pool, (m.tracked \ {old}) \cup {place.at})
         /\ place.at \notin forgotten
<1> DEFINE T  == m.tracked \ {old}
<1>0. /\ m \in ManagerType /\ old \in Addrs /\ m.tracked \in SUBSET Addrs
      /\ PoolFor(m.pool, m.tracked)
  BY DEF ManagerOK, ManagerType
<1>3. /\ m.tracked \cap HeapAddrs \subseteq m.heapUsed
      /\ forgotten \subseteq HeapAddrs
      /\ forgotten \subseteq m.heapUsed \ {old}
  BY DEF ManagerOK, HeapFor
<1>1. CASE old \in HeapAddrs
  <2> DEFINE n == [m EXCEPT !.heapUsed = @ \ {old}]
  <2>1. ~InPool(m.pool, old) /\ PoolFor(m.pool, T)
    BY <1>0, <1>1, InPoolIff, HeapApart
  <2>2. n.pool = m.pool /\ n.heapUsed = m.heapUsed \ {old}
    BY <1>0 DEF ManagerType
  <2>3. place \in Placements(n, bytes)
    BY <2>1 DEF MovePlacements
  <2>4. T \cap HeapAddrs \subseteq n.heapUsed /\ forgotten \subseteq n.heapUsed
    BY <1>3, <2>2
  <2> HIDE DEF n, T
  <2>5. PoolFor(n.pool, T)
    BY <2>1, <2>2 DEF T
  <2>6. /\ place.at \in Addrs /\ place.at \notin T
        /\ PoolFor(place.pool, T \cup {place.at})
        /\ place.at \in HeapAddrs => place.at \notin n.heapUsed
    BY <2>3, <2>4, <2>5, PlacementOK
  <2> QED
    BY <1>3, <2>4, <2>6 DEF T
<1>2. CASE old \notin HeapAddrs
  <2> DEFINE n == [m EXCEPT !.pool = PoolFree(@, old)]
  <2>1. InPool(m.pool, old) /\ PoolFor(PoolFree(m.pool, old), T)
    BY <1>0, <1>2, InPoolIff, PutOK
  <2>2. n.pool = PoolFree(m.pool, old) /\ n.heapUsed = m.heapUsed
    BY <1>0 DEF ManagerType
  <2>3. place \in Placements(n, bytes)
    BY <2>1 DEF MovePlacements
  <2>4. T \cap HeapAddrs \subseteq n.heapUsed /\ forgotten \subseteq n.heapUsed
    BY <1>3, <2>2
  <2> HIDE DEF n, T
  <2>5. PoolFor(n.pool, T)
    BY <2>1, <2>2 DEF T
  <2>6. /\ place.at \in Addrs /\ place.at \notin T
        /\ PoolFor(place.pool, T \cup {place.at})
        /\ place.at \in HeapAddrs => place.at \notin n.heapUsed
    BY <2>3, <2>4, <2>5, PlacementOK
  <2> QED
    BY <1>3, <2>4, <2>6 DEF T
<1> QED
  BY <1>1, <1>2

\* bread_memory_realloc leaves a manager in order.
LEMMA MovedOK ==
  ASSUME NEW m, ManagerOK(m), NEW old \in m.tracked, NEW bytes \in Nat,
         NEW place \in MovePlacements(m, old, bytes)
  PROVE  ManagerOK(Moved(m, old, place, bytes))
<1> DEFINE r == Moved(m, old, place, bytes)
           T == m.tracked \ {old}
           at == place.at
<1>1. /\ m \in ManagerType /\ m.stats \in StatsType /\ m.gc \in GcType
      /\ old \in Addrs /\ m.tracked \in SUBSET Addrs
      /\ PoolFor(m.pool, m.tracked)
  BY DEF ManagerOK, ManagerType
<1>2. /\ at \in Addrs /\ at \notin T /\ PoolFor(place.pool, T \cup {at})
      /\ at \notin forgotten /\ old \notin forgotten
  BY MovedPlace DEF ManagerOK, HeapFor
<1>3. PICK x \in Nat, y \in Nat :
        /\ r.stats = CountBytes(m.stats, x, y)
        /\ r.gc = CountSinceGc(m.gc, 0, x)
  <2> DEFINE x == IF bytes > m.size[old] THEN bytes - m.size[old] ELSE 0
             y == IF bytes < m.size[old] THEN m.size[old] - bytes ELSE 0
  <2>1. x \in Nat /\ y \in Nat
    BY <1>1 DEF ManagerType
  <2>2. /\ r.stats = CountBytes(m.stats, x, y)
        /\ r.gc = CountSinceGc(m.gc, 0, x)
    BY <1>1 DEF Moved, ManagerType
  <2> HIDE DEF x, y
  <2> QED
    BY <2>1, <2>2
<1> HIDE DEF at
<1>4. /\ r.tracked = T \cup {at}
      /\ r.size = [[m.size EXCEPT ![old] = 0] EXCEPT ![at] = bytes]
      /\ r.refcount = [[m.refcount EXCEPT ![old] = 0] EXCEPT ![at] = m.refcount[old]]
      /\ r.pool = place.pool
      /\ r.heapUsed = (m.heapUsed \ {old}) \cup ({at} \cap HeapAddrs)
  BY <1>1 DEF Moved, ManagerType, at
<1>5. DOMAIN r = {"tracked", "size", "refcount", "pool", "heapUsed", "stats", "gc"} /\
      r = [f \in DOMAIN r |-> r[f]]
  BY <1>1 DEF Moved, ManagerType
<1> HIDE DEF r
<1>6. CountFor(r.stats, r.tracked)
  <2>1. /\ IsFiniteSet(m.tracked)
        /\ m.stats.current = Cardinality(m.tracked)
        /\ m.stats.current = m.stats.allocations - m.stats.deallocations
        /\ m.stats.current <= m.stats.peak
    BY DEF ManagerOK, CountFor
  <2>2. /\ IsFiniteSet(T)
        /\ Cardinality(T) = Cardinality(m.tracked) - 1
        /\ Cardinality(m.tracked) \in Nat
    BY <2>1, FS_RemoveElement, FS_CardinalityType
  <2>3. /\ r.stats \in StatsType
        /\ r.stats.current = m.stats.current
        /\ r.stats.allocations = m.stats.allocations
        /\ r.stats.deallocations = m.stats.deallocations
        /\ r.stats.peak = m.stats.peak
    <3>1. r.stats = CountBytes(m.stats, x, y) /\ m.stats \in StatsType
      BY <1>1, <1>3
    <3>2. /\ CountBytes(m.stats, x, y) \in StatsType
          /\ CountBytes(m.stats, x, y).current = m.stats.current
          /\ CountBytes(m.stats, x, y).allocations = m.stats.allocations
          /\ CountBytes(m.stats, x, y).deallocations = m.stats.deallocations
          /\ CountBytes(m.stats, x, y).peak = m.stats.peak
      BY <3>1, CountBytesOK
    <3> QED
      BY <3>1, <3>2
  <2>4. r.tracked = T \cup {at} /\ at \notin T
    BY <1>2, <1>4
  <2> HIDE DEF T
  <2>5. IsFiniteSet(T \cup {at}) /\ Cardinality(T \cup {at}) = Cardinality(T) + 1
    BY <2>2, <2>4, FS_AddElement
  <2>6. Cardinality(r.tracked) = Cardinality(m.tracked)
    BY <2>2, <2>4, <2>5
  <2>7. IsFiniteSet(r.tracked)
    BY <2>4, <2>5
  <2> QED
    BY <2>1, <2>3, <2>6, <2>7 DEF CountFor
<1>7. r \in ManagerType
  <2>1. r.gc \in GcType
    BY <1>1, <1>3, SinceGcOK
  <2>2. r.stats \in StatsType /\ r.pool \in PoolType
    BY <1>2, <1>4, <1>6 DEF CountFor, PoolFor
  <2>3. r.tracked \in SUBSET Addrs /\ r.heapUsed \in SUBSET HeapAddrs
    BY <1>1, <1>2, <1>4 DEF ManagerType
  <2>4. r.size \in [Addrs -> Nat] /\ r.refcount \in [Addrs -> Nat]
    BY <1>1, <1>2, <1>4 DEF ManagerType
  <2> QED
    BY <1>5, <2>1, <2>2, <2>3, <2>4 DEF ManagerType
<1>8. RefFor(r.refcount, r.tracked, forgotten)
  <2>1. m.refcount \in [Addrs -> Nat] /\ m.refcount[old] > 0
    BY <1>1 DEF ManagerOK, RefFor, ManagerType
  <2>2. ASSUME NEW a \in Addrs
        PROVE  r.refcount[a] > 0 <=> a \in r.tracked \cup forgotten
    <3>1. CASE a = at
      BY <1>2, <1>4, <2>1, <3>1
    <3>2. CASE a # at /\ a = old
      BY <1>2, <1>4, <2>1, <3>2
    <3>3. CASE a # at /\ a # old
      <4>1. r.refcount[a] = m.refcount[a]
        BY <1>2, <1>4, <2>1, <3>3
      <4>2. a \in r.tracked <=> a \in m.tracked
        BY <1>4, <3>3
      <4> QED
        BY <4>1, <4>2 DEF ManagerOK, RefFor
    <3> QED
      BY <3>1, <3>2, <3>3
  <2> QED
    BY <2>2 DEF RefFor
<1>9. PoolFor(r.pool, r.tracked)
  BY <1>2, <1>4
<1>10. HeapFor(r.heapUsed, r.tracked, forgotten)
  <2>1. /\ forgotten \subseteq HeapAddrs
        /\ m.heapUsed = (m.tracked \cap HeapAddrs) \cup forgotten
        /\ m.tracked \cap forgotten = {}
    BY DEF ManagerOK, HeapFor
  <2>2. r.tracked \cap forgotten = {}
    BY <1>2, <1>4, <2>1
  <2>3. r.heapUsed = (r.tracked \cap HeapAddrs) \cup forgotten
    BY <1>2, <1>4, <2>1
  <2> QED
    BY <2>1, <2>2, <2>3 DEF HeapFor
<1> QED
  BY <1>6, <1>7, <1>8, <1>9, <1>10 DEF ManagerOK, r

\* A collection sweeps nothing: everything on the list is marked.
LEMMA CollectedIs ==
  ASSUME NEW m, ManagerOK(m), NEW marked
  PROVE  Collected(m, marked) = [m EXCEPT !.gc = AfterCollection(@, 0)]
<1>1. m.refcount \in [Addrs -> Nat] /\ m.tracked \subseteq Addrs /\ m.stats.current \in Nat
  BY DEF ManagerOK, ManagerType, StatsType
<1>2. {a \in m.tracked : a \notin marked /\ m.refcount[a] = 0} = {}
  BY <1>1 DEF ManagerOK, RefFor
<1>3. Swept(m, marked) = m
  BY <1>2 DEF Swept
<1>4. m.stats.current - m.stats.current = 0
  BY <1>1
<1> QED
  BY <1>3, <1>4 DEF Collected

\* A collection leaves a manager in order.
LEMMA CollectedOK ==
  ASSUME NEW m, ManagerOK(m), NEW marked
  PROVE  ManagerOK(Collected(m, marked))
<1> DEFINE r == [m EXCEPT !.gc = AfterCollection(@, 0)]
<1>1. m \in ManagerType /\ m.gc \in GcType
  BY DEF ManagerOK, ManagerType
<1>2. AfterCollection(m.gc, 0) \in GcType
  <2>1. (m.gc.threshold * 3) \div 2 \in Nat
    BY <1>1 DEF GcType
  <2> QED
    BY <1>1, <2>1 DEF AfterCollection, GcType
<1>3. /\ r \in ManagerType
      /\ r.tracked = m.tracked /\ r.refcount = m.refcount /\ r.pool = m.pool
      /\ r.heapUsed = m.heapUsed /\ r.stats = m.stats
  BY <1>1, <1>2 DEF ManagerType
<1>4. ManagerOK(r)
  <2> HIDE DEF r
  <2> QED
    BY <1>3 DEF ManagerOK
<1> QED
  BY <1>4, CollectedIs

\* Changing the count of a tracked object to another positive one, or the
\* collector's settings, leaves the rest in order.
LEMMA RefcountOK ==
  ASSUME NEW m, ManagerOK(m), NEW a \in m.tracked, NEW n \in Nat \ {0}
  PROVE  ManagerOK([m EXCEPT !.refcount[a] = n])
<1> DEFINE r == [m EXCEPT !.refcount[a] = n]
<1>1. m \in ManagerType /\ a \in Addrs
  BY DEF ManagerOK, ManagerType
<1>2. /\ r \in ManagerType
      /\ r.refcount = [m.refcount EXCEPT ![a] = n]
      /\ r.tracked = m.tracked /\ r.pool = m.pool
      /\ r.heapUsed = m.heapUsed /\ r.stats = m.stats
  BY <1>1 DEF ManagerType
<1> HIDE DEF r
<1>3. RefFor(r.refcount, r.tracked, forgotten)
  BY <1>1, <1>2 DEF RefFor, ManagerOK, ManagerType
<1>4. ManagerOK(r)
  BY <1>2, <1>3 DEF ManagerOK
<1> QED
  BY <1>4 DEF r

\* New collector settings leave a manager in order.
LEMMA GcOK ==
  ASSUME NEW m, ManagerOK(m), NEW g \in GcType
  PROVE  ManagerOK([m EXCEPT !.gc = g])
<1> DEFINE r == [m EXCEPT !.gc = g]
<1>1. m \in ManagerType
  BY DEF ManagerOK
<1>2. /\ r \in ManagerType
      /\ r.tracked = m.tracked /\ r.refcount = m.refcount /\ r.pool = m.pool
      /\ r.heapUsed = m.heapUsed /\ r.stats = m.stats
  BY <1>1 DEF ManagerType
<1> HIDE DEF r
<1>3. ManagerOK(r)
  BY <1>2 DEF ManagerOK
<1> QED
  BY <1>3 DEF r

-----------------------------------------------------------------------------
(* The inductive invariant.                                                *)

\* The empty pool is in order for an empty list.
LEMMA EmptyOK == PoolFor(EmptyPool, {})
<1>1. EmptyPool \in PoolType
  BY PoolAssumption DEF EmptyPool, PoolType
<1>2. \A c \in 0 .. MaxChunks : EmptyPool.count[c] = Cardinality(EmptyPool.free[c])
  BY FS_EmptySet DEF EmptyPool
<1> QED
  BY <1>1, <1>2, PoolAssumption DEF PoolFor, EmptyPool

\* A manager that is down and is called starts from an empty list, whatever the
\* malloc'd objects F that a cleanup has left and the counts they have.
LEMMA DownOK ==
  ASSUME NEW F \in SUBSET HeapAddrs, NEW sz \in [Addrs -> Nat],
         NEW refs \in [Addrs -> Nat], RefFor(refs, {}, F)
  PROVE  LET m == [tracked |-> {}, size |-> sz, refcount |-> refs, pool |-> EmptyPool,
                   heapUsed |-> F, stats |-> ZeroStats, gc |-> DefaultGc]
         IN  /\ m \in ManagerType
             /\ PoolFor(m.pool, m.tracked)
             /\ CountFor(m.stats, m.tracked)
             /\ HeapFor(m.heapUsed, m.tracked, F)
             /\ RefFor(m.refcount, m.tracked, F)
<1> DEFINE m == [tracked |-> {}, size |-> sz, refcount |-> refs, pool |-> EmptyPool,
                 heapUsed |-> F, stats |-> ZeroStats, gc |-> DefaultGc]
<1>1. ZeroStats \in StatsType /\ DefaultGc \in GcType
  BY GcAssumption DEF ZeroStats, StatsType, DefaultGc, GcType
<1>2. m \in ManagerType
  BY <1>1, EmptyOK DEF ManagerType, PoolFor
<1>3. CountFor(ZeroStats, {})
  BY <1>1, FS_EmptySet DEF CountFor, ZeroStats
<1>4. HeapFor(F, {}, F)
  BY DEF HeapFor
<1> QED
  BY <1>2, <1>3, <1>4, EmptyOK

\* A call that ends in a manager in order re-establishes the invariant.
LEMMA BecomeOK ==
  ASSUME NEW m, ManagerOK(m), aborted \in BOOLEAN, Become(m)
  PROVE  IInv'
<1>1. m \in ManagerType
  BY DEF ManagerOK
<1>2. m = [tracked |-> m.tracked, size |-> m.size, refcount |-> m.refcount, pool |-> m.pool,
           heapUsed |-> m.heapUsed, stats |-> m.stats, gc |-> m.gc]
  BY <1>1 DEF ManagerType
<1>3. Manager' = m
  BY <1>2 DEF Become, Manager, ReadyStats, ReadyGc
<1>4. forgotten \subseteq HeapAddrs /\ forgotten' = forgotten
  BY DEF ManagerOK, HeapFor, Become
<1>5. TypeOK'
  BY <1>1, <1>4 DEF Become, TypeOK, ManagerType
<1>6. ManagerOK(Manager)'
  BY <1>3, <1>4 DEF ManagerOK
<1> QED
  BY <1>5, <1>6 DEF IInv, Become

\* The invariant holds initially.
LEMMA InitOK == Init => IInv
<1> SUFFICES ASSUME Init PROVE IInv
  OBVIOUS
<1>1. ManagerOK(Manager)
  <2> DEFINE none == [a \in Addrs |-> 0]
  <2>1. {} \in SUBSET HeapAddrs /\ none \in [Addrs -> Nat] /\ RefFor(none, {}, {})
    BY DEF RefFor
  <2>2. /\ Manager = [tracked |-> {}, size |-> none, refcount |-> none, pool |-> EmptyPool,
                      heapUsed |-> {}, stats |-> ZeroStats, gc |-> DefaultGc]
        /\ forgotten = {}
    BY DEF Init, Manager, ReadyStats, ReadyGc
  <2> HIDE DEF none
  <2> QED
    BY <2>1, <2>2, DownOK DEF ManagerOK
<1>2. TypeOK
  <2>1. ZeroStats \in StatsType /\ DefaultGc \in GcType /\ EmptyPool \in PoolType
    BY GcAssumption, EmptyOK DEF ZeroStats, StatsType, DefaultGc, GcType, PoolFor
  <2> QED
    BY <2>1 DEF Init, TypeOK
<1> QED
  BY <1>1, <1>2 DEF IInv, Init

\* A fatal error changes nothing the invariant speaks of.
LEMMA AbortOK ==
  ASSUME IInv, Abort
  PROVE  IInv'
<1>1. Manager' = Manager
  BY DEF Abort, Manager, ReadyStats, ReadyGc
<1>2. TypeOK'
  BY DEF Abort, TypeOK, IInv
<1>3. ManagerOK(Manager)'
  BY <1>1 DEF ManagerOK, IInv, Abort
<1> QED
  BY <1>2, <1>3 DEF IInv, Abort

\* A call that touches only what a cleanup has left re-establishes the invariant.
LEMMA LeftoverOK ==
  ASSUME IInv, UNCHANGED <<inited, aborted, tracked, size, pool, stats, gc>>,
         refcount' \in [Addrs -> Nat],
         HeapFor(heapUsed', tracked, forgotten'),
         RefFor(refcount', tracked, forgotten')
  PROVE  IInv'
<1>1. /\ ManagerOK(Manager) /\ TypeOK /\ Manager \in ManagerType
      /\ Manager.tracked = tracked /\ Manager.pool = pool /\ Manager.stats = ReadyStats
  BY DEF IInv, ManagerOK, Manager
<1>2. heapUsed' \in SUBSET HeapAddrs /\ forgotten' \in SUBSET HeapAddrs
  BY DEF HeapFor
<1>3. Manager' = [tracked |-> tracked, size |-> size, refcount |-> refcount', pool |-> pool,
                  heapUsed |-> heapUsed', stats |-> ReadyStats, gc |-> ReadyGc]
  BY DEF Manager, ReadyStats, ReadyGc
<1>4. /\ Manager' \in ManagerType
      /\ Manager'.tracked = tracked /\ Manager'.pool = pool
      /\ Manager'.stats = ReadyStats /\ Manager'.heapUsed = heapUsed'
      /\ Manager'.refcount = refcount'
  <2>1. /\ tracked \in SUBSET Addrs /\ size \in [Addrs -> Nat] /\ pool \in PoolType
        /\ ReadyStats \in StatsType /\ ReadyGc \in GcType
    BY <1>1 DEF ManagerType, Manager
  <2> QED
    BY <1>2, <1>3, <2>1 DEF ManagerType
<1>5. ManagerOK(Manager)'
  BY <1>1, <1>4 DEF ManagerOK
<1>6. TypeOK'
  BY <1>1, <1>2 DEF TypeOK
<1> QED
  BY <1>5, <1>6 DEF IInv

\* The invariant is inductive.
LEMMA StepOK == IInv /\ [Next]_vars => IInv'
<1> SUFFICES ASSUME IInv, [Next]_vars PROVE IInv'
  OBVIOUS
<1>0. /\ ManagerOK(Manager) /\ aborted \in BOOLEAN
      /\ Manager.tracked = tracked /\ Manager.refcount = refcount
      /\ Manager.gc = ReadyGc /\ Manager.gc \in GcType
      /\ refcount \in [Addrs -> Nat] /\ tracked \subseteq Addrs
  BY DEF IInv, TypeOK, Manager, ManagerOK, ManagerType
<1>1. ASSUME NEW bytes \in Sizes, Alloc(bytes)
      PROVE  IInv'
  <2>1. bytes \in Nat
    BY PoolAssumption
  <2>2. PICK place \in Placements(Manager, bytes) :
          LET m == Allocated(Manager, place, bytes)
          IN  Become(m) \/ \E marked : Become(Collected(m, marked))
    BY <1>1 DEF Alloc
  <2> DEFINE m == Allocated(Manager, place, bytes)
  <2>3. ManagerOK(m)
    BY <1>0, <2>1, AllocatedOK
  <2>4. Become(m) \/ \E marked : Become(Collected(m, marked))
    BY <2>2
  <2> HIDE DEF m
  <2> QED
    BY <1>0, <2>3, <2>4, CollectedOK, BecomeOK
<1>2. ASSUME NEW bytes \in Sizes, AllocFails(bytes)
      PROVE  IInv'
  BY <1>2, AbortOK DEF AllocFails
<1>3. ASSUME NEW a \in Addrs, NEW bytes \in Sizes, Realloc(a, bytes)
      PROVE  IInv'
  <2>1. bytes \in Nat /\ a \in Manager.tracked
    BY <1>0, <1>3, PoolAssumption DEF Realloc
  <2>2. PICK place \in MovePlacements(Manager, a, bytes) : Become(Moved(Manager, a, place, bytes))
    BY <1>3 DEF Realloc
  <2>3. ManagerOK(Moved(Manager, a, place, bytes))
    BY <1>0, <2>1, MovedOK
  <2> QED
    BY <1>0, <2>2, <2>3, BecomeOK
<1>12. ASSUME NEW a \in Addrs, NEW bytes \in Sizes, ReallocFails(a, bytes)
       PROVE  IInv'
  BY <1>12, AbortOK DEF ReallocFails
<1>4. ASSUME NEW a \in Addrs, Retain(a)
      PROVE  IInv'
  <2>1. CASE Abort
    BY <2>1, AbortOK
  <2>2. CASE Become([Manager EXCEPT !.refcount[a] = @ + 1])
    <3>1. Become([Manager EXCEPT !.refcount[a] = refcount[a] + 1])
      BY <1>0, <2>2
    <3>2. a \in Manager.tracked /\ refcount[a] + 1 \in Nat \ {0}
      BY <1>0, <1>4 DEF Retain
    <3>3. ManagerOK([Manager EXCEPT !.refcount[a] = refcount[a] + 1])
      BY <1>0, <3>2, RefcountOK
    <3> QED
      BY <1>0, <3>1, <3>3, BecomeOK
  <2> QED
    BY <1>4, <2>1, <2>2 DEF Retain
<1>5. ASSUME NEW a \in Addrs, Release(a)
      PROVE  IInv'
  <2> DEFINE m == [Manager EXCEPT !.refcount[a] = @ - 1]
  <2>1. CASE Abort
    BY <2>1, AbortOK
  <2>2. CASE Become(IF m.refcount[a] = 0 THEN Freed(m, a) ELSE m) /\ refcount[a] # 0
    <3>1. a \in Manager.tracked /\ refcount[a] - 1 \in Nat
      BY <1>0, <1>5, <2>2 DEF Release
    <3>2. m = [Manager EXCEPT !.refcount[a] = refcount[a] - 1] /\ m.refcount[a] = refcount[a] - 1
      BY <1>0, <3>1 DEF Manager
    <3>3. CASE refcount[a] = 1
      <4>1. ManagerOK(Freed(m, a))
        BY <1>0, <3>1, <3>3, FreedOK
      <4> QED
        BY <1>0, <2>2, <3>2, <3>3, <4>1, BecomeOK
    <3>4. CASE refcount[a] # 1
      <4>1. ManagerOK([Manager EXCEPT !.refcount[a] = refcount[a] - 1])
        BY <1>0, <3>1, <3>4, RefcountOK
      <4>2. m.refcount[a] # 0
        BY <1>0, <3>1, <3>2, <3>4
      <4>3. Become(m)
        BY <2>2, <4>2
      <4>4. ManagerOK(m)
        BY <3>2, <4>1
      <4> HIDE DEF m
      <4> QED
        BY <1>0, <4>3, <4>4, BecomeOK
    <3> QED
      BY <3>3, <3>4
  <2> QED
    BY <1>5, <2>1, <2>2 DEF Release
<1>6. CASE CollectCycles
  <2>1. PICK marked : Become(Collected(Manager, marked))
    BY <1>6 DEF CollectCycles
  <2> QED
    BY <1>0, <2>1, CollectedOK, BecomeOK
<1>7. ASSUME NEW t \in Thresholds, SetThreshold(t)
      PROVE  IInv'
  <2> DEFINE g == [ReadyGc EXCEPT !.enabled = t > 0, !.threshold = IF t > 0 THEN t ELSE 0]
  <2>1. g \in GcType
    <3>1. (t > 0) \in BOOLEAN /\ (IF t > 0 THEN t ELSE 0) \in Nat
      BY GcAssumption
    <3>2. ReadyGc \in GcType
      BY <1>0
    <3> QED
      BY <3>1, <3>2 DEF GcType
  <2>2. Become([Manager EXCEPT !.gc = g])
    BY <1>0, <1>7 DEF SetThreshold, Manager
  <2> HIDE DEF g
  <2>3. ManagerOK([Manager EXCEPT !.gc = g])
    BY <1>0, <2>1, GcOK
  <2> QED
    BY <1>0, <2>2, <2>3, BecomeOK
<1>8. ASSUME NEW t \in ByteThresholds, SetByteThreshold(t)
      PROVE  IInv'
  <2> DEFINE g == [ReadyGc EXCEPT !.byteThreshold = t]
  <2>1. g \in GcType
    BY <1>0, GcAssumption DEF GcType
  <2>2. Become([Manager EXCEPT !.gc = g])
    BY <1>0, <1>8 DEF SetByteThreshold, Manager
  <2> HIDE DEF g
  <2>3. ManagerOK([Manager EXCEPT !.gc = g])
    BY <1>0, <2>1, GcOK
  <2> QED
    BY <1>0, <2>2, <2>3, BecomeOK
<1>9. ASSUME NEW on \in BOOLEAN, EnableAutoGc(on)
      PROVE  IInv'
  <2> DEFINE g == [ReadyGc EXCEPT !.auto = on]
  <2>1. g \in GcType
    BY <1>0 DEF GcType
  <2>2. Become([Manager EXCEPT !.gc = g])
    BY <1>0, <1>9 DEF EnableAutoGc, Manager
  <2> HIDE DEF g
  <2>3. ManagerOK([Manager EXCEPT !.gc = g])
    BY <1>0, <2>1, GcOK
  <2> QED
    BY <1>0, <2>2, <2>3, BecomeOK
<1>10. CASE Cleanup
  <2>1. /\ heapUsed \in SUBSET HeapAddrs /\ refcount' \in [Addrs -> Nat]
        /\ size' \in [Addrs -> Nat] /\ forgotten' = heapUsed
    BY <1>0, <1>10 DEF Cleanup, IInv, TypeOK
  <2>2. RefFor(refcount', {}, heapUsed)
    <3>1. \A a \in heapUsed : a \in Addrs /\ refcount[a] > 0
      BY <1>0 DEF ManagerOK, Manager, HeapFor, RefFor, Addrs
    <3> QED
      BY <1>10, <3>1 DEF Cleanup, RefFor
  <2>3. Manager' = [tracked |-> {}, size |-> size', refcount |-> refcount',
                    pool |-> EmptyPool, heapUsed |-> heapUsed, stats |-> ZeroStats,
                    gc |-> DefaultGc]
    BY <1>10 DEF Cleanup, Manager, ReadyStats, ReadyGc
  <2>4. ManagerOK(Manager)'
    BY <2>1, <2>2, <2>3, DownOK DEF ManagerOK
  <2> QED
    BY <2>1, <2>4, <1>10, EmptyOK DEF Cleanup, IInv, TypeOK, PoolFor
<1>13. ASSUME NEW a \in HeapAddrs, RetainForgotten(a)
       PROVE  IInv'
  <2>1. CASE Abort
    BY <2>1, AbortOK
  <2>2. CASE ~Abort
    <3>1. /\ refcount' = [refcount EXCEPT ![a] = refcount[a] + 1]
          /\ a \in forgotten /\ a \in Addrs
          /\ UNCHANGED <<inited, aborted, tracked, size, pool, heapUsed, forgotten, stats, gc>>
      BY <1>13, <2>2 DEF RetainForgotten, Addrs
    <3>2. /\ HeapFor(heapUsed, tracked, forgotten)
          /\ RefFor(refcount, tracked, forgotten)
      BY <1>0 DEF ManagerOK, Manager
    <3>3. refcount' \in [Addrs -> Nat] /\ RefFor(refcount', tracked, forgotten')
      BY <1>0, <3>1, <3>2 DEF RefFor
    <3>4. HeapFor(heapUsed', tracked, forgotten')
      BY <3>1, <3>2
    <3> QED
      BY <3>1, <3>3, <3>4, LeftoverOK
  <2> QED
    BY <2>1, <2>2
<1>14. ASSUME NEW a \in HeapAddrs, ReleaseForgotten(a)
       PROVE  IInv'
  <2>1. CASE Abort
    BY <2>1, AbortOK
  <2>2. CASE ~Abort
    <3> DEFINE gone == IF refcount[a] = 1 THEN {a} ELSE {}
    <3>1. /\ refcount' = [refcount EXCEPT ![a] = refcount[a] - 1]
          /\ heapUsed' = heapUsed \ gone /\ forgotten' = forgotten \ gone
          /\ UNCHANGED <<inited, aborted, tracked, size, pool, stats, gc>>
      BY <1>14, <2>2 DEF ReleaseForgotten
    <3>2. /\ HeapFor(heapUsed, tracked, forgotten)
          /\ RefFor(refcount, tracked, forgotten)
          /\ a \in forgotten /\ a \in Addrs
      BY <1>0, <1>14 DEF ManagerOK, Manager, ReleaseForgotten, Addrs
    <3>3. refcount[a] \in Nat /\ refcount[a] > 0 /\ a \notin tracked
      BY <1>0, <3>2 DEF RefFor, HeapFor
    <3>4. HeapFor(heapUsed', tracked, forgotten')
      BY <3>1, <3>2, <3>3 DEF HeapFor
    <3>5. refcount' \in [Addrs -> Nat] /\ refcount'[a] = refcount[a] - 1
      BY <1>0, <3>1, <3>2, <3>3
    <3>6. ASSUME NEW b \in Addrs
          PROVE  refcount'[b] > 0 <=> b \in tracked \cup forgotten'
      <4>1. CASE b = a
        BY <3>1, <3>2, <3>3, <3>5, <4>1
      <4>2. CASE b # a
        <5>1. refcount'[b] = refcount[b] /\ (b \in forgotten' <=> b \in forgotten)
          BY <1>0, <3>1, <4>2
        <5> QED
          BY <3>2, <5>1 DEF RefFor
      <4> QED
        BY <4>1, <4>2
    <3>7. RefFor(refcount', tracked, forgotten')
      BY <3>6 DEF RefFor
    <3> HIDE DEF gone
    <3> QED
      BY <3>1, <3>4, <3>5, <3>7, LeftoverOK
  <2> QED
    BY <2>1, <2>2
<1>11. CASE UNCHANGED vars
  <2>1. Manager' = Manager /\ forgotten' = forgotten
    BY <1>11 DEF vars, Manager, ReadyStats, ReadyGc
  <2>2. ManagerOK(Manager)'
    BY <1>0, <2>1 DEF ManagerOK
  <2> QED
    BY <1>11, <2>2 DEF vars, IInv, TypeOK
<1> QED
  BY <1>1, <1>2, <1>3, <1>4, <1>5, <1>6, <1>7, <1>8, <1>9, <1>10, <1>11, <1>12,
     <1>13, <1>14 DEF Next

-----------------------------------------------------------------------------
(* The theorems.                                                           *)

\* The type invariant and the strengthening hold in every reachable state,
\* those after a cleanup included: the objects it left keep their counts and
\* their memory until their last release.
THEOREM Inductive == Spec => []IInv
BY InitOK, StepOK, PTL DEF Spec

\* Type correctness of the manager's state, whatever is allocated, moved,
\* released and collected.
THEOREM TypeCorrect == Spec => []TypeOK
<1>1. IInv => TypeOK
  BY DEF IInv
<1> QED
  BY <1>1, Inductive, PTL

\* The pool never hands out a block in use and never loses one: bitmap,
\* free_count and object list agree for chunks and pools of every size.  No
\* malloc'd object is lost except to a cleanup.
THEOREM MemoryAccountingHolds == Spec => []MemoryAccounting
<1>1. IInv => MemoryAccounting
  BY DEF IInv, ManagerOK, Manager, PoolFor, HeapFor, MemoryAccounting
<1> QED
  BY <1>1, Inductive, PTL

\* The object counters describe the list.
THEOREM CountAccountingHolds == Spec => []CountAccounting
<1>1. IInv => CountAccounting
  BY DEF IInv, ManagerOK, Manager, ReadyStats, CountFor, CountAccounting
<1> QED
  BY <1>1, Inductive, PTL

\* Between two calls every object on the list is referenced, and a referenced
\* object that is not on it is a malloc'd one that a cleanup left.
THEOREM ReferencedIffTrackedHolds == Spec => []ReferencedIffTracked
<1>1. IInv => ReferencedIffTracked
  BY DEF IInv, ManagerOK, Manager, RefFor, ReferencedIffTracked
<1> QED
  BY <1>1, Inductive, PTL

-----------------------------------------------------------------------------
(* The collector.                                                          *)

LastReferenceGone ==
  stats'.deallocations > stats.deallocations =>
    \E a \in tracked : refcount[a] = 1 /\ tracked' = tracked \ {a}

\* A call that ends with the deallocation counter it found has freed nothing.
LEMMA NothingFreed ==
  ASSUME NEW m, IInv, Become(m), m.stats.deallocations = ReadyStats.deallocations
  PROVE  LastReferenceGone
<1>1. stats \in StatsType /\ stats'.deallocations = ReadyStats.deallocations
  BY DEF IInv, TypeOK, Become
<1>2. ReadyStats.deallocations <= stats.deallocations
  BY <1>1 DEF ReadyStats, ZeroStats, StatsType
<1>3. stats.deallocations \in Nat
  BY <1>1 DEF StatsType
<1>4. stats'.deallocations <= stats.deallocations
  BY <1>1, <1>2
<1>5. ReadyStats.deallocations \in Nat
  BY <1>3 DEF ReadyStats, ZeroStats
<1> QED
  BY <1>1, <1>3, <1>4, <1>5 DEF LastReferenceGone

\* An object leaves the list for good only with its last reference.
LEMMA StepReclaims == IInv /\ [Next]_vars => LastReferenceGone
<1> SUFFICES ASSUME IInv, [Next]_vars PROVE LastReferenceGone
  OBVIOUS
<1>0. /\ ManagerOK(Manager) /\ Manager \in ManagerType
      /\ Manager.stats = ReadyStats /\ ReadyStats \in StatsType
      /\ Manager.refcount = refcount /\ Manager.tracked = tracked
      /\ Manager.gc = ReadyGc
      /\ refcount \in [Addrs -> Nat] /\ stats \in StatsType
  BY DEF IInv, TypeOK, Manager, ManagerOK, ManagerType
<1>a. ASSUME NEW m, NEW marked, ManagerOK(m)
      PROVE  Collected(m, marked).stats = m.stats
  <2>1. m \in ManagerType
    BY <1>a DEF ManagerOK
  <2>2. [m EXCEPT !.gc = AfterCollection(@, 0)].stats = m.stats
    BY <2>1 DEF ManagerType
  <2> QED
    BY <1>a, <2>2, CollectedIs
<1>b. ASSUME UNCHANGED stats
      PROVE  LastReferenceGone
  BY <1>0, <1>b DEF LastReferenceGone, StatsType
<1>1. ASSUME NEW bytes \in Sizes, Alloc(bytes)
      PROVE  LastReferenceGone
  <2>1. bytes \in Nat
    BY PoolAssumption
  <2>2. PICK place \in Placements(Manager, bytes) :
          LET m == Allocated(Manager, place, bytes)
          IN  Become(m) \/ \E marked : Become(Collected(m, marked))
    BY <1>1 DEF Alloc
  <2> DEFINE m == Allocated(Manager, place, bytes)
  <2>3. ManagerOK(m)
    BY <1>0, <2>1, AllocatedOK
  <2>4. m.stats.deallocations = ReadyStats.deallocations
    <3>1. m.stats = CountBytes(CountTrack(ReadyStats), bytes, 0)
      BY <1>0 DEF Allocated, ManagerType
    <3>2. ReadyStats.current <= ReadyStats.peak
      BY <1>0 DEF ManagerOK, CountFor
    <3> HIDE DEF m
    <3> QED
      BY <1>0, <2>1, <3>1, <3>2, CountAllocOK
  <2>5. Become(m) \/ \E marked : Become(Collected(m, marked))
    BY <2>2
  <2> HIDE DEF m
  <2>6. CASE Become(m)
    BY <2>4, <2>6, NothingFreed
  <2>7. CASE \E marked : Become(Collected(m, marked))
    <3>1. PICK marked : Become(Collected(m, marked))
      BY <2>7
    <3>2. Collected(m, marked).stats = m.stats
      BY <1>a, <2>3
    <3> QED
      BY <2>4, <3>1, <3>2, NothingFreed
  <2> QED
    BY <2>5, <2>6, <2>7
<1>2. ASSUME NEW bytes \in Sizes, AllocFails(bytes)
      PROVE  LastReferenceGone
  BY <1>2, <1>b DEF AllocFails, Abort
<1>3. ASSUME NEW a \in Addrs, NEW bytes \in Sizes, Realloc(a, bytes)
      PROVE  LastReferenceGone
  <2>1. PICK place \in MovePlacements(Manager, a, bytes) : Become(Moved(Manager, a, place, bytes))
    BY <1>3 DEF Realloc
  <2> DEFINE x == IF bytes > size[a] THEN bytes - size[a] ELSE 0
             y == IF bytes < size[a] THEN size[a] - bytes ELSE 0
             m == Moved(Manager, a, place, bytes)
  <2>2. m.stats = CountBytes(ReadyStats, x, y)
    BY <1>0 DEF Moved, ManagerType, Manager
  <2>3. x \in Nat /\ y \in Nat
    BY PoolAssumption DEF IInv, TypeOK
  <2> HIDE DEF x, y, m
  <2>4. CountBytes(ReadyStats, x, y).deallocations = ReadyStats.deallocations
    BY <1>0, <2>3, CountBytesOK
  <2>5. Become(m)
    BY <2>1 DEF m
  <2> QED
    BY <2>2, <2>4, <2>5, NothingFreed
<1>13. ASSUME NEW a \in Addrs, NEW bytes \in Sizes, ReallocFails(a, bytes)
       PROVE  LastReferenceGone
  BY <1>13, <1>b DEF ReallocFails, Abort
<1>4. ASSUME NEW a \in Addrs, Retain(a)
      PROVE  LastReferenceGone
  <2>1. CASE Abort
    BY <1>b, <2>1 DEF Abort
  <2>2. CASE Become([Manager EXCEPT !.refcount[a] = @ + 1])
    <3>1. [Manager EXCEPT !.refcount[a] = @ + 1].stats = ReadyStats
      BY <1>0 DEF ManagerType
    <3> QED
      BY <2>2, <3>1, NothingFreed
  <2> QED
    BY <1>4, <2>1, <2>2 DEF Retain
<1>5. ASSUME NEW a \in Addrs, Release(a)
      PROVE  LastReferenceGone
  <2> DEFINE m == [Manager EXCEPT !.refcount[a] = @ - 1]
  <2>1. CASE Abort
    BY <1>b, <2>1 DEF Abort
  <2>2. CASE Become(IF m.refcount[a] = 0 THEN Freed(m, a) ELSE m) /\ refcount[a] # 0
    <3>1. m.refcount[a] = refcount[a] - 1 /\ m.stats = ReadyStats
      BY <1>0 DEF Manager, ManagerType
    <3>2. CASE refcount[a] = 1
      <4>1. tracked' = tracked \ {a}
        BY <1>0, <2>2, <3>1, <3>2 DEF Become, Freed, Manager
      <4> QED
        BY <1>5, <3>2, <4>1 DEF LastReferenceGone, Release
    <3>3. CASE refcount[a] # 1
      <4>1. m.refcount[a] # 0
        BY <1>0, <3>1, <3>3
      <4>2. Become(m)
        BY <2>2, <4>1
      <4> HIDE DEF m
      <4> QED
        BY <3>1, <4>2, NothingFreed
    <3> QED
      BY <3>2, <3>3
  <2> QED
    BY <1>5, <2>1, <2>2 DEF Release
<1>6. CASE CollectCycles
  <2>1. PICK marked : Become(Collected(Manager, marked))
    BY <1>6 DEF CollectCycles
  <2>2. Collected(Manager, marked).stats = ReadyStats
    BY <1>0, <1>a
  <2> QED
    BY <2>1, <2>2, NothingFreed
<1>7. ASSUME NEW g, Become([Manager EXCEPT !.gc = g])
      PROVE  LastReferenceGone
  <2>1. [Manager EXCEPT !.gc = g].stats = ReadyStats
    BY <1>0 DEF ManagerType
  <2> QED
    BY <1>7, <2>1, NothingFreed
<1>8. ASSUME NEW t, SetThreshold(t)
      PROVE  LastReferenceGone
  <2>1. Become([Manager EXCEPT !.gc = [ReadyGc EXCEPT !.enabled = t > 0,
                                        !.threshold = IF t > 0 THEN t ELSE 0]])
    BY <1>0, <1>8 DEF SetThreshold, Manager
  <2> QED
    BY <1>7, <2>1
<1>9. ASSUME NEW t, SetByteThreshold(t)
      PROVE  LastReferenceGone
  <2>1. Become([Manager EXCEPT !.gc = [ReadyGc EXCEPT !.byteThreshold = t]])
    BY <1>0, <1>9 DEF SetByteThreshold, Manager
  <2> QED
    BY <1>7, <2>1
<1>10. ASSUME NEW on, EnableAutoGc(on)
      PROVE  LastReferenceGone
  <2>1. Become([Manager EXCEPT !.gc = [ReadyGc EXCEPT !.auto = on]])
    BY <1>0, <1>10 DEF EnableAutoGc, Manager
  <2> QED
    BY <1>7, <2>1
<1>11. CASE Cleanup
  BY <1>b, <1>11 DEF Cleanup
<1>14. ASSUME NEW a \in HeapAddrs, RetainForgotten(a) \/ ReleaseForgotten(a)
       PROVE  LastReferenceGone
  BY <1>14, <1>b DEF RetainForgotten, ReleaseForgotten, Abort
<1>12. CASE UNCHANGED vars
  BY <1>b, <1>12 DEF vars
<1> QED
  BY <1>1, <1>2, <1>3, <1>4, <1>5, <1>6, <1>8, <1>9, <1>10, <1>11, <1>12, <1>13, <1>14
     DEF Next

\* bread_memory_collect_cycles never reclaims an object, in any state the
\* manager can reach and for any settings of the collector: the only thing
\* that takes an object off the list for good is the release of its last
\* reference.
THEOREM CollectionReclaimsNothingHolds == Spec => CollectionReclaimsNothing
<1>1. [LastReferenceGone]_vars =>
        [stats'.deallocations > stats.deallocations =>
          \E a \in tracked : refcount[a] = 1 /\ tracked' = tracked \ {a}]_vars
  BY DEF LastReferenceGone
<1>2. IInv /\ [Next]_vars => LastReferenceGone
  BY StepReclaims
<1> QED
  BY <1>1, <1>2, Inductive, PTL DEF Spec, CollectionReclaimsNothing

-----------------------------------------------------------------------------
(* The bytes.                                                              *)

\* The bytes that f records for the objects in T.
BytesOf(f, T) == MapThenSumSet(LAMBDA a : f[a], T)

Pick(s) == CHOOSE x \in s : TRUE

\* g sums f over the subsets of T of at most n objects.
SumsTo(g, f, T, n) ==
  LET Small == {s \in SUBSET T : Cardinality(s) <= n}
  IN  g = [s \in Small |-> IF s = {} THEN 0 ELSE f[Pick(s)] + g[s \ {Pick(s)}]]

\* g sums f over the subsets of T.
Sums(g, f, T) ==
  g = [s \in SUBSET T |-> IF s = {} THEN 0 ELSE f[Pick(s)] + g[s \ {Pick(s)}]]

LEMMA BytesOfIs ==
  ASSUME NEW f, NEW T
  PROVE  BytesOf(f, T) = (CHOOSE g : Sums(g, f, T))[T]
  BY DEF BytesOf, Sums, MapThenSumSet, MapThenFoldSet, Pick

\* The parts of a finite set are finite, and smaller when an element is taken out.
LEMMA PartFacts ==
  ASSUME NEW T, IsFiniteSet(T), NEW s \in SUBSET T
  PROVE  /\ IsFiniteSet(s) /\ Cardinality(s) \in Nat
         /\ Cardinality(s) = 0 <=> s = {}
         /\ \A a \in s : Cardinality(s \ {a}) = Cardinality(s) - 1 /\ s \ {a} \in SUBSET T
         /\ s # {} => Pick(s) \in s
<1>1. IsFiniteSet(s) /\ Cardinality(s) \in Nat
  BY FS_Subset, FS_CardinalityType
<1>2. Cardinality(s) = 0 <=> s = {}
  BY <1>1, FS_EmptySet
<1>3. \A a \in s : Cardinality(s \ {a}) = Cardinality(s) - 1 /\ s \ {a} \in SUBSET T
  BY <1>1, FS_RemoveElement
<1> QED
  BY <1>1, <1>2, <1>3 DEF Pick

LEMMA SumsFurther ==
  ASSUME NEW f, NEW T, IsFiniteSet(T), NEW n \in Nat, NEW g, SumsTo(g, f, T, n)
  PROVE  \E h : SumsTo(h, f, T, n + 1)
<1> DEFINE Upto(k) == {s \in SUBSET T : Cardinality(s) <= k}
           Value(r, s) == IF s = {} THEN 0 ELSE f[Pick(s)] + r[s \ {Pick(s)}]
           h == [s \in Upto(n + 1) |-> Value(g, s)]
           k == [s \in Upto(n + 1) |-> Value(h, s)]
<1>1. DOMAIN g = Upto(n) /\ \A s \in Upto(n) : g[s] = Value(g, s)
  BY DEF SumsTo
<1>2. ASSUME NEW s \in Upto(n + 1), s # {}
      PROVE  s \ {Pick(s)} \in Upto(n) /\ s \ {Pick(s)} \in Upto(n + 1)
  BY <1>2, PartFacts
<1> HIDE DEF Upto
<1>3. \A s \in Upto(n) : s \in Upto(n + 1)
  BY PartFacts DEF Upto
<1>4. \A s \in Upto(n) : h[s] = g[s]
  <2> HIDE DEF Value
  <2>1. \A s \in Upto(n) : h[s] = Value(g, s)
    BY <1>3
  <2> HIDE DEF h
  <2> QED
    BY <1>1, <2>1
<1>5. ASSUME NEW s \in Upto(n + 1)
      PROVE  Value(g, s) = Value(h, s)
  <2> HIDE DEF h
  <2> QED
    BY <1>2, <1>4
<1>6. h = k
  <2> HIDE DEF Value
  <2> QED
    BY <1>5
<1>7. SumsTo(h, f, T, n + 1)
  <2>1. h = [s \in Upto(n + 1) |-> Value(h, s)]
    BY <1>6
  <2> HIDE DEF h
  <2> QED
    BY <2>1 DEF SumsTo, Upto
<1> QED
  BY <1>7

LEMMA SumsExist ==
  ASSUME NEW f, NEW T, IsFiniteSet(T)
  PROVE  \E g : Sums(g, f, T)
<1> DEFINE Bad == {n \in Nat : ~ \E g : SumsTo(g, f, T, n)}
<1>1. ASSUME Bad # {}
      PROVE  FALSE
  <2>1. PICK b \in Bad : \A x \in Bad : b <= x
    <3>1. Bad \in SUBSET Nat
      OBVIOUS
    <3> HIDE DEF Bad
    <3> QED
      BY <1>1, <3>1, LeastIs
  <2>2. b \in Nat /\ ~ \E g : SumsTo(g, f, T, b)
    BY <2>1
  <2>3. CASE b = 0
    <3> DEFINE g == [s \in {{}} |-> 0]
               Small == {s \in SUBSET T : Cardinality(s) <= 0}
    <3>1. Small = {{}}
      BY PartFacts
    <3> HIDE DEF Small
    <3>2. g = [s \in Small |-> IF s = {} THEN 0 ELSE f[Pick(s)] + g[s \ {Pick(s)}]]
      BY <3>1
    <3> HIDE DEF g
    <3>3. SumsTo(g, f, T, 0)
      BY <3>2 DEF SumsTo, Small
    <3> QED
      BY <2>2, <2>3, <3>3
  <2>4. CASE b # 0
    <3>1. b - 1 \in Nat /\ ~ (b <= b - 1) /\ (b - 1) + 1 = b
      BY <2>2, <2>4
    <3>2. b - 1 \notin Bad
      BY <2>1, <3>1
    <3>3. PICK g : SumsTo(g, f, T, b - 1)
      BY <3>1, <3>2
    <3> QED
      BY <2>2, <3>1, <3>3, SumsFurther
  <2> QED
    BY <2>3, <2>4
<1>2. Cardinality(T) \in Nat
  BY FS_CardinalityType
<1>3. PICK g : SumsTo(g, f, T, Cardinality(T))
  BY <1>1, <1>2
<1>4. {s \in SUBSET T : Cardinality(s) <= Cardinality(T)} = SUBSET T
  <2>1. \A s \in SUBSET T : Cardinality(s) <= Cardinality(T)
    BY FS_Subset
  <2> QED
    BY <2>1
<1>5. Sums(g, f, T)
  BY <1>3, <1>4 DEF SumsTo, Sums
<1> QED
  BY <1>5

\* The order in which the objects are taken does not matter.
LEMMA SumsTakeOut ==
  ASSUME NEW T \in SUBSET Addrs, IsFiniteSet(T), NEW f \in [Addrs -> Nat], NEW g, Sums(g, f, T),
         NEW s \in SUBSET T
  PROVE  /\ g[s] \in Nat
         /\ s = {} => g[s] = 0
         /\ \A a \in s : g[s] = f[a] + g[s \ {a}]
<1> DEFINE Good(r) == /\ g[r] \in Nat
                      /\ r = {} => g[r] = 0
                      /\ \A a \in r : g[r] = f[a] + g[r \ {a}]
           Bad == {n \in Nat : \E r \in SUBSET T : Cardinality(r) = n /\ ~Good(r)}
<1>1. \A r \in SUBSET T : g[r] = IF r = {} THEN 0 ELSE f[Pick(r)] + g[r \ {Pick(r)}]
  BY DEF Sums
<1>2. ASSUME Bad # {}
      PROVE  FALSE
  <2>1. PICK b \in Bad : \A x \in Bad : b <= x
    <3>1. Bad \in SUBSET Nat
      OBVIOUS
    <3> HIDE DEF Bad
    <3> QED
      BY <1>2, <3>1, LeastIs
  <2>2. PICK r \in SUBSET T : Cardinality(r) = b /\ ~Good(r)
    BY <2>1
  <2>3. ASSUME NEW q \in SUBSET T, Cardinality(q) = b - 1
        PROVE  Good(q)
    <3>1. Cardinality(q) \in Nat /\ ~ (b <= Cardinality(q)) /\ b \in Nat
      BY <2>1, <2>3, PartFacts
    <3>2. Cardinality(q) \notin Bad
      BY <2>1, <3>1
    <3> HIDE DEF Good
    <3> QED
      BY <3>1, <3>2
  <2>4. CASE r = {}
    <3>1. g[r] = 0
      BY <1>1, <2>4
    <3> QED
      BY <2>2, <2>4, <3>1
  <2>5. CASE r # {}
    <3> DEFINE x == Pick(r)
    <3>1. x \in r /\ g[r] = f[x] + g[r \ {x}]
      BY <1>1, <2>5, PartFacts
    <3> HIDE DEF x
    <3>2. Cardinality(r \ {x}) = b - 1 /\ r \ {x} \in SUBSET T
      BY <2>2, <3>1, PartFacts
    <3>3. Good(r \ {x})
      BY <2>3, <3>2
    <3>4. \A a \in r : f[a] \in Nat
      OBVIOUS
    <3>5. g[r] \in Nat
      BY <3>1, <3>3, <3>4
    <3>6. ASSUME NEW a \in r, a # x
          PROVE  g[r] = f[a] + g[r \ {a}]
      <4>1. g[r \ {x}] = f[a] + g[(r \ {x}) \ {a}]
        BY <3>3, <3>6
      <4>2. Good(r \ {a}) /\ r \ {a} \in SUBSET T
        <5>1. Cardinality(r \ {a}) = b - 1 /\ r \ {a} \in SUBSET T
          BY <2>2, PartFacts
        <5> HIDE DEF Good
        <5> QED
          BY <2>3, <5>1
      <4>3. g[r \ {a}] = f[x] + g[(r \ {a}) \ {x}]
        BY <3>1, <3>6, <4>2
      <4>4. (r \ {a}) \ {x} = (r \ {x}) \ {a}
        OBVIOUS
      <4>5. g[(r \ {x}) \ {a}] \in Nat
        <5> DEFINE q == (r \ {x}) \ {a}
        <5>1. g[q] = IF q = {} THEN 0 ELSE f[Pick(q)] + g[q \ {Pick(q)}]
          BY <1>1
        <5>2. g[r \ {x}] \in Nat /\ f[a] \in Nat
          BY <3>3, <3>4
        <5>3. Cardinality(q) \in Nat /\ ~ (b <= Cardinality(q)) /\ q \in SUBSET T
          <6>1. Cardinality(q) = Cardinality(r \ {x}) - 1
            BY <3>2, <3>6, PartFacts
          <6>2. b \in Nat /\ Cardinality(q) \in Nat
            BY <2>1, PartFacts
          <6> QED
            BY <3>2, <6>1, <6>2
        <5>4. Cardinality(q) \notin Bad
          BY <2>1, <5>3
        <5>5. Good(q)
          <6> HIDE DEF Good, q
          <6> QED
            BY <5>3, <5>4
        <5> QED
          BY <5>5
      <4>6. f[a] \in Nat /\ f[x] \in Nat
        BY <3>1, <3>4
      <4> DEFINE both == g[(r \ {x}) \ {a}]
      <4>7. g[r \ {x}] = f[a] + both /\ g[r \ {a}] = f[x] + both /\ both \in Nat
        BY <4>1, <4>3, <4>4, <4>5
      <4>8. g[r] = f[x] + g[r \ {x}]
        BY <3>1
      <4> HIDE DEF both
      <4>9. g[r] = f[x] + (f[a] + both) /\ f[a] + g[r \ {a}] = f[a] + (f[x] + both)
        BY <4>7, <4>8
      <4>10. f[x] + (f[a] + both) = f[a] + (f[x] + both)
        BY <4>6, <4>7
      <4> QED
        BY <4>9, <4>10
    <3>7. Good(r)
      BY <2>5, <3>1, <3>5, <3>6
    <3> QED
      BY <2>2, <3>7
  <2> QED
    BY <2>4, <2>5
<1>3. Cardinality(s) \in Nat
  BY PartFacts
<1>4. Good(s)
  <2> HIDE DEF Good
  <2> QED
    BY <1>2, <1>3
<1> QED
  BY <1>4

\* A sum depends on the bytes of its objects only.
LEMMA SumsAgree ==
  ASSUME NEW T, IsFiniteSet(T), NEW U, NEW f, NEW e, NEW g, NEW h, Sums(g, f, T), Sums(h, e, U),
         NEW s \in SUBSET T, s \in SUBSET U, \A a \in s : f[a] = e[a]
  PROVE  g[s] = h[s]
<1> DEFINE Bad == {n \in Nat : \E r \in SUBSET s : Cardinality(r) = n /\ g[r] # h[r]}
<1>1. ASSUME NEW r \in SUBSET s
      PROVE  /\ g[r] = IF r = {} THEN 0 ELSE f[Pick(r)] + g[r \ {Pick(r)}]
             /\ h[r] = IF r = {} THEN 0 ELSE e[Pick(r)] + h[r \ {Pick(r)}]
  <2>1. r \in SUBSET T /\ r \in SUBSET U
    OBVIOUS
  <2> QED
    BY <2>1 DEF Sums
<1>2. ASSUME Bad # {}
      PROVE  FALSE
  <2>1. PICK b \in Bad : \A x \in Bad : b <= x
    <3>1. Bad \in SUBSET Nat
      OBVIOUS
    <3> HIDE DEF Bad
    <3> QED
      BY <1>2, <3>1, LeastIs
  <2>2. PICK r \in SUBSET s : Cardinality(r) = b /\ g[r] # h[r]
    BY <2>1
  <2>3. r # {}
    BY <1>1, <2>2
  <2>4. Pick(r) \in r /\ Cardinality(r \ {Pick(r)}) = b - 1 /\ b \in Nat /\ b # 0
    <3>1. r \in SUBSET T
      OBVIOUS
    <3> QED
      BY <2>2, <2>3, <3>1, PartFacts
  <2>5. b - 1 \in Nat /\ ~ (b <= b - 1)
    BY <2>4
  <2>6. g[r \ {Pick(r)}] = h[r \ {Pick(r)}]
    BY <2>1, <2>4, <2>5
  <2>7. f[Pick(r)] = e[Pick(r)]
    BY <2>4
  <2> QED
    BY <1>1, <2>2, <2>3, <2>6, <2>7
<1>3. Cardinality(s) \in Nat
  BY PartFacts
<1> QED
  BY <1>2, <1>3

\* What the sum is: nothing for no object, and one object more for each.
LEMMA BytesOfOK ==
  ASSUME NEW T \in SUBSET Addrs, IsFiniteSet(T), NEW f \in [Addrs -> Nat]
  PROVE  /\ BytesOf(f, T) \in Nat
         /\ T = {} => BytesOf(f, T) = 0
         /\ \A a \in T : BytesOf(f, T) = f[a] + BytesOf(f, T \ {a})
<1> DEFINE g == CHOOSE g : Sums(g, f, T)
<1>1. Sums(g, f, T) /\ BytesOf(f, T) = g[T]
  BY SumsExist, BytesOfIs
<1> HIDE DEF g
<1>2. g[T] \in Nat /\ (T = {} => g[T] = 0) /\ \A a \in T : g[T] = f[a] + g[T \ {a}]
  <2> DEFINE s == T
  <2>1. s \in SUBSET T
    OBVIOUS
  <2> HIDE DEF s
  <2>2. g[s] \in Nat
    BY <1>1, <2>1, SumsTakeOut
  <2>3. s = {} => g[s] = 0
    BY <1>1, <2>1, SumsTakeOut
  <2>4. \A a \in s : g[s] = f[a] + g[s \ {a}]
    BY <1>1, <2>1, SumsTakeOut
  <2> QED
    BY <2>2, <2>3, <2>4 DEF s
<1>3. ASSUME NEW a \in T
      PROVE  BytesOf(f, T \ {a}) = g[T \ {a}]
  <2> DEFINE U == T \ {a}
             h == CHOOSE h : Sums(h, f, U)
  <2>1. IsFiniteSet(U)
    BY FS_Subset
  <2>2. Sums(h, f, U) /\ BytesOf(f, U) = h[U]
    BY <2>1, SumsExist, BytesOfIs
  <2>3. U \in SUBSET T /\ U \in SUBSET U
    OBVIOUS
  <2> HIDE DEF h, U
  <2>4. g[U] = h[U]
    BY <1>1, <2>2, <2>3, SumsAgree
  <2> QED
    BY <2>2, <2>4 DEF U
<1> QED
  BY <1>1, <1>2, <1>3

LEMMA BytesOfSame ==
  ASSUME NEW T \in SUBSET Addrs, IsFiniteSet(T), NEW f, NEW e, \A a \in T : f[a] = e[a]
  PROVE  BytesOf(f, T) = BytesOf(e, T)
<1>1. PICK g : Sums(g, f, T) /\ BytesOf(f, T) = g[T]
  BY SumsExist, BytesOfIs
<1>2. PICK h : Sums(h, e, T) /\ BytesOf(e, T) = h[T]
  BY SumsExist, BytesOfIs
<1>3. T \in SUBSET T
  OBVIOUS
<1>4. g[T] = h[T]
  BY <1>1, <1>2, <1>3, SumsAgree
<1> QED
  BY <1>1, <1>2, <1>4

\* The bytes counted are those of the objects on the list.
BytesOK(m) == m.stats.bytesAllocated - m.stats.bytesFreed = BytesOf(m.size, m.tracked)

LEMMA ListFacts ==
  ASSUME NEW m, ManagerOK(m)
  PROVE  /\ m \in ManagerType /\ m.tracked \in SUBSET Addrs /\ IsFiniteSet(m.tracked)
         /\ m.size \in [Addrs -> Nat] /\ BytesOf(m.size, m.tracked) \in Nat
         /\ m.stats.bytesAllocated \in Nat /\ m.stats.bytesFreed \in Nat
<1>1. /\ m \in ManagerType /\ m.tracked \in SUBSET Addrs /\ IsFiniteSet(m.tracked)
      /\ m.size \in [Addrs -> Nat] /\ m.stats \in StatsType
  BY DEF ManagerOK, CountFor, ManagerType
<1>2. BytesOf(m.size, m.tracked) \in Nat
  BY <1>1, BytesOfOK
<1> QED
  BY <1>1, <1>2 DEF StatsType

\* bread_memory_alloc counts the bytes of the new object.
LEMMA AllocatedBytes ==
  ASSUME NEW m, ManagerOK(m), BytesOK(m), NEW bytes \in Nat, NEW place \in Placements(m, bytes)
  PROVE  BytesOK(Allocated(m, place, bytes))
<1> DEFINE r == Allocated(m, place, bytes)
           a == place.at
           T == m.tracked
<1>1. /\ m \in ManagerType /\ T \in SUBSET Addrs /\ IsFiniteSet(T) /\ m.size \in [Addrs -> Nat]
      /\ BytesOf(m.size, T) \in Nat /\ m.stats.bytesAllocated \in Nat /\ m.stats.bytesFreed \in Nat
  BY ListFacts
<1>2. a \in Addrs /\ a \notin T
  BY PlacementOK DEF ManagerOK, HeapFor
<1>3. r.tracked = T \cup {a} /\ r.size = [m.size EXCEPT ![a] = bytes]
  BY <1>1 DEF Allocated, ManagerType
<1>4. /\ r.stats.bytesAllocated = m.stats.bytesAllocated + bytes
      /\ r.stats.bytesFreed = m.stats.bytesFreed
  <2>1. r.stats = CountBytes(CountTrack(m.stats), bytes, 0) /\ m.stats \in StatsType
    BY <1>1 DEF Allocated, ManagerType
  <2>2. /\ CountTrack(m.stats).bytesAllocated = m.stats.bytesAllocated
        /\ CountTrack(m.stats).bytesFreed = m.stats.bytesFreed
        /\ DOMAIN CountTrack(m.stats) = DOMAIN m.stats
        /\ DOMAIN m.stats = {"allocations", "deallocations", "current", "peak", "bytesAllocated", "bytesFreed"}
    BY <2>1 DEF CountTrack, StatsType
  <2> DEFINE u == CountTrack(m.stats)
  <2> HIDE DEF u
  <2>3. /\ CountBytes(u, bytes, 0).bytesAllocated = u.bytesAllocated + bytes
        /\ CountBytes(u, bytes, 0).bytesFreed = u.bytesFreed + 0
    BY <2>2 DEF CountBytes, u
  <2> QED
    BY <1>1, <2>1, <2>2, <2>3 DEF u
<1> DEFINE U == T \cup {a}
           f == r.size
<1>5. f \in [Addrs -> Nat] /\ f[a] = bytes /\ (\A x \in T : f[x] = m.size[x])
  BY <1>1, <1>2, <1>3
<1>6. U \in SUBSET Addrs /\ IsFiniteSet(U) /\ a \in U /\ U \ {a} = T
  BY <1>1, <1>2, FS_AddElement
<1> HIDE DEF r, U, T, f
<1>7. BytesOf(f, U) = f[a] + BytesOf(f, U \ {a})
  BY <1>5, <1>6, BytesOfOK
<1>8. BytesOf(f, T) = BytesOf(m.size, T)
  BY <1>1, <1>5, BytesOfSame
<1>9. BytesOf(f, U) = bytes + BytesOf(m.size, T)
  BY <1>5, <1>6, <1>7, <1>8
<1>10. m.stats.bytesAllocated - m.stats.bytesFreed = BytesOf(m.size, T)
  BY DEF BytesOK, T
<1>11. r.stats.bytesAllocated - r.stats.bytesFreed = BytesOf(f, U)
  BY <1>1, <1>4, <1>9, <1>10
<1> QED
  BY <1>3, <1>11 DEF BytesOK, r, U, f

\* bread_memory_free counts out the bytes of the object.
LEMMA FreedBytes ==
  ASSUME NEW m, ManagerOK(m), BytesOK(m), NEW a \in m.tracked
  PROVE  BytesOK(Freed([m EXCEPT !.refcount[a] = @ - 1], a))
<1> DEFINE d == [m EXCEPT !.refcount[a] = @ - 1]
           r == Freed(d, a)
           T == m.tracked
           U == T \ {a}
           f == r.size
<1>1. /\ m \in ManagerType /\ T \in SUBSET Addrs /\ IsFiniteSet(T) /\ m.size \in [Addrs -> Nat]
      /\ BytesOf(m.size, T) \in Nat /\ m.stats.bytesAllocated \in Nat /\ m.stats.bytesFreed \in Nat
      /\ m.stats \in StatsType /\ a \in Addrs
  BY ListFacts DEF ManagerType
<1>2. /\ d \in ManagerType /\ d.tracked = T /\ d.size = m.size /\ d.stats = m.stats
  <2>1. m \in ManagerType /\ m.refcount[a] - 1 \in Nat /\ a \in Addrs
    BY <1>1 DEF ManagerOK, RefFor, ManagerType
  <2> QED
    BY <2>1 DEF ManagerType
<1> HIDE DEF d
<1>3. r.tracked = U /\ r.size = [m.size EXCEPT ![a] = 0] /\ r.stats = CountUntrack(m.stats, m.size[a])
  BY <1>2 DEF Freed, ManagerType
<1>4. /\ r.stats.bytesAllocated = m.stats.bytesAllocated
      /\ r.stats.bytesFreed = m.stats.bytesFreed + m.size[a]
  BY <1>1, <1>3 DEF CountUntrack, StatsType
<1>5. \A x \in U : f[x] = m.size[x]
  BY <1>1, <1>3
<1>6. U \in SUBSET Addrs /\ IsFiniteSet(U) /\ a \in T /\ m.size[a] \in Nat
  BY <1>1, FS_Subset
<1>7. BytesOf(m.size, T) = m.size[a] + BytesOf(m.size, T \ {a})
  BY <1>1, <1>6, BytesOfOK
<1>8. BytesOf(m.size, U) \in Nat
  BY <1>1, <1>6, BytesOfOK
<1> HIDE DEF r, f
<1>9. BytesOf(f, U) = BytesOf(m.size, U)
  BY <1>5, <1>6, BytesOfSame
<1>10. m.stats.bytesAllocated - m.stats.bytesFreed = BytesOf(m.size, T)
  BY DEF BytesOK
<1>11. r.stats.bytesAllocated - r.stats.bytesFreed = BytesOf(f, U)
  <2> HIDE DEF T
  <2> QED
    BY <1>1, <1>4, <1>6, <1>7, <1>8, <1>9, <1>10
<1> QED
  BY <1>3, <1>11 DEF BytesOK, r, f, d

\* bread_memory_realloc counts the bytes by which the object grows or shrinks.
LEMMA MovedBytes ==
  ASSUME NEW m, ManagerOK(m), BytesOK(m), NEW old \in m.tracked, NEW bytes \in Nat,
         NEW place \in MovePlacements(m, old, bytes)
  PROVE  BytesOK(Moved(m, old, place, bytes))
<1> DEFINE r  == Moved(m, old, place, bytes)
           at == place.at
           T  == m.tracked
           U  == T \ {old}
           V  == U \cup {at}
           f  == r.size
           was == m.size[old]
           x == IF bytes > was THEN bytes - was ELSE 0
           y == IF bytes < was THEN was - bytes ELSE 0
<1>1. /\ m \in ManagerType /\ T \in SUBSET Addrs /\ IsFiniteSet(T) /\ m.size \in [Addrs -> Nat]
      /\ BytesOf(m.size, T) \in Nat /\ m.stats.bytesAllocated \in Nat /\ m.stats.bytesFreed \in Nat
      /\ m.stats \in StatsType /\ old \in Addrs
  BY ListFacts DEF ManagerType
<1>2. at \in Addrs /\ at \notin U
  BY MovedPlace
<1>3. /\ r.tracked = V /\ r.size = [[m.size EXCEPT ![old] = 0] EXCEPT ![at] = bytes]
      /\ r.stats = CountBytes(m.stats, x, y)
  BY <1>1 DEF Moved, ManagerType
<1>4. was \in Nat /\ x \in Nat /\ y \in Nat /\ was + x = bytes + y
  BY <1>1
<1>5. f \in [Addrs -> Nat] /\ f[at] = bytes /\ \A z \in U : f[z] = m.size[z]
  BY <1>1, <1>2, <1>3
<1>6. U \in SUBSET Addrs /\ IsFiniteSet(U) /\ old \in T
  BY <1>1, FS_Subset
<1>7. V \in SUBSET Addrs /\ IsFiniteSet(V) /\ at \in V /\ V \ {at} = U
  BY <1>2, <1>6, FS_AddElement
<1> HIDE DEF r, at, x, y, f
<1>8. BytesOf(m.size, T) = m.size[old] + BytesOf(m.size, T \ {old}) /\ BytesOf(m.size, U) \in Nat
  BY <1>1, <1>6, BytesOfOK
<1>9. BytesOf(f, U) = BytesOf(m.size, U)
  BY <1>5, <1>6, BytesOfSame
<1> HIDE DEF V
<1>10. BytesOf(f, V) = f[at] + BytesOf(f, V \ {at})
  BY <1>5, <1>7, BytesOfOK
<1>11. BytesOf(m.size, T) = was + BytesOf(m.size, U) /\ BytesOf(f, V) = bytes + BytesOf(m.size, U)
  BY <1>5, <1>7, <1>8, <1>9, <1>10
<1>12. /\ r.stats.bytesAllocated = m.stats.bytesAllocated + x
       /\ r.stats.bytesFreed = m.stats.bytesFreed + y
  BY <1>1, <1>3 DEF CountBytes, StatsType
<1>13. m.stats.bytesAllocated - m.stats.bytesFreed = BytesOf(m.size, T)
  BY DEF BytesOK
<1> HIDE DEF T, U, was
<1>14. r.stats.bytesAllocated - r.stats.bytesFreed = BytesOf(f, V)
  BY <1>1, <1>4, <1>8, <1>11, <1>12, <1>13
<1> QED
  BY <1>3, <1>14 DEF BytesOK, r, f

\* A call that ends in a manager whose bytes are counted.
LEMMA BecomeBytes ==
  ASSUME NEW m, m \in ManagerType, BytesOK(m), Become(m)
  PROVE  BytesOK(Manager)'
<1>1. m = [tracked |-> m.tracked, size |-> m.size, refcount |-> m.refcount, pool |-> m.pool,
           heapUsed |-> m.heapUsed, stats |-> m.stats, gc |-> m.gc]
  BY DEF ManagerType
<1>2. Manager' = m
  BY <1>1 DEF Become, Manager, ReadyStats, ReadyGc
<1> QED
  BY <1>2

\* Reference counts, settings and collections concern no byte.
LEMMA SameBytes ==
  ASSUME NEW m, BytesOK(m), NEW r, r.stats = m.stats, r.size = m.size, r.tracked = m.tracked
  PROVE  BytesOK(r)
  BY DEF BytesOK

LEMMA NoBytes ==
  ASSUME NEW m, m.stats = ZeroStats, m.tracked = {}, m.size \in [Addrs -> Nat]
  PROVE  BytesOK(m)
<1> DEFINE none == {}
<1>1. none \in SUBSET Addrs /\ IsFiniteSet(none) /\ none = {}
  BY FS_EmptySet
<1> HIDE DEF none
<1>2. BytesOf(m.size, none) = 0
  BY <1>1, BytesOfOK
<1> QED
  BY <1>1, <1>2 DEF BytesOK, ZeroStats

\* No call loses count of a byte.
LEMMA BytesStep == IInv /\ BytesOK(Manager) /\ [Next]_vars => BytesOK(Manager)'
<1> SUFFICES ASSUME IInv, BytesOK(Manager), [Next]_vars PROVE BytesOK(Manager)'
  OBVIOUS
<1>0. /\ ManagerOK(Manager) /\ Manager \in ManagerType
      /\ Manager.tracked = tracked /\ Manager.refcount = refcount /\ Manager.gc = ReadyGc
      /\ refcount \in [Addrs -> Nat] /\ tracked \subseteq Addrs
  BY DEF IInv, TypeOK, Manager, ManagerOK, ManagerType
<1>a. ASSUME NEW m, NEW marked, ManagerOK(m), BytesOK(m)
      PROVE  BytesOK(Collected(m, marked)) /\ Collected(m, marked) \in ManagerType
  <2> DEFINE r == [m EXCEPT !.gc = AfterCollection(@, 0)]
  <2>1. m \in ManagerType
    BY <1>a DEF ManagerOK
  <2>2. r.stats = m.stats /\ r.size = m.size /\ r.tracked = m.tracked
    BY <2>1 DEF ManagerType
  <2>3. Collected(m, marked) = r
    BY <1>a, CollectedIs
  <2>4. ManagerOK(Collected(m, marked))
    BY <1>a, CollectedOK
  <2> HIDE DEF r
  <2>5. BytesOK(r)
    BY <1>a, <2>2, SameBytes
  <2> QED
    BY <2>3, <2>4, <2>5 DEF ManagerOK
<1>b. ASSUME Abort
      PROVE  BytesOK(Manager)'
  <2>1. Manager' = Manager
    BY <1>b DEF Abort, Manager, ReadyStats, ReadyGc
  <2> QED
    BY <2>1
<1>c. ASSUME NEW g, Become([Manager EXCEPT !.gc = g]), g \in GcType
      PROVE  BytesOK(Manager)'
  <2> DEFINE r == [Manager EXCEPT !.gc = g]
  <2>1. r \in ManagerType /\ r.stats = Manager.stats /\ r.size = Manager.size /\ r.tracked = Manager.tracked
    BY <1>0, <1>c DEF ManagerType
  <2>2. Become(r)
    BY <1>c
  <2> HIDE DEF r
  <2> QED
    BY <2>1, <2>2, SameBytes, BecomeBytes
<1>1. ASSUME NEW bytes \in Sizes, Alloc(bytes)
      PROVE  BytesOK(Manager)'
  <2>1. bytes \in Nat
    BY PoolAssumption
  <2>2. PICK place \in Placements(Manager, bytes) :
          LET m == Allocated(Manager, place, bytes)
          IN  Become(m) \/ \E marked : Become(Collected(m, marked))
    BY <1>1 DEF Alloc
  <2> DEFINE m == Allocated(Manager, place, bytes)
  <2>3. ManagerOK(m) /\ BytesOK(m) /\ m \in ManagerType
    <3>1. ManagerOK(m) /\ BytesOK(m)
      BY <1>0, <2>1, AllocatedOK, AllocatedBytes
    <3> QED
      BY <3>1 DEF ManagerOK
  <2>4. Become(m) \/ \E marked : Become(Collected(m, marked))
    BY <2>2
  <2> HIDE DEF m
  <2> QED
    BY <1>a, <2>3, <2>4, BecomeBytes
<1>2. ASSUME NEW bytes \in Sizes, AllocFails(bytes)
      PROVE  BytesOK(Manager)'
  BY <1>2, <1>b DEF AllocFails
<1>3. ASSUME NEW a \in Addrs, NEW bytes \in Sizes, Realloc(a, bytes)
      PROVE  BytesOK(Manager)'
  <2>1. bytes \in Nat /\ a \in Manager.tracked
    BY <1>0, <1>3, PoolAssumption DEF Realloc
  <2>2. PICK place \in MovePlacements(Manager, a, bytes) : Become(Moved(Manager, a, place, bytes))
    BY <1>3 DEF Realloc
  <2> DEFINE m == Moved(Manager, a, place, bytes)
  <2>3. ManagerOK(m) /\ BytesOK(m)
    BY <1>0, <2>1, MovedOK, MovedBytes
  <2>4. Become(m)
    BY <2>2
  <2> HIDE DEF m
  <2> QED
    BY <2>3, <2>4, BecomeBytes DEF ManagerOK
<1>4. ASSUME NEW a \in Addrs, NEW bytes \in Sizes, ReallocFails(a, bytes)
      PROVE  BytesOK(Manager)'
  BY <1>4, <1>b DEF ReallocFails
<1>d. ASSUME NEW a \in tracked, NEW n \in Nat, Become([Manager EXCEPT !.refcount[a] = n])
      PROVE  BytesOK(Manager)'
  <2> DEFINE r == [Manager EXCEPT !.refcount[a] = n]
  <2>1. r \in ManagerType /\ r.stats = Manager.stats /\ r.size = Manager.size /\ r.tracked = Manager.tracked
    BY <1>0 DEF ManagerType
  <2>2. Become(r)
    BY <1>d
  <2> HIDE DEF r
  <2> QED
    BY <2>1, <2>2, SameBytes, BecomeBytes
<1>5. ASSUME NEW a \in Addrs, Retain(a)
      PROVE  BytesOK(Manager)'
  <2>1. CASE Abort
    BY <1>b, <2>1
  <2>2. CASE Become([Manager EXCEPT !.refcount[a] = @ + 1])
    <3>1. Become([Manager EXCEPT !.refcount[a] = refcount[a] + 1])
      BY <1>0, <2>2
    <3>2. a \in tracked /\ refcount[a] + 1 \in Nat
      BY <1>0, <1>5 DEF Retain
    <3> QED
      BY <1>d, <3>1, <3>2
  <2> QED
    BY <1>5, <2>1, <2>2 DEF Retain
<1>6. ASSUME NEW a \in Addrs, Release(a)
      PROVE  BytesOK(Manager)'
  <2> DEFINE m == [Manager EXCEPT !.refcount[a] = @ - 1]
  <2>1. CASE Abort
    BY <1>b, <2>1
  <2>2. CASE Become(IF m.refcount[a] = 0 THEN Freed(m, a) ELSE m) /\ refcount[a] # 0
    <3>1. a \in tracked /\ a \in Manager.tracked /\ refcount[a] - 1 \in Nat
      BY <1>0, <1>6, <2>2 DEF Release
    <3>2. m = [Manager EXCEPT !.refcount[a] = refcount[a] - 1] /\ m.refcount[a] = refcount[a] - 1
      BY <1>0, <3>1 DEF Manager
    <3>3. CASE refcount[a] = 1
      <4>1. ManagerOK(Freed(m, a)) /\ BytesOK(Freed(m, a))
        BY <1>0, <3>1, <3>3, FreedOK, FreedBytes
      <4>2. Become(Freed(m, a))
        BY <2>2, <3>2, <3>3
      <4>3. Freed(m, a) \in ManagerType
        BY <4>1 DEF ManagerOK
      <4> HIDE DEF m
      <4> QED
        BY <4>1, <4>2, <4>3, BecomeBytes
    <3>4. CASE refcount[a] # 1
      <4>1. m.refcount[a] # 0
        BY <1>0, <3>1, <3>2, <3>4
      <4>2. Become([Manager EXCEPT !.refcount[a] = refcount[a] - 1])
        BY <2>2, <3>2, <4>1
      <4> QED
        BY <1>d, <3>1, <4>2
    <3> QED
      BY <3>3, <3>4
  <2> QED
    BY <1>6, <2>1, <2>2 DEF Release
<1>7. CASE CollectCycles
  <2>1. PICK marked : Become(Collected(Manager, marked))
    BY <1>7 DEF CollectCycles
  <2> QED
    BY <1>0, <1>a, <2>1, BecomeBytes
<1>8. ASSUME NEW t \in Thresholds, SetThreshold(t)
      PROVE  BytesOK(Manager)'
  <2> DEFINE g == [ReadyGc EXCEPT !.enabled = t > 0, !.threshold = IF t > 0 THEN t ELSE 0]
  <2>1. (t > 0) \in BOOLEAN /\ (IF t > 0 THEN t ELSE 0) \in Nat /\ ReadyGc \in GcType
    BY <1>0, GcAssumption DEF ManagerType
  <2>2. g \in GcType
    BY <2>1 DEF GcType
  <2>3. Become([Manager EXCEPT !.gc = g])
    BY <1>0, <1>8 DEF SetThreshold, Manager
  <2> HIDE DEF g
  <2> QED
    BY <1>c, <2>2, <2>3
<1>9. ASSUME NEW t \in ByteThresholds, SetByteThreshold(t)
      PROVE  BytesOK(Manager)'
  <2> DEFINE g == [ReadyGc EXCEPT !.byteThreshold = t]
  <2>1. g \in GcType
    BY <1>0, GcAssumption DEF ManagerType, GcType
  <2>2. Become([Manager EXCEPT !.gc = g])
    BY <1>0, <1>9 DEF SetByteThreshold, Manager
  <2> HIDE DEF g
  <2> QED
    BY <1>c, <2>1, <2>2
<1>10. ASSUME NEW on \in BOOLEAN, EnableAutoGc(on)
      PROVE  BytesOK(Manager)'
  <2> DEFINE g == [ReadyGc EXCEPT !.auto = on]
  <2>1. g \in GcType
    BY <1>0 DEF ManagerType, GcType
  <2>2. Become([Manager EXCEPT !.gc = g])
    BY <1>0, <1>10 DEF EnableAutoGc, Manager
  <2> HIDE DEF g
  <2> QED
    BY <1>c, <2>1, <2>2
<1>11. CASE Cleanup
  <2>1. Manager'.stats = ZeroStats /\ Manager'.tracked = {} /\ Manager'.size \in [Addrs -> Nat]
    BY <1>11 DEF Cleanup, Manager, ReadyStats
  <2> QED
    BY <2>1, NoBytes
<1>13. ASSUME NEW a \in HeapAddrs, RetainForgotten(a) \/ ReleaseForgotten(a)
       PROVE  BytesOK(Manager)'
  <2>1. UNCHANGED <<inited, tracked, size, stats>>
    BY <1>13 DEF RetainForgotten, ReleaseForgotten, Abort
  <2>2. Manager'.stats = Manager.stats /\ Manager'.size = Manager.size
        /\ Manager'.tracked = Manager.tracked
    BY <2>1 DEF Manager, ReadyStats
  <2> QED
    BY <2>2, SameBytes
<1>12. CASE UNCHANGED vars
  <2>1. Manager' = Manager
    BY <1>12 DEF vars, Manager, ReadyStats, ReadyGc
  <2> QED
    BY <2>1
<1> QED
  BY <1>1, <1>2, <1>3, <1>4, <1>5, <1>6, <1>7, <1>8, <1>9, <1>10, <1>11, <1>12, <1>13
     DEF Next

\* The bytes allocated and not freed are those of the nodes on the list, whatever
\* realloc grows, shrinks and moves between the pool and malloc'd memory.
THEOREM ByteAccountingHolds == Spec => []ByteAccounting
<1>1. Init => BytesOK(Manager)
  <2> SUFFICES ASSUME Init PROVE BytesOK(Manager)
    OBVIOUS
  <2>1. Manager.stats = ZeroStats /\ Manager.tracked = {} /\ Manager.size \in [Addrs -> Nat]
    BY DEF Init, Manager, ReadyStats
  <2> QED
    BY <2>1, NoBytes
<1>2. BytesOK(Manager) => ByteAccounting
  <2> SUFFICES ASSUME BytesOK(Manager), inited
               PROVE  stats.bytesAllocated - stats.bytesFreed = BytesOf(size, tracked)
    BY DEF ByteAccounting, BytesOf
  <2>1. Manager.stats = stats /\ Manager.size = size /\ Manager.tracked = tracked
    BY DEF Manager, ReadyStats
  <2> QED
    BY <2>1 DEF BytesOK
<1>3. IInv /\ BytesOK(Manager) /\ [Next]_vars => BytesOK(Manager)'
  BY BytesStep
<1> QED
  BY <1>1, <1>2, <1>3, Inductive, PTL DEF Spec

-----------------------------------------------------------------------------
(* The collector's triggers.                                               *)

\* A collector that is on has a threshold that objects can be below.
Armed(g) == g.enabled => g.threshold > 0

NothingPending ==
  inited /\ stats'.allocations > stats.allocations /\ ShouldTriggerGc(gc') => gc'.byteThreshold = 0

\* What a call makes of the collector's settings.
LEMMA BecomeArmed ==
  ASSUME NEW m, Become(m), Armed(m.gc)
  PROVE  Armed(ReadyGc)'
  BY DEF Become, ReadyGc

\* A call that allocates nothing leaves nothing pending.
LEMMA NoneAllocated ==
  ASSUME NEW m, IInv, Become(m), m.stats.allocations = ReadyStats.allocations
  PROVE  NothingPending
<1>1. CASE inited
  <2>1. stats'.allocations = stats.allocations /\ stats.allocations \in Nat
    BY <1>1 DEF IInv, TypeOK, StatsType, Become, ReadyStats
  <2> QED
    BY <2>1 DEF NothingPending
<1> QED
  BY <1>1 DEF NothingPending

\* What counting does to the collector's switches.
LEMMA ArmedCount ==
  ASSUME NEW g \in GcType, Armed(g), NEW objects \in Nat, NEW bytes \in Nat
  PROVE  Armed(CountSinceGc(g, objects, bytes)) /\ CountSinceGc(g, objects, bytes) \in GcType
<1>1. /\ CountSinceGc(g, objects, bytes).enabled = g.enabled
      /\ CountSinceGc(g, objects, bytes).threshold = g.threshold
  BY DEF CountSinceGc, GcType
<1> QED
  BY <1>1, SinceGcOK DEF Armed

\* After a collection that freed nothing the counters are below their thresholds.
LEMMA ArmedCollection ==
  ASSUME NEW g \in GcType, Armed(g)
  PROVE  LET r == AfterCollection(g, 0)
         IN  Armed(r) /\ (ShouldTriggerGc(r) => r.byteThreshold = 0)
<1> DEFINE r == AfterCollection(g, 0)
           t == IF 0 < g.threshold \div 10 THEN (g.threshold * 3) \div 2 ELSE g.threshold
<1>1. g.threshold \in Nat /\ g.byteThreshold \in Nat /\ g.enabled \in BOOLEAN
  BY DEF GcType
<1>2. t \in Nat /\ (g.threshold > 0 => t > 0)
  BY <1>1
<1>3. /\ r.enabled = g.enabled /\ r.threshold = t /\ r.byteThreshold = g.byteThreshold
      /\ r.allocs = 0 /\ r.bytes = 0
  BY DEF AfterCollection, GcType
<1> HIDE DEF r, t
<1>4. Armed(r)
  BY <1>2, <1>3 DEF Armed
<1>5. ASSUME ShouldTriggerGc(r)
      PROVE  r.byteThreshold = 0
  <2>1. r.enabled /\ (0 >= t \/ 0 >= g.byteThreshold)
    BY <1>3, <1>5 DEF ShouldTriggerGc
  <2>2. t > 0
    BY <1>2, <1>3, <2>1 DEF Armed
  <2> QED
    BY <1>1, <1>2, <1>3, <2>1, <2>2
<1> QED
  BY <1>4, <1>5 DEF r

\* No call leaves a trigger pending.
LEMMA PendingStep ==
  IInv /\ Armed(ReadyGc) /\ [Next]_vars => Armed(ReadyGc)' /\ NothingPending
<1> SUFFICES ASSUME IInv, Armed(ReadyGc), [Next]_vars PROVE Armed(ReadyGc)' /\ NothingPending
  OBVIOUS
<1>0. /\ ManagerOK(Manager) /\ Manager \in ManagerType
      /\ Manager.stats = ReadyStats /\ ReadyStats \in StatsType
      /\ Manager.refcount = refcount /\ Manager.tracked = tracked /\ Manager.gc = ReadyGc
      /\ ReadyGc \in GcType /\ refcount \in [Addrs -> Nat] /\ stats \in StatsType
  BY DEF IInv, TypeOK, Manager, ManagerOK, ManagerType
<1>a. ASSUME NEW m, Become(m), m.stats.allocations = ReadyStats.allocations, Armed(m.gc)
      PROVE  Armed(ReadyGc)' /\ NothingPending
  BY <1>a, BecomeArmed, NoneAllocated
<1>b. ASSUME UNCHANGED <<inited, stats, gc>>
      PROVE  Armed(ReadyGc)' /\ NothingPending
  <2>1. ReadyGc' = ReadyGc /\ stats.allocations \in Nat
    BY <1>0, <1>b DEF ReadyGc, StatsType
  <2>2. Armed(ReadyGc)'
    BY <2>1
  <2>3. ~ (stats'.allocations > stats.allocations)
    BY <1>b, <2>1
  <2> QED
    BY <2>2, <2>3 DEF NothingPending
<1>c. ASSUME Abort
      PROVE  Armed(ReadyGc)' /\ NothingPending
  BY <1>b, <1>c DEF Abort
<1>d. ASSUME NEW g, Become([Manager EXCEPT !.gc = g]), Armed(g)
      PROVE  Armed(ReadyGc)' /\ NothingPending
  <2> DEFINE r == [Manager EXCEPT !.gc = g]
  <2>1. r.stats = ReadyStats /\ r.gc = g
    BY <1>0 DEF ManagerType
  <2>2. Become(r)
    BY <1>d
  <2> HIDE DEF r
  <2> QED
    BY <1>a, <1>d, <2>1, <2>2
<1>e. ASSUME NEW m, NEW marked, ManagerOK(m)
      PROVE  Collected(m, marked).stats = m.stats /\ Collected(m, marked).gc = AfterCollection(m.gc, 0)
  <2>1. m \in ManagerType
    BY <1>e DEF ManagerOK
  <2>2. /\ [m EXCEPT !.gc = AfterCollection(@, 0)].stats = m.stats
        /\ [m EXCEPT !.gc = AfterCollection(@, 0)].gc = AfterCollection(m.gc, 0)
    BY <2>1 DEF ManagerType
  <2> QED
    BY <1>e, <2>2, CollectedIs
<1>1. ASSUME NEW bytes \in Sizes, Alloc(bytes)
      PROVE  Armed(ReadyGc)' /\ NothingPending
  <2>1. bytes \in Nat
    BY PoolAssumption
  <2>2. PICK place \in Placements(Manager, bytes) :
          LET m == Allocated(Manager, place, bytes)
          IN  IF ShouldTriggerGc(m.gc) THEN \E marked : Become(Collected(m, marked)) ELSE Become(m)
    BY <1>1 DEF Alloc
  <2> DEFINE m == Allocated(Manager, place, bytes)
  <2>3. ManagerOK(m)
    BY <1>0, <2>1, AllocatedOK
  <2>4. Armed(m.gc) /\ m.gc \in GcType
    <3>1. m.gc = CountSinceGc(ReadyGc, 1, bytes)
      BY <1>0 DEF Allocated, ManagerType
    <3> HIDE DEF m
    <3> QED
      BY <1>0, <2>1, <3>1, ArmedCount
  <2>5. IF ShouldTriggerGc(m.gc) THEN \E marked : Become(Collected(m, marked)) ELSE Become(m)
    BY <2>2
  <2> HIDE DEF m
  <2>6. CASE ~ShouldTriggerGc(m.gc) /\ Become(m)
    <3>1. ~ShouldTriggerGc(gc') /\ gc' = m.gc
      BY <2>6 DEF Become
    <3>2. NothingPending
      BY <3>1 DEF NothingPending
    <3> QED
      BY <2>4, <2>6, <3>2, BecomeArmed
  <2>7. CASE \E marked : Become(Collected(m, marked))
    <3>1. PICK marked : Become(Collected(m, marked))
      BY <2>7
    <3> DEFINE r == Collected(m, marked)
    <3>2. r.gc = AfterCollection(m.gc, 0) /\ Become(r)
      BY <1>e, <2>3, <3>1
    <3> HIDE DEF r
    <3>3. Armed(r.gc) /\ (ShouldTriggerGc(r.gc) => r.gc.byteThreshold = 0)
      BY <2>4, <3>2, ArmedCollection
    <3>4. gc' = r.gc
      BY <3>2 DEF Become
    <3>5. NothingPending
      BY <3>3, <3>4 DEF NothingPending
    <3> QED
      BY <3>2, <3>3, <3>5, BecomeArmed
  <2> QED
    BY <2>5, <2>6, <2>7
<1>2. ASSUME NEW bytes \in Sizes, AllocFails(bytes)
      PROVE  Armed(ReadyGc)' /\ NothingPending
  BY <1>2, <1>c DEF AllocFails
<1>3. ASSUME NEW a \in Addrs, NEW bytes \in Sizes, Realloc(a, bytes)
      PROVE  Armed(ReadyGc)' /\ NothingPending
  <2>1. PICK place \in MovePlacements(Manager, a, bytes) : Become(Moved(Manager, a, place, bytes))
    BY <1>3 DEF Realloc
  <2> DEFINE x == IF bytes > size[a] THEN bytes - size[a] ELSE 0
             y == IF bytes < size[a] THEN size[a] - bytes ELSE 0
             m == Moved(Manager, a, place, bytes)
  <2>2. m.stats = CountBytes(ReadyStats, x, y) /\ m.gc = CountSinceGc(ReadyGc, 0, x)
    BY <1>0 DEF Moved, ManagerType, Manager
  <2>3. x \in Nat /\ y \in Nat
    BY PoolAssumption DEF IInv, TypeOK
  <2>4. Become(m)
    BY <2>1
  <2> HIDE DEF x, y, m
  <2>5. CountBytes(ReadyStats, x, y).allocations = ReadyStats.allocations
    BY <1>0, <2>3, CountBytesOK
  <2>6. Armed(CountSinceGc(ReadyGc, 0, x))
    BY <1>0, <2>3, ArmedCount
  <2> QED
    BY <1>a, <2>2, <2>4, <2>5, <2>6
<1>4. ASSUME NEW a \in Addrs, NEW bytes \in Sizes, ReallocFails(a, bytes)
      PROVE  Armed(ReadyGc)' /\ NothingPending
  BY <1>4, <1>c DEF ReallocFails
<1>5. ASSUME NEW a \in Addrs, Retain(a)
      PROVE  Armed(ReadyGc)' /\ NothingPending
  <2>1. CASE Become([Manager EXCEPT !.refcount[a] = @ + 1])
    <3> DEFINE m == [Manager EXCEPT !.refcount[a] = @ + 1]
    <3>1. m.stats = ReadyStats /\ m.gc = ReadyGc
      BY <1>0 DEF ManagerType
    <3>2. Become(m)
      BY <2>1
    <3> HIDE DEF m
    <3> QED
      BY <1>a, <3>1, <3>2
  <2> QED
    BY <1>5, <1>c, <2>1 DEF Retain
<1>6. ASSUME NEW a \in Addrs, Release(a)
      PROVE  Armed(ReadyGc)' /\ NothingPending
  <2> DEFINE m == [Manager EXCEPT !.refcount[a] = @ - 1]
  <2>1. CASE Become(IF m.refcount[a] = 0 THEN Freed(m, a) ELSE m)
    <3>1. m.stats = ReadyStats /\ m.gc = ReadyGc /\ DOMAIN m = DOMAIN Manager
      BY <1>0 DEF ManagerType
    <3>2. DOMAIN Manager = {"tracked", "size", "refcount", "pool", "heapUsed", "stats", "gc"}
      BY <1>0 DEF ManagerType
    <3> DEFINE r == Freed(m, a)
    <3>3. Become(m) \/ Become(r)
      BY <2>1
    <3> HIDE DEF m
    <3>4. r.gc = m.gc /\ r.stats = CountUntrack(m.stats, m.size[a])
      BY <3>1, <3>2 DEF Freed
    <3> HIDE DEF r
    <3>5. CountUntrack(ReadyStats, m.size[a]).allocations = ReadyStats.allocations
      BY <1>0 DEF CountUntrack, StatsType
    <3> QED
      BY <1>a, <3>1, <3>3, <3>4, <3>5
  <2> QED
    BY <1>6, <1>c, <2>1 DEF Release
<1>7. CASE CollectCycles
  <2>1. PICK marked : Become(Collected(Manager, marked))
    BY <1>7 DEF CollectCycles
  <2> DEFINE r == Collected(Manager, marked)
  <2>2. r.stats = ReadyStats /\ r.gc = AfterCollection(ReadyGc, 0)
    BY <1>0, <1>e
  <2>3. Become(r)
    BY <2>1
  <2> HIDE DEF r
  <2>4. Armed(r.gc)
    BY <1>0, <2>2, ArmedCollection
  <2> QED
    BY <1>a, <2>2, <2>3, <2>4
<1>8. ASSUME NEW t \in Thresholds, SetThreshold(t)
      PROVE  Armed(ReadyGc)' /\ NothingPending
  <2> DEFINE g == [ReadyGc EXCEPT !.enabled = t > 0, !.threshold = IF t > 0 THEN t ELSE 0]
  <2>1. g.enabled = (t > 0) /\ g.threshold = IF t > 0 THEN t ELSE 0
    BY <1>0 DEF GcType
  <2>2. Become([Manager EXCEPT !.gc = g])
    BY <1>0, <1>8 DEF SetThreshold, Manager
  <2> HIDE DEF g
  <2>3. Armed(g)
    BY <2>1 DEF Armed
  <2> QED
    BY <1>d, <2>2, <2>3
<1>9. ASSUME NEW t \in ByteThresholds, SetByteThreshold(t)
      PROVE  Armed(ReadyGc)' /\ NothingPending
  <2> DEFINE g == [ReadyGc EXCEPT !.byteThreshold = t]
  <2>1. g.enabled = ReadyGc.enabled /\ g.threshold = ReadyGc.threshold
    BY <1>0 DEF GcType
  <2>2. Become([Manager EXCEPT !.gc = g])
    BY <1>0, <1>9 DEF SetByteThreshold, Manager
  <2> HIDE DEF g
  <2> QED
    BY <1>d, <2>1, <2>2 DEF Armed
<1>10. ASSUME NEW on \in BOOLEAN, EnableAutoGc(on)
      PROVE  Armed(ReadyGc)' /\ NothingPending
  <2> DEFINE g == [ReadyGc EXCEPT !.auto = on]
  <2>1. g.enabled = ReadyGc.enabled /\ g.threshold = ReadyGc.threshold
    BY <1>0 DEF GcType
  <2>2. Become([Manager EXCEPT !.gc = g])
    BY <1>0, <1>10 DEF EnableAutoGc, Manager
  <2> HIDE DEF g
  <2> QED
    BY <1>d, <2>1, <2>2 DEF Armed
<1>11. CASE Cleanup
  <2>1. ReadyGc' = DefaultGc /\ ~ (stats'.allocations > stats.allocations)
    BY <1>0, <1>11 DEF Cleanup, ReadyGc, StatsType
  <2>2. Armed(ReadyGc)'
    BY <2>1 DEF Armed, DefaultGc
  <2> QED
    BY <2>1, <2>2 DEF NothingPending
<1>13. ASSUME NEW a \in HeapAddrs, RetainForgotten(a) \/ ReleaseForgotten(a)
       PROVE  Armed(ReadyGc)' /\ NothingPending
  BY <1>b, <1>13 DEF RetainForgotten, ReleaseForgotten, Abort
<1>12. CASE UNCHANGED vars
  BY <1>b, <1>12 DEF vars
<1> QED
  BY <1>1, <1>2, <1>3, <1>4, <1>5, <1>6, <1>7, <1>8, <1>9, <1>10, <1>11, <1>12, <1>13
     DEF Next

\* With the collector on, no allocation returns with a trigger still pending: the
\* collection it starts resets both counters, and a collector that is on never has
\* a threshold of zero (bread_memory_alloc, bread_memory_collect_cycles,
\* bread_memory_set_cycle_collection_threshold).
THEOREM NoPendingCollectionHolds == Spec => NoPendingCollection
<1>1. Init => Armed(ReadyGc)
  BY DEF Init, ReadyGc, Armed, DefaultGc
<1>2. IInv /\ Armed(ReadyGc) /\ [Next]_vars => Armed(ReadyGc)'
  BY PendingStep
<1>3. IInv /\ Armed(ReadyGc) /\ [Next]_vars =>
        [(inited /\ stats'.allocations > stats.allocations /\ ShouldTriggerGc(gc') =>
            gc'.byteThreshold = 0)]_vars
  BY PendingStep DEF NothingPending
<1> QED
  BY <1>1, <1>2, <1>3, Inductive, PTL DEF Spec, NoPendingCollection
=============================================================================
