----------------------------- MODULE BreadMemory -----------------------------
(***************************************************************************)
(* The memory manager of the BreadLang runtime (src/runtime/memory.c): the *)
(* small-block pool, the list of tracked objects, the reference count in   *)
(* every object header, the statistics, and the counters that start the    *)
(* cycle collector.                                                        *)
(*                                                                         *)
(* An address is a pool block <<chunk, block>> or a malloc'd address out   *)
(* of HeapAddrs.  Chunk c is the c-th that bread_pool_alloc pushed, so the *)
(* head of the chunk list is chunk pool.n.  What an object contains is     *)
(* modelled in BreadHeap; the collector's marking is therefore any set     *)
(* that includes what it must include.                                     *)
(***************************************************************************)
EXTENDS Integers, FiniteSets, FiniteSetsExt

CONSTANTS
  BlocksPerChunk,  \* BREAD_POOL_BLOCKS_PER_CHUNK
  BlockSize,       \* BREAD_POOL_BLOCK_SIZE
  MaxChunks,       \* chunks the system can supply before calloc fails
  HeapAddrs,       \* addresses malloc can return
  Sizes,           \* object sizes that are requested
  MaxRefcount,     \* UINT32_MAX
  Thresholds,      \* arguments of ..._set_cycle_collection_threshold
  ByteThresholds,  \* arguments of ..._set_bytes_threshold
  DefaultThreshold,       \* BREAD_DEFAULT_GC_THRESHOLD
  DefaultByteThreshold,   \* 1 MB
  MaxAllocations,  \* bound: allocations since the manager was initialised
  MaxBytes,        \* bound: bytes allocated since then
  MaxThreshold     \* bound: the collector threshold is not grown beyond

Blocks    == 0 .. (BlocksPerChunk - 1)
PoolAddrs == (1 .. MaxChunks) \X Blocks
Addrs     == PoolAddrs \cup HeapAddrs

ASSUME PoolAssumption ==
  /\ BlocksPerChunk \in Nat \ {0}
  /\ BlockSize \in Nat
  /\ MaxChunks \in Nat
  /\ IsFiniteSet(HeapAddrs)
  /\ HeapAddrs \cap PoolAddrs = {}
  /\ Sizes \subseteq Nat \ {0}
  /\ MaxRefcount \in Nat \ {0}

ASSUME GcAssumption ==
  /\ Thresholds \subseteq Int
  /\ ByteThresholds \subseteq Nat
  /\ DefaultThreshold \in Nat
  /\ DefaultByteThreshold \in Nat
  /\ MaxAllocations \in Nat
  /\ MaxBytes \in Nat
  /\ MaxThreshold \in Nat

VARIABLES
  inited,    \* g_mem_initialized
  aborted,   \* the process has been stopped by a fatal error
  tracked,   \* the objects on g_mem.all_objects
  size,      \* BreadObjectNode.size of a tracked object
  refcount,  \* BreadObjHeader.refcount
  pool,      \* g_mem.small_pool
  heapUsed,  \* addresses malloc'd and not free'd
  forgotten, \* history: malloc'd objects a cleanup took off the list and left
  stats,     \* g_mem.stats
  gc         \* the collector's switches and counters

vars == <<inited, aborted, tracked, size, refcount, pool, heapUsed, forgotten,
          stats, gc>>

-----------------------------------------------------------------------------
(* The pool.  free[c] is the bitmap of chunk c, count[c] its free_count;   *)
(* chunk 0 stands for the missing head of an empty list.                   *)

EmptyPool == [n     |-> 0,
              free  |-> [c \in 0 .. MaxChunks |-> {}],
              count |-> [c \in 0 .. MaxChunks |-> 0]]

HeadFull(p) == p.count[p.n] = 0

\* A fresh chunk, all of its blocks free, becomes the head of the list.
PushChunk(p) == [n     |-> p.n + 1,
                 free  |-> [p.free EXCEPT ![p.n + 1] = Blocks],
                 count |-> [p.count EXCEPT ![p.n + 1] = BlocksPerChunk]]

LowestBit(S) == CHOOSE b \in S : \A other \in S : b <= other

TakeBlock(p) ==
  [p EXCEPT !.free[p.n]  = @ \ {LowestBit(p.free[p.n])},
            !.count[p.n] = @ - 1]

\* bread_pool_alloc looks for a block in the head chunk only, and pushes a new
\* chunk when that one has no block left.
HeadChunk(p) == IF HeadFull(p) THEN PushChunk(p) ELSE p

PoolServes(p) == /\ HeadFull(p) => p.n < MaxChunks
                 /\ HeadChunk(p).free[HeadChunk(p).n] # {}

NextBlock(p) == <<p.n, LowestBit(p.free[p.n])>>

\* It returns NULL when calloc gives it no chunk, or the bitmap has no bit.
PoolAllocFails(p) == HeadFull(p) \/ p.free[p.n] = {}

InPool(p, a) == a \in PoolAddrs /\ a[1] <= p.n

\* Slip: the block's bit is set and the chunk's count forgotten.
PoolFreeUncounted(p, a) == [p EXCEPT !.free[a[1]] = @ \cup {a[2]}]

PoolFree(p, a) ==
  [p EXCEPT !.free[a[1]]  = @ \cup {a[2]},
            !.count[a[1]] = @ + 1]

-----------------------------------------------------------------------------
(* Statistics and collector counters.                                      *)

ZeroStats == [allocations   |-> 0, deallocations |-> 0, current |-> 0,
              peak |-> 0, bytesAllocated |-> 0, bytesFreed |-> 0]

DefaultGc == [enabled |-> FALSE, auto |-> TRUE,
              threshold |-> DefaultThreshold,
              byteThreshold |-> DefaultByteThreshold,
              allocs |-> 0, bytes |-> 0]

\* What bread_memory_ensure_init leaves in g_mem.
ReadyStats == IF inited THEN stats ELSE ZeroStats
ReadyGc    == IF inited THEN gc ELSE DefaultGc

CountTrack(s) ==
  [s EXCEPT !.allocations = @ + 1,
            !.current     = @ + 1,
            !.peak        = IF s.current + 1 > @ THEN s.current + 1 ELSE @]

CountBytes(s, allocated, freed) ==
  [s EXCEPT !.bytesAllocated = @ + allocated, !.bytesFreed = @ + freed]

\* Slip: the object leaves the list and stays in current_objects.
CountUntrackKept(s, bytes) ==
  [s EXCEPT !.bytesFreed = @ + bytes, !.deallocations = @ + 1]

CountUntrack(s, bytes) ==
  [s EXCEPT !.bytesFreed    = @ + bytes,
            !.deallocations = @ + 1,
            !.current       = IF @ > 0 THEN @ - 1 ELSE @]

CountSinceGc(g, objects, bytes) ==
  [g EXCEPT !.allocs = @ + objects, !.bytes = @ + bytes]

ShouldTriggerGc(g) ==
  /\ g.auto /\ g.enabled
  /\ g.allocs >= g.threshold \/ g.bytes >= g.byteThreshold

\* Slip: only the object counter is reset.
AfterCollectionOfObjects(g, n) ==
  [g EXCEPT !.allocs    = 0,
            !.threshold = IF n < @ \div 10 THEN (@ * 3) \div 2 ELSE @]

\* The counters after a collection that freed n objects: a collection that
\* freed too little raises the threshold by half.
AfterCollection(g, n) ==
  [g EXCEPT !.allocs    = 0,
            !.bytes     = 0,
            !.threshold = IF n < @ \div 10 THEN (@ * 3) \div 2 ELSE @]
-----------------------------------------------------------------------------
(* A whole manager state is passed through the steps of one call as a      *)
(* record, because one call may allocate and then collect.                 *)

Manager == [tracked |-> tracked, size |-> size, refcount |-> refcount,
            pool |-> pool, heapUsed |-> heapUsed, stats |-> ReadyStats,
            gc |-> ReadyGc]

Become(m) ==
  /\ inited'   = TRUE
  /\ tracked'  = m.tracked
  /\ size'     = m.size
  /\ refcount' = m.refcount
  /\ pool'     = m.pool
  /\ heapUsed' = m.heapUsed
  /\ stats'    = m.stats
  /\ gc'       = m.gc
  /\ UNCHANGED <<aborted, forgotten>>

\* The process stops and nothing runs afterwards, so that what the failing call
\* had already changed is left out.
Abort == aborted' = TRUE /\ UNCHANGED <<inited, tracked, size, refcount, pool,
                                        heapUsed, forgotten, stats, gc>>

\* bread_memory_free: untrack the object, then give its block or its malloc'd
\* memory back.
Freed(m, a) ==
  [m EXCEPT !.tracked  = @ \ {a},
            !.size[a]  = 0,
            !.stats    = CountUntrack(@, m.size[a]),
            !.pool     = IF InPool(@, a) THEN PoolFree(@, a) ELSE @,
            !.heapUsed = @ \ {a}]

FreedAll(m, dead) == FoldSet(LAMBDA a, acc : Freed(acc, a), m, dead)

\* bread_memory_sweep_unreachable, given the marked objects.
Swept(m, marked) ==
  LET dead == {a \in m.tracked : a \notin marked /\ m.refcount[a] = 0}
  IN  IF dead = {} THEN m ELSE FreedAll(m, dead)

\* bread_memory_collect_cycles: every object with a reference is marked, with
\* whatever is reachable from it.
Collected(m, marked) ==
  LET after == Swept(m, marked)
  IN  [after EXCEPT !.gc = AfterCollection(@, m.stats.current - after.stats.current)]

Markings(m) ==
  {marked \in SUBSET m.tracked : \A a \in m.tracked : m.refcount[a] > 0 => a \in marked}

\* Where an object of `bytes` can be put: in the pool, or in malloc'd memory
\* when it is too large for a block or the pool has none to give.
Placements(m, bytes) ==
  LET head == HeadChunk(m.pool)
  IN  (IF bytes <= BlockSize /\ PoolServes(m.pool)
       THEN {[at |-> NextBlock(head), pool |-> TakeBlock(head)]}
       ELSE {})
      \cup
      (IF bytes <= BlockSize => PoolAllocFails(m.pool)
       THEN {[at |-> a, pool |-> m.pool] : a \in HeapAddrs \ m.heapUsed}
       ELSE {})

\* The part of bread_memory_alloc that follows the choice of the place.
Allocated(m, place, bytes) ==
  [m EXCEPT !.tracked             = @ \cup {place.at},
            !.size[place.at]      = bytes,
            !.refcount[place.at]  = 1,
            !.pool                = place.pool,
            !.heapUsed            = @ \cup ({place.at} \cap HeapAddrs),
            !.stats               = CountBytes(CountTrack(@), bytes, 0),
            !.gc                  = CountSinceGc(@, 1, bytes)]

\* Slip: an object that shrinks gives its bytes back unrecorded.
MovedShrinkUncounted(m, old, place, bytes) ==
  LET oldBytes == m.size[old]
      grown    == IF bytes > oldBytes THEN bytes - oldBytes ELSE 0
  IN  [m EXCEPT !.tracked  = (@ \ {old}) \cup {place.at},
                !.size     = [[@ EXCEPT ![old] = 0] EXCEPT ![place.at] = bytes],
                !.refcount = [[@ EXCEPT ![old] = 0] EXCEPT ![place.at] = m.refcount[old]],
                !.pool     = place.pool,
                !.heapUsed = (@ \ {old}) \cup ({place.at} \cap HeapAddrs),
                !.stats    = CountBytes(@, grown, 0),
                !.gc       = CountSinceGc(@, 0, grown)]

\* bread_memory_realloc gives the old block back to the pool before it looks
\* for a new one, and moves the header with the contents.
Moved(m, old, place, bytes) ==
  LET oldBytes == m.size[old]
      grown    == IF bytes > oldBytes THEN bytes - oldBytes ELSE 0
      shrunk   == IF bytes < oldBytes THEN oldBytes - bytes ELSE 0
  IN  [m EXCEPT !.tracked  = (@ \ {old}) \cup {place.at},
                !.size     = [[@ EXCEPT ![old] = 0] EXCEPT ![place.at] = bytes],
                !.refcount = [[@ EXCEPT ![old] = 0] EXCEPT ![place.at] = m.refcount[old]],
                !.pool     = place.pool,
                !.heapUsed = (@ \ {old}) \cup ({place.at} \cap HeapAddrs),
                !.stats    = CountBytes(@, grown, shrunk),
                !.gc       = CountSinceGc(@, 0, grown)]

\* A heap object stays in the heap, wherever realloc puts it, unless the pool
\* takes it; a pooled object leaves its block before it is placed again.
MovePlacements(m, old, bytes) ==
  IF InPool(m.pool, old)
  THEN Placements([m EXCEPT !.pool = PoolFree(@, old)], bytes)
  ELSE Placements([m EXCEPT !.heapUsed = @ \ {old}], bytes)

-----------------------------------------------------------------------------
(* Calls.                                                                  *)

Init ==
  /\ inited   = FALSE
  /\ aborted  = FALSE
  /\ tracked  = {}
  /\ size     = [a \in Addrs |-> 0]
  /\ refcount = [a \in Addrs |-> 0]
  /\ pool     = EmptyPool
  /\ heapUsed = {}
  /\ forgotten = {}
  /\ stats    = ZeroStats
  /\ gc       = DefaultGc

\* bread_memory_alloc; the malloc of the list node is taken to succeed.  The
\* collection it may start runs with the new object
\* already on the list.
Alloc(bytes) ==
  /\ ~aborted
  /\ ReadyStats.allocations < MaxAllocations
  /\ ReadyStats.bytesAllocated + bytes <= MaxBytes
  /\ \E place \in Placements(Manager, bytes) :
       LET m == Allocated(Manager, place, bytes)
       IN  IF ShouldTriggerGc(m.gc)
           THEN /\ m.gc.threshold <= MaxThreshold
                /\ \E marked \in Markings(m) : Become(Collected(m, marked))
           ELSE Become(m)

\* malloc returns NULL: a fatal error.
AllocFails(bytes) ==
  /\ ~aborted
  /\ bytes <= BlockSize => PoolAllocFails(pool)
  /\ Abort

\* bread_memory_realloc of an object on the list; of any other it knows no size
\* and copies nothing, which is left out.
Realloc(a, bytes) ==
  /\ ~aborted
  /\ a \in tracked
  /\ stats.bytesAllocated + bytes <= MaxBytes
  /\ \E place \in MovePlacements(Manager, a, bytes) :
       Become(Moved(Manager, a, place, bytes))

\* Neither the pool nor malloc has a place for the moved object: a fatal error.
ReallocFails(a, bytes) ==
  /\ ~aborted
  /\ a \in tracked
  /\ bytes <= BlockSize =>
       PoolAllocFails(IF InPool(pool, a) THEN PoolFree(pool, a) ELSE pool)
  /\ Abort

\* bread_object_retain of an object on the list; the count saturating is a
\* fatal error.
Retain(a) ==
  /\ ~aborted
  /\ a \in tracked
  /\ IF refcount[a] = MaxRefcount
     THEN Abort
     ELSE Become([Manager EXCEPT !.refcount[a] = @ + 1])

\* Slip: the last release leaves the object to the collector.
ReleaseLater(a) ==
  /\ ~aborted
  /\ a \in tracked
  /\ IF refcount[a] = 0
     THEN Abort
     ELSE Become([Manager EXCEPT !.refcount[a] = @ - 1])

\* bread_object_release of an object on the list.
Release(a) ==
  /\ ~aborted
  /\ a \in tracked
  /\ IF refcount[a] = 0
     THEN Abort
     ELSE LET m == [Manager EXCEPT !.refcount[a] = @ - 1]
          IN  Become(IF m.refcount[a] = 0 THEN Freed(m, a) ELSE m)

\* bread_object_retain of an object left over from before a cleanup: only its
\* header changes, whether or not the manager is up again.
RetainForgotten(a) ==
  /\ ~aborted
  /\ a \in forgotten
  /\ IF refcount[a] = MaxRefcount
     THEN Abort
     ELSE /\ refcount' = [refcount EXCEPT ![a] = @ + 1]
          /\ UNCHANGED <<inited, aborted, tracked, size, pool, heapUsed,
                         forgotten, stats, gc>>

\* bread_object_release of such an object: the last release finds no node and
\* no block to give back, free()s the memory and counts nothing.
ReleaseForgotten(a) ==
  /\ ~aborted
  /\ a \in forgotten
  /\ IF refcount[a] = 0
     THEN Abort
     ELSE LET gone == IF refcount[a] = 1 THEN {a} ELSE {}
          IN  /\ refcount'  = [refcount EXCEPT ![a] = @ - 1]
              /\ heapUsed'  = heapUsed \ gone
              /\ forgotten' = forgotten \ gone
              /\ UNCHANGED <<inited, aborted, tracked, size, pool, stats, gc>>

\* bread_memory_collect_cycles called by the program.
CollectCycles ==
  /\ ~aborted
  /\ ReadyGc.enabled
  /\ gc.threshold <= MaxThreshold
  /\ \E marked \in Markings(Manager) : Become(Collected(Manager, marked))

\* Slip: a negative threshold is stored as it is.
SetThresholdUnclamped(t) ==
  /\ ~aborted
  /\ Become([Manager EXCEPT !.gc.enabled = t > 0, !.gc.threshold = t])

\* bread_memory_set_cycle_collection_threshold.
SetThreshold(t) ==
  /\ ~aborted
  /\ Become([Manager EXCEPT !.gc.enabled   = t > 0,
                            !.gc.threshold = IF t > 0 THEN t ELSE 0])

\* bread_memory_set_bytes_threshold.
SetByteThreshold(t) ==
  /\ ~aborted
  /\ Become([Manager EXCEPT !.gc.byteThreshold = t])

\* bread_memory_enable_auto_gc.
EnableAutoGc(on) ==
  /\ ~aborted
  /\ Become([Manager EXCEPT !.gc.auto = on])

\* bread_memory_cleanup: the nodes, with the sizes in them, and the pool, with
\* every object in it, go.  A malloc'd object keeps its memory and its count,
\* and is on no list from then on.  The statistics are left as they are.
Cleanup ==
  /\ ~aborted
  /\ inited
  /\ inited'    = FALSE
  /\ tracked'   = {}
  /\ size'      = [a \in Addrs |-> 0]
  /\ refcount'  = [a \in Addrs |-> IF a \in heapUsed THEN refcount[a] ELSE 0]
  /\ pool'      = EmptyPool
  /\ forgotten' = heapUsed
  /\ UNCHANGED <<aborted, heapUsed, stats, gc>>

Next ==
  \/ \E bytes \in Sizes : Alloc(bytes) \/ AllocFails(bytes)
  \/ \E a \in Addrs, bytes \in Sizes : Realloc(a, bytes) \/ ReallocFails(a, bytes)
  \/ \E a \in Addrs : Retain(a) \/ Release(a)
  \/ \E a \in HeapAddrs : RetainForgotten(a) \/ ReleaseForgotten(a)
  \/ CollectCycles
  \/ \E t \in Thresholds : SetThreshold(t)
  \/ \E t \in ByteThresholds : SetByteThreshold(t)
  \/ \E on \in BOOLEAN : EnableAutoGc(on)
  \/ Cleanup

Spec == Init /\ [][Next]_vars

-----------------------------------------------------------------------------
(* Properties.                                                             *)

StatsType == [allocations : Nat, deallocations : Nat, current : Nat,
              peak : Nat, bytesAllocated : Nat, bytesFreed : Nat]

GcType == [enabled : BOOLEAN, auto : BOOLEAN, threshold : Nat,
           byteThreshold : Nat, allocs : Nat, bytes : Nat]

PoolType == [n     : 0 .. MaxChunks,
             free  : [0 .. MaxChunks -> SUBSET Blocks],
             count : [0 .. MaxChunks -> Nat]]

\* Every variable keeps its type: block indexes stay inside their chunk and no
\* counter of the manager goes below zero.
TypeOK ==
  /\ inited \in BOOLEAN
  /\ aborted \in BOOLEAN
  /\ tracked \subseteq Addrs
  /\ size \in [Addrs -> Nat]
  /\ refcount \in [Addrs -> Nat]
  /\ pool \in PoolType
  /\ heapUsed \subseteq HeapAddrs
  /\ forgotten \subseteq HeapAddrs
  /\ stats \in StatsType
  /\ gc \in GcType

\* The pool's two records of what is free agree with each other and with the
\* list of objects: a chunk's free_count is the number of bits set in its
\* bitmap, and a block is either free or holds exactly the tracked object at its
\* address.  What is malloc'd and not free'd is exactly the objects on the list
\* that are not in the pool and those a cleanup took off it, and no address is
\* both.  If this failed, bread_pool_alloc would hand out a block in use, lose
\* one for good, or reach its `return NULL; // SHOULD NEVER HAPPEN`, or a
\* malloc'd object would leak without a cleanup.
MemoryAccounting ==
  /\ \A c \in 0 .. MaxChunks : pool.count[c] = Cardinality(pool.free[c])
  /\ \A c \in 1 .. MaxChunks, b \in Blocks :
       <<c, b>> \in tracked <=> c <= pool.n /\ b \notin pool.free[c]
  /\ heapUsed = (tracked \cap HeapAddrs) \cup forgotten
  /\ tracked \cap forgotten = {}

\* current_objects is the length of the list, the difference of the two
\* counters, and never above the recorded peak, over any sequence of calls
\* and re-initialisations: bread_memory_check_leaks reads nothing else.
CountAccounting ==
  inited =>
    /\ stats.current = Cardinality(tracked)
    /\ stats.current = stats.allocations - stats.deallocations
    /\ stats.current <= stats.peak

\* The bytes allocated and not yet freed are the sizes recorded in the nodes,
\* whatever objects were grown, shrunk and moved between heap and pool.
ByteAccounting ==
  inited =>
    stats.bytesAllocated - stats.bytesFreed = MapThenSumSet(LAMBDA a : size[a], tracked)

\* Between two calls every object on the list is referenced, and an address
\* off the list has a positive count only if it holds a malloc'd object that was
\* there when bread_memory_cleanup dropped the list: such an object keeps the
\* count in its header until its last release.  Release frees at zero, and
\* nothing else brings a count to zero or an object off the list.
ReferencedIffTracked ==
  \A a \in Addrs : refcount[a] > 0 <=> a \in tracked \cup forgotten

\* A collection started by an allocation or by the program never takes an
\* object off the list: as every tracked object has a positive count, marking
\* keeps all of them.  Only release (one object), realloc (a move) and cleanup
\* shrink the list.
CollectionReclaimsNothing ==
  [][stats'.deallocations > stats.deallocations =>
       \E a \in tracked : refcount[a] = 1 /\ tracked' = tracked \ {a}]_vars

\* With the collector on, no allocation returns with a trigger still pending:
\* both counters are below their thresholds when bread_memory_alloc is done.
NoPendingCollection ==
  [][(inited /\ stats'.allocations > stats.allocations /\ ShouldTriggerGc(gc') =>
        gc'.byteThreshold = 0)]_vars
=============================================================================
