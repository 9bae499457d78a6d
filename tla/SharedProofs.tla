---------------------------- MODULE SharedProofs ----------------------------
(***************************************************************************)
(* What threads share under a mutex, for any sets of threads and any       *)
(* sizes.                                                                  *)
(*   - The caching allocators (BlockCache) neither duplicate nor lose a    *)
(*     block, their caches never overflow and hold native blocks only, and *)
(*     the global cache changes under its mutex only.                      *)
(*   - Queue is type correct, holds the mutex wherever it touches the      *)
(*     ring, loses no wakeup, keeps the items of each producer in order,   *)
(*     none lost and none twice, and implements Fifo.                      *)
(***************************************************************************)
EXTENDS BlockCache, Queue, FiniteSetTheorems, SequenceTheorems, TLAPS

-----------------------------------------------------------------------------
(* The caching allocators.                                                 *)

\* What a thread has put away: its cache and the block it is freeing.
Cached(t) == loc[t] \cup pend[t]

\* The places share no block.
Apart ==
  /\ heap \cap used = {} /\ heap \cap glob = {} /\ heap \cap st = {}
  /\ used \cap glob = {} /\ used \cap st = {} /\ glob \cap st = {}
  /\ \A t \in Threads : /\ Cached(t) \cap heap = {} /\ Cached(t) \cap used = {}
                        /\ Cached(t) \cap glob = {} /\ Cached(t) \cap st = {}
                        /\ loc[t] \cap pend[t] = {}
  /\ \A t, u \in Threads : t # u => Cached(t) \cap Cached(u) = {}

\* Every block is somewhere.
Complete ==
  \A b \in Block : \/ b \in heap \/ b \in used \/ b \in glob \/ b \in st
                   \/ \E t \in Threads : b \in Cached(t)

\* The mutex is held exactly in the locked parts of fill and halve; a block is
\* pending exactly while its thread halves; a dead local cache is empty.
Control ==
  /\ \A t \in Threads : pc[t] \in {"filling", "halving"} <=> mtx = t
  /\ \A t \in Threads : IF pc[t] \in {"halve", "halving", "trim"}
                          THEN \E b \in Block : pend[t] = {b}
                          ELSE pend[t] = {}
  /\ \A t \in Threads \ live : pc[t] = "idle" /\ loc[t] = {}

Sizes ==
  /\ \A t \in Threads : Cardinality(loc[t]) <= LocMax
  /\ Cardinality(glob) <= GlobMax /\ Cardinality(st) <= StMax

IInv == TypeOK /\ Apart /\ Complete /\ Control /\ Sizes

-----------------------------------------------------------------------------
\* Adding and removing one block changes the size of a set of blocks by one.
LEMMA OneMore ==
  ASSUME BlockCacheAssumption, NEW S \in SUBSET Block, NEW b \in Block
  PROVE  /\ Cardinality(S) \in Nat
         /\ Cardinality(S \cup {b}) <= Cardinality(S) + 1
         /\ Cardinality(S \ {b}) <= Cardinality(S)
         /\ Cardinality(S \cup {b}) \in Nat /\ Cardinality(S \ {b}) \in Nat
<1>1. IsFiniteSet(S)
  BY FS_Subset, BlockCacheAssumption DEF BlockCacheAssumption
<1>2. Cardinality(S) \in Nat
  BY <1>1, FS_CardinalityType
<1>3. Cardinality(S \cup {b}) = IF b \in S THEN Cardinality(S) ELSE Cardinality(S) + 1
  BY <1>1, FS_AddElement
<1>4. Cardinality(S \ {b}) = IF b \in S THEN Cardinality(S) - 1 ELSE Cardinality(S)
  BY <1>1, FS_RemoveElement
<1>5. Cardinality(S \cup {b}) \in Nat /\ Cardinality(S \ {b}) \in Nat
  <2>1. IsFiniteSet(S \cup {b}) /\ IsFiniteSet(S \ {b})
    BY <1>1, FS_AddElement, FS_RemoveElement
  <2> QED BY <2>1, FS_CardinalityType
<1> QED BY <1>2, <1>3, <1>4, <1>5

\* A set of blocks has a size.
LEMMA CardType ==
  ASSUME BlockCacheAssumption
  PROVE  \A S \in SUBSET Block : Cardinality(S) \in Nat
  BY FS_Subset, FS_CardinalityType DEF BlockCacheAssumption

\* The sizes of the arrays in asalloc.h and llalloc.h.
LEMMA Bounds ==
  ASSUME BlockCacheAssumption
  PROVE  /\ Cardinality({}) = 0
         /\ LocMax \in Nat /\ LocHalf \in Nat /\ LocHalf < LocMax
         /\ GlobMax \in Nat /\ StMax \in Nat
  BY FS_EmptySet DEF BlockCacheAssumption

\* as_alloc_global_init and its like: every block is in the heap.
LEMMA InitIInv ==
  ASSUME BlockCacheAssumption
  PROVE  Init => IInv
  BY Bounds DEF BlockCacheAssumption, Init, IInv, TypeOK, Apart, Complete, Control, Sizes,
     Cached, Places

\* The steps that move no block.
LEMMA ControlIInv ==
  ASSUME BlockCacheAssumption, IInv, NEW t \in Threads,
         local_init(t) \/ alloc_mt_empty(t) \/ Lock(t) \/ FillUnlock(t)
           \/ AllocFail(t) \/ HalveUnlock(t)
  PROVE  IInv'
<1> USE DEF BlockCacheAssumption, IInv, TypeOK, Apart, Complete, Control, Sizes, Cached, Places, Goto, Idle
<1>1. CASE local_init(t) BY <1>1 DEF local_init
<1>2. CASE alloc_mt_empty(t) BY <1>2 DEF alloc_mt_empty
<1>3. CASE Lock(t) BY <1>3 DEF Lock
<1>4. CASE FillUnlock(t) BY <1>4 DEF FillUnlock
<1>5. CASE AllocFail(t) BY <1>5 DEF AllocFail
<1>6. CASE HalveUnlock(t) BY <1>6 DEF HalveUnlock
<1> QED BY <1>1, <1>2, <1>3, <1>4, <1>5, <1>6

\* The steps that take a block out of a local cache or put one in.
LEMMA LocalIInv ==
  ASSUME BlockCacheAssumption, IInv, NEW t \in Threads, NEW b \in Block,
         alloc_mt(t, b) \/ AllocFilled(t, b) \/ FillMove(t, b) \/ free_mt(t, b)
           \/ HalveMove(t, b) \/ HalveTrim(t, b)
  PROVE  IInv'
<1> USE DEF IInv
<1>a. /\ loc[t] \in SUBSET Block /\ glob \in SUBSET Block
      /\ \A u \in Threads : Cardinality(loc[u]) \in Nat
  BY CardType DEF TypeOK
<1>b. /\ Cardinality(loc[t] \cup {b}) <= Cardinality(loc[t]) + 1
      /\ Cardinality(loc[t] \ {b}) <= Cardinality(loc[t])
      /\ Cardinality(loc[t] \cup {b}) \in Nat /\ Cardinality(loc[t] \ {b}) \in Nat
  BY <1>a, OneMore
<1>c. /\ Cardinality(glob \cup {b}) <= Cardinality(glob) + 1
      /\ Cardinality(glob \ {b}) <= Cardinality(glob)
      /\ Cardinality(glob) \in Nat
      /\ Cardinality(glob \cup {b}) \in Nat /\ Cardinality(glob \ {b}) \in Nat
  BY <1>a, OneMore, Zenon
<1>1. CASE alloc_mt(t, b) \/ AllocFilled(t, b)
  <2> USE DEF alloc_mt, AllocFilled, Pop, Goto, Idle
  <2>1. TypeOK' /\ Control' BY <1>1 DEF TypeOK, Control, Places
  <2>2. Apart' /\ Complete' BY <1>1 DEF TypeOK, Apart, Complete, Cached
  <2>3. /\ loc' = [loc EXCEPT ![t] = loc[t] \ {b}] /\ glob' = glob /\ st' = st
    BY <1>1
  <2>4. Cardinality(loc[t] \ {b}) <= LocMax
    BY <1>a, <1>b, Bounds DEF Sizes
  <2>5. Sizes' BY <2>3, <2>4 DEF TypeOK, Sizes
  <2> QED BY <2>1, <2>2, <2>5
<1>2. CASE FillMove(t, b)
  <2> USE DEF FillMove, MoreToFill
  <2>1. TypeOK' /\ Control' BY <1>2 DEF TypeOK, Control, Places
  <2>2. Apart' /\ Complete' BY <1>2 DEF TypeOK, Apart, Complete, Cached
  <2>3. Sizes' BY <1>2, <1>a, <1>b, <1>c, Bounds DEF TypeOK, Sizes
  <2> QED BY <2>1, <2>2, <2>3
<1>3. CASE free_mt(t, b)
  <2> USE DEF free_mt, LocFull, Idle
  <2>1. TypeOK' /\ Control' BY <1>3 DEF TypeOK, Control, Places
  <2>2. Apart' /\ Complete' BY <1>3 DEF TypeOK, Apart, Complete, Cached
  <2>3. Sizes' BY <1>3, <1>a, <1>b, <1>c, Bounds DEF TypeOK, Sizes
  <2> QED BY <2>1, <2>2, <2>3
<1>4. CASE HalveMove(t, b)
  <2> USE DEF HalveMove, GlobHasRoom
  <2>1. TypeOK' /\ Control' BY <1>4 DEF TypeOK, Control, Places
  <2>2. Apart' /\ Complete' BY <1>4 DEF TypeOK, Apart, Complete, Cached
  <2>3. Sizes' BY <1>4, <1>a, <1>b, <1>c, Bounds DEF TypeOK, Sizes
  <2> QED BY <2>1, <2>2, <2>3
<1>5. CASE HalveTrim(t, b)
  <2> USE DEF HalveTrim
  <2>1. TypeOK' /\ Control' BY <1>5 DEF TypeOK, Control, Places
  <2>2. Apart' /\ Complete' BY <1>5 DEF TypeOK, Apart, Complete, Cached
  <2>3. Sizes' BY <1>5, <1>a, <1>b, <1>c, Bounds DEF TypeOK, Sizes
  <2> QED BY <2>1, <2>2, <2>3
<1> QED BY <1>1, <1>2, <1>3, <1>4, <1>5

\* The rest of a thread's steps.
LEMMA PendingIInv ==
  ASSUME BlockCacheAssumption, IInv, NEW t \in Threads,
         \/ FreePush(t) \/ local_free(t)
         \/ \E b \in Block : free_mt_full(t, b) \/ AllocMalloc(t, b)
  PROVE  IInv'
<1> USE DEF IInv
<1>0. /\ loc[t] \in SUBSET Block
      /\ \A u \in Threads : Cardinality(loc[u]) \in Nat
  BY CardType DEF TypeOK
<1>1. CASE FreePush(t)
  <2> USE DEF FreePush, AboveHalf, Goto
  <2>1. TypeOK' /\ Control' BY <1>1 DEF TypeOK, Control, Places
  <2>2. Apart' /\ Complete' BY <1>1 DEF TypeOK, Apart, Complete, Cached
  <2>3. PICK b \in Block : pend[t] = {b} BY <1>1 DEF Control
  <2>4. /\ Cardinality(loc[t] \cup {b}) <= Cardinality(loc[t]) + 1
        /\ Cardinality(loc[t] \cup {b}) \in Nat
    BY <1>0, OneMore, Zenon
  <2>5. Cardinality(loc[t] \cup pend[t]) <= LocMax
    BY <1>1, <1>0, <2>3, <2>4, Bounds
  <2>6. Sizes' BY <1>1, <2>5 DEF TypeOK, Sizes
  <2> QED BY <2>1, <2>2, <2>6
<1>2. CASE local_free(t)
  <2> USE DEF local_free, Idle
  <2>1. TypeOK' /\ Control' BY <1>2 DEF TypeOK, Control, Places
  <2>2. Apart' /\ Complete' BY <1>2 DEF TypeOK, Apart, Complete, Cached
  <2>3. Sizes' BY <1>2, <1>0, Bounds DEF TypeOK, Sizes
  <2> QED BY <2>1, <2>2, <2>3
<1>3. ASSUME NEW b \in Block, free_mt_full(t, b) PROVE IInv'
  <2> USE DEF free_mt_full, Goto, Idle
  <2>1. TypeOK' /\ Control' BY <1>3 DEF TypeOK, Control, Places
  <2>2. Apart' /\ Complete' BY <1>3 DEF TypeOK, Apart, Complete, Cached, Control
  <2>3. Sizes' BY <1>3 DEF TypeOK, Sizes
  <2> QED BY <2>1, <2>2, <2>3
<1>4. ASSUME NEW b \in Block, AllocMalloc(t, b) PROVE IInv'
  <2> USE DEF AllocMalloc, Goto
  <2>1. TypeOK' /\ Control' BY <1>4 DEF TypeOK, Control, Places
  <2>2. Apart' /\ Complete' BY <1>4 DEF TypeOK, Apart, Complete, Cached
  <2>3. Sizes' BY <1>4 DEF TypeOK, Sizes
  <2> QED BY <2>1, <2>2, <2>3, Zenon
<1> QED BY <1>1, <1>2, <1>3, <1>4

\* The steps of no thread in particular.
LEMMA SharedIInv ==
  ASSUME BlockCacheAssumption, IInv,
         \/ global_free \/ st_free
         \/ \E b \in Block : alloc_big(b) \/ free_big(b) \/ alloc_st(b) \/ free_st(b)
  PROVE  IInv'
<1> USE DEF IInv
<1>0. st \in SUBSET Block BY DEF TypeOK
<1>1. CASE global_free
  BY <1>1, Bounds DEF global_free, TypeOK, Apart, Complete, Control, Sizes, Cached, Places
<1>2. CASE st_free
  BY <1>2, Bounds DEF st_free, TypeOK, Apart, Complete, Control, Sizes, Cached, Places
<1>3. ASSUME NEW b \in Block, alloc_big(b) PROVE IInv'
  BY <1>3 DEF alloc_big, TypeOK, Apart, Complete, Control, Sizes, Cached, Places
<1>4. ASSUME NEW b \in Block, free_big(b) PROVE IInv'
  BY <1>4 DEF free_big, TypeOK, Apart, Complete, Control, Sizes, Cached, Places
<1>5. ASSUME NEW b \in Block, alloc_st(b) PROVE IInv'
  <2> USE DEF alloc_st
  <2>1. TypeOK' /\ Control' BY <1>5 DEF TypeOK, Control, Places
  <2>2. Apart' /\ Complete' BY <1>5 DEF TypeOK, Apart, Complete, Cached
  <2>3. /\ Cardinality(st) \in Nat /\ Cardinality(st \ {b}) \in Nat
        /\ Cardinality(st \ {b}) <= Cardinality(st)
    BY <1>0, OneMore, Zenon
  <2>4. (st' = st \/ st' = st \ {b}) /\ loc' = loc /\ glob' = glob
    BY <1>5
  <2>5. Cardinality(st \ {b}) <= StMax /\ Cardinality(st) <= StMax
    BY <2>3, Bounds DEF Sizes
  <2>6. Cardinality(st') <= StMax
    BY <2>4, <2>5
  <2>7. Sizes' BY <2>4, <2>6 DEF Sizes
  <2> QED BY <2>1, <2>2, <2>7
<1>6. ASSUME NEW b \in Block, free_st(b) PROVE IInv'
  <2> USE DEF free_st
  <2>1. TypeOK' /\ Control' BY <1>6 DEF TypeOK, Control, Places
  <2>2. Apart' /\ Complete' BY <1>6 DEF TypeOK, Apart, Complete, Cached
  <2>3. /\ Cardinality(st) \in Nat /\ Cardinality(st \cup {b}) \in Nat
        /\ Cardinality(st \cup {b}) <= Cardinality(st) + 1
    BY <1>0, OneMore, Zenon
  <2>4. \/ st' = st
        \/ st' = st \cup {b} /\ Cardinality(st) < StMax
    BY <1>6, <2>3, Bounds
  <2>5. Cardinality(st) < StMax => Cardinality(st \cup {b}) <= StMax
    BY <2>3, Bounds
  <2>6. Cardinality(st') <= StMax
    BY <2>4, <2>5 DEF Sizes
  <2>7. loc' = loc /\ glob' = glob
    BY <1>6
  <2>8. Sizes' BY <2>6, <2>7 DEF Sizes
  <2> QED BY <2>1, <2>2, <2>8
<1> QED BY <1>1, <1>2, <1>3, <1>4, <1>5, <1>6

\* No step breaks the invariant.
LEMMA NextIInv ==
  ASSUME BlockCacheAssumption
  PROVE  IInv /\ [Next]_vars => IInv'
<1> SUFFICES ASSUME IInv, [Next]_vars PROVE IInv' OBVIOUS
<1>1. CASE UNCHANGED vars
  BY <1>1 DEF vars, IInv, TypeOK, Apart, Complete, Control, Sizes, Cached
<1>2. ASSUME NEW t \in Threads, Call(t) \/ Lock(t) \/ FillStep(t) \/ HalveStep(t)
      PROVE  IInv'
  BY <1>2, ControlIInv, LocalIInv, PendingIInv DEF Call, FillStep, HalveStep
<1>3. CASE \/ global_free \/ st_free
           \/ \E b \in Block : alloc_big(b) \/ free_big(b) \/ alloc_st(b) \/ free_st(b)
  BY <1>3, SharedIInv
<1> QED BY <1>1, <1>2, <1>3 DEF Next

\* The invariant of the allocators: sizes within the capacities, every block in
\* exactly one place, the mutex held exactly in fill and halve.
THEOREM BlockCacheInvariant ==
  ASSUME BlockCacheAssumption
  PROVE  Spec => []IInv
  BY InitIInv, NextIInv, PTL DEF Spec

-----------------------------------------------------------------------------
\* The variables keep their types and only blocks in use are marked big.
THEOREM BlockCacheTypeCorrect ==
  ASSUME BlockCacheAssumption
  PROVE  Spec => []TypeOK
<1>1. IInv => TypeOK BY DEF IInv
<1> QED BY <1>1, BlockCacheInvariant, PTL

\* Every block has exactly one holder, whatever the threads do.
THEOREM BlockCacheOneHolder ==
  ASSUME BlockCacheAssumption
  PROVE  Spec => []OneHolder
<1>1. ASSUME IInv PROVE OneHolder
  <2> SUFFICES ASSUME NEW b \in Block
               PROVE  \E h \in Holders : /\ b \in Held(h)
                                         /\ \A g \in Holders : b \in Held(g) => g = h
    BY DEF OneHolder
  <2>1. \A g \in Holders : \/ g = <<"heap", NoThread>> /\ Held(g) = heap
                           \/ g = <<"used", NoThread>> /\ Held(g) = used
                           \/ g = <<"glob", NoThread>> /\ Held(g) = glob
                           \/ g = <<"st", NoThread>> /\ Held(g) = st
                           \/ \E u \in Threads : g = <<"loc", u>> /\ Held(g) = loc[u]
                           \/ \E u \in Threads : g = <<"pend", u>> /\ Held(g) = pend[u]
    BY DEF Holders, Held
  <2>2. /\ <<"heap", NoThread>> \in Holders /\ <<"used", NoThread>> \in Holders
        /\ <<"glob", NoThread>> \in Holders /\ <<"st", NoThread>> \in Holders
        /\ \A u \in Threads : <<"loc", u>> \in Holders /\ <<"pend", u>> \in Holders
    BY DEF Holders
  <2>3. CASE b \in heap
    <3> USE <2>2
    <3> WITNESS <<"heap", NoThread>> \in Holders
    <3> QED BY <2>1, <2>3, IInv DEF IInv, Apart, Cached, Held
  <2>4. CASE b \in used
    <3> USE <2>2
    <3> WITNESS <<"used", NoThread>> \in Holders
    <3> QED BY <2>1, <2>4, IInv DEF IInv, Apart, Cached, Held
  <2>5. CASE b \in glob
    <3> USE <2>2
    <3> WITNESS <<"glob", NoThread>> \in Holders
    <3> QED BY <2>1, <2>5, IInv DEF IInv, Apart, Cached, Held
  <2>6. CASE b \in st
    <3> USE <2>2
    <3> WITNESS <<"st", NoThread>> \in Holders
    <3> QED BY <2>1, <2>6, IInv DEF IInv, Apart, Cached, Held
  <2>7. ASSUME NEW t \in Threads, b \in loc[t]
        PROVE  \E h \in Holders : /\ b \in Held(h)
                                  /\ \A g \in Holders : b \in Held(g) => g = h
    <3> USE <2>2
    <3> WITNESS <<"loc", t>> \in Holders
    <3> QED BY <2>1, <2>7, IInv DEF IInv, Apart, Cached, Held
  <2>8. ASSUME NEW t \in Threads, b \in pend[t]
        PROVE  \E h \in Holders : /\ b \in Held(h)
                                  /\ \A g \in Holders : b \in Held(g) => g = h
    <3> USE <2>2
    <3> WITNESS <<"pend", t>> \in Holders
    <3> QED BY <2>1, <2>8, IInv DEF IInv, Apart, Cached, Held
  <2> QED BY <2>3, <2>4, <2>5, <2>6, <2>7, <2>8, IInv DEF IInv, Complete, Cached
<1> QED BY <1>1, BlockCacheInvariant, PTL

\* No store of fill, halve or free is outside its array.
THEOREM BlockCacheCachesFit ==
  ASSUME BlockCacheAssumption
  PROVE  Spec => []CachesFit
<1>1. IInv => CachesFit BY DEF IInv, Sizes, CachesFit
<1> QED BY <1>1, BlockCacheInvariant, PTL

\* No cache ever holds a block of another than the native size.
THEOREM BlockCacheCachedAreNative ==
  ASSUME BlockCacheAssumption
  PROVE  Spec => []CachedAreNative
<1>1. ASSUME IInv PROVE CachedAreNative
  <2> SUFFICES ASSUME NEW h \in Holders, h[1] \notin {"heap", "used"}
               PROVE  Held(h) \cap big = {}
    BY DEF CachedAreNative
  <2>1. \/ Held(h) = glob \/ Held(h) = st
        \/ \E u \in Threads : Held(h) = loc[u] \/ Held(h) = pend[u]
    BY DEF Holders, Held
  <2> QED BY <2>1, IInv DEF IInv, TypeOK, Apart, Cached
<1> QED BY <1>1, BlockCacheInvariant, PTL

\* The global cache changes only in steps of the holder of its mutex, which
\* change the holder's local cache too, and when no local cache exists.
THEOREM BlockCacheGlobUnderMutex ==
  ASSUME BlockCacheAssumption
  PROVE  Spec => GlobUnderMutex
<1> DEFINE Locked == glob' # glob => live = {} \/ (mtx # NoThread /\ mtx' = mtx
                                                  /\ loc'[mtx] # loc[mtx])
<1>1. ASSUME IInv, [Next]_vars PROVE [Locked]_vars
  <2> SUFFICES ASSUME Next, glob' # glob PROVE Locked BY <1>1
  <2>1. CASE live = {} BY <2>1
  <2>2. \/ live = {}
        \/ \E t \in Threads, b \in Block : FillMove(t, b) \/ HalveMove(t, b)
    <3>1. ASSUME NEW t \in Threads, Call(t) \/ Lock(t) PROVE FALSE
      BY <3>1 DEF Call, local_init, local_free, alloc_mt, Pop, alloc_mt_empty,
         free_mt, free_mt_full, Lock
    <3>2. ASSUME NEW t \in Threads, FillStep(t), ~\E b \in Block : FillMove(t, b)
          PROVE  FALSE
      BY <3>2 DEF FillStep, FillUnlock, AllocFilled, Pop, AllocMalloc, AllocFail
    <3>3. ASSUME NEW t \in Threads, HalveStep(t), ~\E b \in Block : HalveMove(t, b)
          PROVE  FALSE
      BY <3>3 DEF HalveStep, HalveUnlock, HalveTrim, FreePush
    <3>4. ASSUME NEW b \in Block, alloc_big(b) \/ free_big(b) \/ alloc_st(b) \/ free_st(b)
          PROVE  FALSE
      BY <3>4 DEF alloc_big, free_big, alloc_st, free_st
    <3>5. CASE global_free \/ st_free
      BY <3>5 DEF global_free, st_free
    <3> QED BY <3>1, <3>2, <3>3, <3>4, <3>5 DEF Next
  <2>3. ASSUME NEW t \in Threads, NEW b \in Block, FillMove(t, b) PROVE Locked
    BY <2>3, <1>1 DEF BlockCacheAssumption, FillMove, IInv, TypeOK, Control, Apart, Cached
  <2>4. ASSUME NEW t \in Threads, NEW b \in Block, HalveMove(t, b) PROVE Locked
    BY <2>4, <1>1 DEF BlockCacheAssumption, HalveMove, IInv, TypeOK, Control, Apart, Cached
  <2> QED BY <2>1, <2>2, <2>3, <2>4
<1> QED BY <1>1, BlockCacheInvariant, PTL DEF Spec, GlobUnderMutex

-----------------------------------------------------------------------------
(* The queue.                                                              *)

\* The indices of the slots between start and end.
InRing(j) == IF start <= end THEN start <= j /\ j < end
                             ELSE start <= j \/ j < end

\* Slots between start and end were written by an enqueue.
RingHoldsItems == \A j \in 0 .. BufSiz - 1 : InRing(j) => buf[j] \in Item

\* Only a thread on its way to the mutex sleeps on a condition variable.
SleepersWait == \A t \in full \cup empty : qPc[t] = "lock"

\* A consumer that has not yet made room knows that the ring was full.
DrainKnowsFull ==
  \A c \in Consumers : qPc[c] = "drain" /\ queue_is_full => wasFull[c]

\* The inductive invariant.  NoLostWakeup needs MutexDiscipline (the consumer
\* about to broadcast cannot coexist with a producer in the ring) and
\* DrainKnowsFull; the type of taken needs RingHoldsItems.
QueueIInv ==
  /\ QueueTypeOK
  /\ MutexDiscipline
  /\ NoLostWakeup
  /\ RingHoldsItems
  /\ SleepersWait
  /\ DrainKnowsFull

-----------------------------------------------------------------------------

\* queue_init leaves an empty ring, a free mutex and no sleeper.
LEMMA QueueInitIInv == QueueInit => QueueIInv
<1> SUFFICES ASSUME QueueInit PROVE QueueIInv
  OBVIOUS
<1> USE QueueAssumption DEF QueueInit, queue_init
<1>1. QueueTypeOK
  BY EmptySeq DEF QueueTypeOK, QueuePlaces, Callers
<1>2. MutexDiscipline
  BY DEF MutexDiscipline
<1>3. NoLostWakeup /\ RingHoldsItems /\ SleepersWait /\ DrainKnowsFull
  BY DEF NoLostWakeup, RingHoldsItems, InRing, SleepersWait, DrainKnowsFull,
         Callers
<1> QED BY <1>1, <1>2, <1>3 DEF QueueIInv

\* The batches that producers hand to the queue are sequences of their items.
LEMMA BatchType ==
  ASSUME NEW p \in Producers, NEW n \in Nat, NEW m \in Nat, m + n <= MaxItems
  PROVE  [i \in 1 .. n |-> <<p, m + i>>] \in Seq(Item)
<1>1. [i \in 1 .. n |-> <<p, m + i>>] \in [1 .. n -> Item]
  BY QueueAssumption DEF Item
<1> QED BY <1>1, SeqDef

\* The calls of producers only touch what belongs to the producer.
LEMMA SubmitIInv ==
  ASSUME QueueIInv, NEW p \in Producers, NEW batch \in Seq(Item),
         NEW cached \in Seq(Item), NEW n \in Nat, Submit(p, batch, cached, n)
  PROVE  QueueIInv'
<1> USE QueueAssumption DEF QueueIInv, Submit, ring
<1>1. QueueTypeOK'
  <2>1. qPc' \in [Callers -> QueuePlaces]
    BY DEF QueueTypeOK, QueuePlaces, Callers
  <2>2. in' \in [Producers -> Seq(Item)] /\ cache' \in [Producers -> Seq(Item)]
    BY DEF QueueTypeOK
  <2>3. made' \in [Producers -> 0 .. MaxItems]
    <3>1. made[p] + n \in 0 .. MaxItems
      BY DEF QueueTypeOK
    <3> QED BY <3>1 DEF QueueTypeOK
  <2> QED BY <2>1, <2>2, <2>3 DEF QueueTypeOK
<1>2. qPc[p] = "idle" /\ qPc' = [qPc EXCEPT ![p] = "lock"] /\ p \in Callers
       /\ qPc \in [Callers -> QueuePlaces]
  BY DEF QueueTypeOK, Callers
<1>3. MutexDiscipline'
  BY <1>2 DEF MutexDiscipline
<1>4. NoLostWakeup' /\ DrainKnowsFull'
  BY <1>2 DEF NoLostWakeup, DrainKnowsFull, queue_is_empty, queue_is_full, Inc,
     Callers
<1>5. RingHoldsItems' /\ SleepersWait'
  BY <1>2 DEF RingHoldsItems, InRing, SleepersWait, Callers, QueueTypeOK
<1> QED BY <1>1, <1>3, <1>4, <1>5

\* A producer's call starts on its way to the mutex, or only fills the cache, and
\* touches nothing that the others share.
LEMMA CallIInv ==
  ASSUME QueueIInv, NEW p \in Producers, ProducerCall(p)
  PROVE  QueueIInv'
<1> USE QueueAssumption
<1>1. /\ made[p] \in Nat /\ cache[p] \in Seq(Item) /\ << >> \in Seq(Item)
      /\ p \in Callers
  BY EmptySeq DEF QueueIInv, QueueTypeOK, Callers
<1>2. made[p] + 1 <= MaxItems => <<NextItem(p)>> \in Seq(Item)
  BY <1>1 DEF NextItem, Item
<1>3. CASE queue_enq_one(p)
  BY <1>1, <1>2, <1>3, SubmitIInv, Zenon DEF queue_enq_one, Submit
<1>4. CASE \E n \in 1 .. MaxItems : queue_enq_many(p, n)
  <2> PICK n \in 1 .. MaxItems : queue_enq_many(p, n)
    BY <1>4
  <2>1. n \in Nat /\ made[p] + n <= MaxItems
    BY DEF queue_enq_many, Submit
  <2> DEFINE batch == [i \in 1 .. n |-> <<p, made[p] + i>>]
  <2>2. batch \in Seq(Item)
    BY <1>1, <2>1, BatchType
  <2>3. Submit(p, batch, << >>, n)
    BY DEF queue_enq_many
  <2> HIDE DEF batch
  <2> QED BY <1>1, <2>1, <2>2, <2>3, SubmitIInv, Zenon
<1>5. CASE queue_cache_flush(p)
  BY <1>1, <1>5, SubmitIInv, Zenon DEF queue_cache_flush
<1>6. CASE queue_cache_enq_one(p)
  <2>1. CASE CacheFull(p) /\ Submit(p, cache[p], <<NextItem(p)>>, 1)
    BY <1>1, <1>2, <2>1, SubmitIInv, Zenon DEF Submit
  <2>2. CASE /\ made[p] < MaxItems
             /\ cache' = [cache EXCEPT ![p] = Append(@, NextItem(p))]
             /\ made' = [made EXCEPT ![p] = @ + 1]
             /\ UNCHANGED <<ring, qMtx, full, empty, qPc, in, room, timed,
                            wasFull, taken>>
    <3>1. NextItem(p) \in Item
      BY <1>1, <2>2 DEF NextItem, Item
    <3>2. Append(cache[p], NextItem(p)) \in Seq(Item)
      BY <1>1, <3>1, AppendProperties
    <3>3. QueueTypeOK'
      BY <1>1, <2>2, <3>2 DEF QueueIInv, QueueTypeOK, ring
    <3> QED
      BY <2>2, <3>3 DEF QueueIInv, ring, MutexDiscipline, NoLostWakeup,
         RingHoldsItems, InRing, SleepersWait, DrainKnowsFull, queue_is_empty,
         queue_is_full, Inc
  <2> QED BY <1>6, <2>1, <2>2 DEF queue_cache_enq_one
<1> QED BY <1>3, <1>4, <1>5, <1>6 DEF ProducerCall

\* The steps that leave the ring alone: what they do to the mutex, the wait
\* sets and the program counters.
LEMMA LockingIInv ==
  ASSUME QueueIInv,
         \/ \E t \in Callers : Acquire(t) \/ SpuriousWakeup(t)
         \/ \E p \in Producers : EnqWait(p) \/ EnqReturn(p)
         \/ \E c \in Consumers : \/ ConsumerCall(c) \/ DeqWait(c) \/ DeqStart(c)
                                 \/ DeqReturn(c) \/ TimeOut(c)
                                 \/ TimedOutReturn(c)
  PROVE  QueueIInv'
<1> USE QueueAssumption DEF QueueIInv, ring, queue_is_empty, queue_is_full, Callers
<1>1. ASSUME NEW t \in Callers, Acquire(t) PROVE QueueIInv'
  <2>1. QueueTypeOK'
    BY <1>1 DEF Acquire, QueueTypeOK, QueuePlaces
  <2>2. MutexDiscipline' /\ SleepersWait'
    BY <1>1 DEF Acquire, QueueTypeOK, MutexDiscipline, SleepersWait
  <2>3. NoLostWakeup' /\ RingHoldsItems' /\ DrainKnowsFull'
    BY <1>1 DEF Acquire, QueueTypeOK, NoLostWakeup, RingHoldsItems, InRing,
       DrainKnowsFull
  <2> QED BY <2>1, <2>2, <2>3
<1>2. ASSUME NEW t \in Callers, SpuriousWakeup(t) PROVE QueueIInv'
  BY <1>2 DEF SpuriousWakeup, QueueTypeOK, MutexDiscipline, SleepersWait,
     NoLostWakeup, RingHoldsItems, InRing, DrainKnowsFull
<1>3. ASSUME NEW p \in Producers, EnqWait(p) PROVE QueueIInv'
  <2>1. QueueTypeOK'
    BY <1>3 DEF EnqWait, QueueTypeOK, QueuePlaces
  <2>2. MutexDiscipline' /\ SleepersWait'
    BY <1>3 DEF EnqWait, QueueTypeOK, MutexDiscipline, SleepersWait
  <2>3. NoLostWakeup' /\ RingHoldsItems' /\ DrainKnowsFull'
    BY <1>3 DEF EnqWait, QueueTypeOK, NoLostWakeup, RingHoldsItems, InRing,
       DrainKnowsFull
  <2> QED BY <2>1, <2>2, <2>3
<1>4. ASSUME NEW p \in Producers, EnqReturn(p) PROVE QueueIInv'
  <2>1. QueueTypeOK'
    BY <1>4 DEF EnqReturn, QueueTypeOK, QueuePlaces
  <2>2. MutexDiscipline' /\ SleepersWait'
    BY <1>4 DEF EnqReturn, QueueTypeOK, MutexDiscipline, SleepersWait
  <2>3. NoLostWakeup' /\ RingHoldsItems' /\ DrainKnowsFull'
    BY <1>4 DEF EnqReturn, QueueTypeOK, NoLostWakeup, RingHoldsItems, InRing,
       DrainKnowsFull
  <2> QED BY <2>1, <2>2, <2>3
<1>5. ASSUME NEW c \in Consumers, ConsumerCall(c) PROVE QueueIInv'
  <2> PICK n \in Nat, limited \in BOOLEAN : Request(c, n, limited)
    BY <1>5, Zenon DEF ConsumerCall, queue_deq_one, queue_deq_many,
       queue_timeddeq_many
  <2>1. QueueTypeOK'
    BY DEF Request, QueueTypeOK, QueuePlaces
  <2>2. MutexDiscipline' /\ SleepersWait'
    BY Zenon DEF Request, QueueTypeOK, MutexDiscipline, SleepersWait
  <2>3. NoLostWakeup' /\ RingHoldsItems' /\ DrainKnowsFull'
    BY DEF Request, QueueTypeOK, NoLostWakeup, RingHoldsItems, InRing,
       DrainKnowsFull
  <2> QED BY <2>1, <2>2, <2>3
<1>6. ASSUME NEW c \in Consumers, DeqWait(c) PROVE QueueIInv'
  <2>1. QueueTypeOK'
    BY <1>6 DEF DeqWait, QueueTypeOK, QueuePlaces
  <2>2. MutexDiscipline' /\ SleepersWait'
    BY <1>6 DEF DeqWait, QueueTypeOK, MutexDiscipline, SleepersWait
  <2>3. NoLostWakeup' /\ RingHoldsItems' /\ DrainKnowsFull'
    BY <1>6 DEF DeqWait, QueueTypeOK, NoLostWakeup, RingHoldsItems, InRing,
       DrainKnowsFull
  <2> QED BY <2>1, <2>2, <2>3
<1>7. ASSUME NEW c \in Consumers, DeqStart(c) PROVE QueueIInv'
  <2>1. QueueTypeOK'
    BY <1>7 DEF DeqStart, QueueTypeOK, QueuePlaces
  <2>2. MutexDiscipline' /\ SleepersWait'
    BY <1>7 DEF DeqStart, QueueTypeOK, MutexDiscipline, SleepersWait
  <2>3. NoLostWakeup' /\ RingHoldsItems' /\ DrainKnowsFull'
    BY <1>7, Zenon DEF DeqStart, QueueTypeOK, NoLostWakeup, RingHoldsItems, InRing,
       DrainKnowsFull, MutexDiscipline
  <2> QED BY <2>1, <2>2, <2>3
<1>8. ASSUME NEW c \in Consumers, DeqReturn(c) PROVE QueueIInv'
  <2>1. QueueTypeOK'
    BY <1>8 DEF DeqReturn, DeqReturn_waking, QueueTypeOK, QueuePlaces
  <2>2. MutexDiscipline' /\ SleepersWait'
    BY <1>8 DEF DeqReturn, DeqReturn_waking, QueueTypeOK, MutexDiscipline,
       SleepersWait
  <2>3. NoLostWakeup'
    BY <1>8 DEF DeqReturn, DeqReturn_waking, QueueTypeOK, NoLostWakeup,
       MutexDiscipline, DrainKnowsFull
  <2>4. RingHoldsItems' /\ DrainKnowsFull'
    BY <1>8 DEF DeqReturn, DeqReturn_waking, QueueTypeOK, RingHoldsItems, InRing,
       DrainKnowsFull
  <2> QED BY <2>1, <2>2, <2>3, <2>4
<1>9. ASSUME NEW c \in Consumers, TimeOut(c) \/ TimedOutReturn(c) PROVE QueueIInv'
  <2>1. QueueTypeOK'
    <3>1. CASE TimeOut(c)
      BY <3>1 DEF TimeOut, QueueTypeOK, QueuePlaces
    <3>2. CASE TimedOutReturn(c)
      BY <3>2 DEF TimedOutReturn, QueueTypeOK, QueuePlaces
    <3> QED BY <1>9, <3>1, <3>2
  <2>2. MutexDiscipline' /\ SleepersWait'
    BY <1>9 DEF TimeOut, TimedOutReturn, QueueTypeOK, MutexDiscipline,
       SleepersWait
  <2>3. RingHoldsItems' /\ DrainKnowsFull'
    BY <1>9 DEF TimeOut, TimedOutReturn, QueueTypeOK, RingHoldsItems,
       InRing, DrainKnowsFull
  <2>4. CASE TimeOut(c)
    <3>1. qPc[c] = "lock" /\ \A d \in Consumers : qPc'[d] = "drain" <=> qPc[d] = "drain"
      BY <2>4 DEF TimeOut, QueueTypeOK, SleepersWait
    <3>2. NoLostWakeup'
      BY <2>4, <3>1, Zenon DEF TimeOut, NoLostWakeup
    <3> QED BY <2>1, <2>2, <2>3, <3>2
  <2>5. CASE TimedOutReturn(c)
    <3>1. \A d \in Consumers : qPc'[d] = "drain" <=> qPc[d] = "drain"
      BY <2>5 DEF TimedOutReturn, QueueTypeOK
    <3>2. NoLostWakeup'
      BY <2>5, <3>1, Zenon DEF TimedOutReturn, NoLostWakeup
    <3> QED BY <2>1, <2>2, <2>3, <3>2
  <2> QED BY <1>9, <2>4, <2>5
<1> QED BY <1>1, <1>2, <1>3, <1>4, <1>5, <1>6, <1>7, <1>8, <1>9

\* queue_enq_one's and queue_enq_many's step into the ring writes the slot at end
\* and, if the ring was empty, signals.
LEMMA EnqPutIInv ==
  ASSUME QueueIInv, NEW p \in Producers, EnqPut(p)
  PROVE  QueueIInv'
<1> USE QueueAssumption DEF QueueIInv, EnqPut, EnqPut_waking
<1>1. qMtx = p /\ p \in Callers
  BY DEF MutexDiscipline, Callers
<1>2. Head(in[p]) \in Item /\ Tail(in[p]) \in Seq(Item)
  BY HeadTailProperties DEF QueueTypeOK
<1>3. QueueTypeOK'
  BY <1>2 DEF QueueTypeOK, Inc
<1>4. MutexDiscipline' /\ SleepersWait'
  BY Zenon DEF MutexDiscipline, SleepersWait
<1>5. \A c \in Consumers : qPc[c] # "drain"
  BY <1>1 DEF MutexDiscipline, Callers
<1>6. full = {}
  BY <1>5 DEF NoLostWakeup
<1>7. NoLostWakeup' /\ DrainKnowsFull'
  BY <1>5, <1>6 DEF NoLostWakeup, DrainKnowsFull
<1>8. RingHoldsItems'
  BY <1>2 DEF RingHoldsItems, InRing, QueueTypeOK, Inc, queue_is_full
<1> QED BY <1>3, <1>4, <1>7, <1>8

\* queue_deq_many's step out of the ring reads a slot that an enqueue wrote.
LEMMA DeqTakeIInv ==
  ASSUME QueueIInv, NEW c \in Consumers, DeqTake(c)
  PROVE  QueueIInv'
<1> USE QueueAssumption DEF QueueIInv, DeqTake
<1>1. qMtx = c /\ c \in Callers
  BY DEF MutexDiscipline, Callers
<1>2. buf[start] \in Item
  BY DEF QueueTypeOK, RingHoldsItems, InRing, queue_is_empty
<1>3. Append(taken, buf[start]) \in Seq(Item)
  BY <1>2, AppendProperties DEF QueueTypeOK
<1>4. QueueTypeOK'
  BY <1>3 DEF QueueTypeOK, Inc
<1>5. MutexDiscipline' /\ SleepersWait'
  BY Zenon DEF MutexDiscipline, SleepersWait
<1>6. ~queue_is_full'
  BY DEF QueueTypeOK, queue_is_full, queue_is_empty, Inc
<1>7. empty = {}
  BY Zenon DEF NoLostWakeup
<1>8. full # {} => wasFull[c]
  BY <1>1 DEF NoLostWakeup, DrainKnowsFull, MutexDiscipline, Callers
<1>9. NoLostWakeup' /\ DrainKnowsFull'
  BY <1>6, <1>7, <1>8 DEF NoLostWakeup, DrainKnowsFull
<1>10. RingHoldsItems'
  BY DEF RingHoldsItems, InRing, QueueTypeOK, Inc, queue_is_empty
<1> QED BY <1>4, <1>5, <1>9, <1>10

\* No step of queue.h breaks the invariant.
LEMMA QueueNextIInv == QueueIInv /\ [QueueNext]_queueVars => QueueIInv'
<1> SUFFICES ASSUME QueueIInv, [QueueNext]_queueVars PROVE QueueIInv'
  OBVIOUS
<1>1. CASE QueueNext
  BY <1>1, CallIInv, LockingIInv, EnqPutIInv, DeqTakeIInv
     DEF QueueNext, ProducerStep, ConsumerStep
<1>2. CASE UNCHANGED queueVars
  BY <1>2 DEF queueVars, QueueIInv, QueueTypeOK, MutexDiscipline, NoLostWakeup,
     RingHoldsItems, InRing, SleepersWait, DrainKnowsFull, queue_is_empty,
     queue_is_full, Inc
<1> QED BY <1>1, <1>2

\* The ring, the mutex and the two condition variables of struct queue keep the
\* invariant whatever the interleaving.
THEOREM QueueInvariant == QueueSpec => []QueueIInv
BY QueueInitIInv, QueueNextIInv, PTL DEF QueueSpec

\* Every variable of queue.c keeps its type: the indices stay inside the ring
\* and only items that were enqueued are handed out.
THEOREM QueueTypeCorrect == QueueSpec => []QueueTypeOK
<1>1. QueueIInv => QueueTypeOK
  BY DEF QueueIInv
<1> QED BY <1>1, QueueInvariant, PTL

\* The ring is only touched by the thread that holds queue->mtx.
THEOREM QueueMutexDiscipline == QueueSpec => []MutexDiscipline
<1>1. QueueIInv => MutexDiscipline
  BY DEF QueueIInv
<1> QED BY <1>1, QueueInvariant, PTL

\* Broadcasting on the full and empty transitions only loses no wakeup.
THEOREM QueueNoLostWakeup == QueueSpec => []NoLostWakeup
<1>1. QueueIInv => NoLostWakeup
  BY DEF QueueIInv
<1> QED BY <1>1, QueueInvariant, PTL

-----------------------------------------------------------------------------
(* The queue implements Fifo.                                              *)

ContentTyped ==
  Count \in 0 .. BufSiz - 1 /\ Content \in Seq(Item) /\ Len(Content) = Count

\* What the ring holds is a sequence of at most BufSiz - 1 items.
LEMMA ContentType == QueueIInv => ContentTyped
<1> SUFFICES ASSUME QueueIInv PROVE ContentTyped
  OBVIOUS
<1> USE QueueAssumption DEF QueueIInv, ContentTyped
<1>1. Count \in 0 .. BufSiz - 1
  BY DEF Count, QueueTypeOK
<1>2. \A k \in 1 .. Count : Slot(k) \in 0 .. BufSiz - 1 /\ InRing(Slot(k))
  BY DEF Count, Slot, QueueTypeOK, InRing
<1>3. Content \in [1 .. Count -> Item]
  BY <1>2 DEF Content, RingHoldsItems
<1>4. Content \in Seq(Item)
  BY <1>1, <1>3, SeqDef
<1> QED BY <1>1, <1>3, <1>4, LenProperties

\* The content depends on the ring alone.
LEMMA ContentUnchanged == UNCHANGED ring => Content' = Content
BY DEF ring, Content, Count, Slot

\* An enqueue into the ring is a Put of the channel.
LEMMA EnqPutPuts ==
  ASSUME QueueIInv, QueueIInv', NEW p \in Producers, EnqPut(p)
  PROVE  Channel!Put(Head(in[p]))
<1> USE QueueAssumption DEF EnqPut, EnqPut_waking
<1>1. Head(in[p]) \in Item
  BY HeadTailProperties DEF QueueIInv, QueueTypeOK
<1>2. Count < BufSiz - 1 /\ Count' = Count + 1
  BY DEF QueueIInv, QueueTypeOK, Count, queue_is_full, Inc
<1>3. \A k \in 1 .. Count : buf'[Slot(k)'] = buf[Slot(k)]
  BY <1>2 DEF QueueIInv, QueueTypeOK, Count, Slot, queue_is_full, Inc
<1>4. \A k \in Nat : k = Count + 1 => buf'[Slot(k)'] = Head(in[p])
  BY <1>2 DEF QueueIInv, QueueTypeOK, Count, Slot, queue_is_full, Inc
<1> HIDE DEF EnqPut, EnqPut_waking
<1>5. Content \in Seq(Item) /\ Len(Content) = Count /\ Count \in Nat
      /\ Content' \in Seq(Item) /\ Len(Content') = Count'
  <2>1. QueueIInv' => ContentTyped'
    BY ContentType, PTL
  <2>2. /\ Count \in 0 .. BufSiz - 1 /\ Content \in Seq(Item) /\ Len(Content) = Count
        /\ Content' \in Seq(Item) /\ Len(Content') = Count'
    BY <2>1, ContentType, Zenon DEF ContentTyped
  <2>3. Count \in Nat BY <2>2
  <2> QED BY <2>2, <2>3, Zenon
<1>6. Append(Content, Head(in[p])) \in Seq(Item)
      /\ Len(Append(Content, Head(in[p]))) = Count + 1
  BY <1>1, <1>5, AppendProperties
<1>7. \A k \in 1 .. Count + 1 : Content'[k] = Append(Content, Head(in[p]))[k]
  BY <1>1, <1>2, <1>3, <1>4, <1>5, AppendProperties DEF Content
<1>8. Content' = Append(Content, Head(in[p]))
  BY <1>2, <1>5, <1>6, <1>7, SeqEqual
<1> QED BY <1>2, <1>5, <1>8 DEF Channel!Put, EnqPut, EnqPut_waking

\* A dequeue out of the ring is a Get of the channel.
LEMMA DeqTakeGets ==
  ASSUME QueueIInv, QueueIInv', NEW c \in Consumers, DeqTake(c)
  PROVE  Channel!Get
<1> USE QueueAssumption DEF DeqTake
<1>1. Count > 0 /\ Count' = Count - 1 /\ Count \in Nat
  BY DEF QueueIInv, QueueTypeOK, Count, queue_is_empty, Inc
<1>2. \A k \in 1 .. Count - 1 : buf'[Slot(k)'] = buf[Slot(k + 1)]
  BY <1>1 DEF QueueIInv, QueueTypeOK, Count, Slot, queue_is_empty, Inc
<1>3. Slot(1) = start
  BY DEF Slot, QueueIInv, QueueTypeOK
<1> HIDE DEF DeqTake
<1>4. Content \in Seq(Item) /\ Len(Content) = Count
      /\ Content' \in Seq(Item) /\ Len(Content') = Count'
  <2>1. QueueIInv' => ContentTyped'
    BY ContentType, PTL
  <2> QED BY <2>1, ContentType, Zenon DEF ContentTyped
<1>5. Content # << >>
  <2>1. Len(Content) # 0 BY <1>1, <1>4
  <2>2. Len(<< >>) = 0 OBVIOUS
  <2> QED BY <2>1, <2>2, Zenon
<1>6. Head(Content) = buf[start]
  <2>1. Content[1] = buf[Slot(1)]
    <3>1. 1 \in 1 .. Count BY <1>1
    <3> QED BY <3>1, Zenon DEF Content
  <2>2. Head(Content) = Content[1]
    BY <1>4, <1>5, HeadTailProperties
  <2> QED BY <1>3, <2>1, <2>2, Zenon
<1>7. /\ Tail(Content) \in Seq(Item)
      /\ Len(Tail(Content)) = Count - 1
      /\ \A k \in 1 .. Count - 1 : Tail(Content)[k] = Content[k + 1]
  BY <1>4, <1>5, HeadTailProperties
<1>8. \A k \in 1 .. Count - 1 : Content'[k] = Tail(Content)[k]
  BY <1>1, <1>2, <1>7 DEF Content
<1>9. Content' = Tail(Content)
  BY <1>1, <1>4, <1>7, <1>8, SeqEqual
<1> QED BY <1>5, <1>6, <1>9, Zenon DEF Channel!Get, DeqTake

\* Every other step of the queue leaves what the channel holds alone.
LEMMA CallsStutter ==
  ASSUME \/ \E p \in Producers : ProducerCall(p)
         \/ \E c \in Consumers : ConsumerCall(c)
  PROVE  UNCHANGED <<ring, taken>>
<1>1. ASSUME NEW p \in Producers, ProducerCall(p) PROVE UNCHANGED <<ring, taken>>
  BY <1>1 DEF ProducerCall, queue_enq_one, queue_enq_many, queue_cache_flush,
     queue_cache_enq_one, Submit
<1>2. ASSUME NEW c \in Consumers, ConsumerCall(c) PROVE UNCHANGED <<ring, taken>>
  BY <1>2 DEF ConsumerCall, queue_deq_one, queue_deq_many, queue_timeddeq_many,
     Request
<1> QED BY <1>1, <1>2

\* Taking and releasing the mutex, waiting and waking are no steps of the channel.
LEMMA LockingStutters ==
  ASSUME \/ \E t \in Callers : Acquire(t) \/ SpuriousWakeup(t)
         \/ \E p \in Producers : EnqWait(p) \/ EnqReturn(p)
         \/ \E c \in Consumers : \/ DeqWait(c) \/ DeqStart(c) \/ DeqReturn(c)
                                 \/ TimeOut(c) \/ TimedOutReturn(c)
  PROVE  UNCHANGED <<ring, taken>>
<1>1. ASSUME NEW t \in Callers, Acquire(t) \/ SpuriousWakeup(t)
      PROVE  UNCHANGED <<ring, taken>>
  <2>1. CASE Acquire(t)
    BY <2>1 DEF Acquire
  <2>2. CASE SpuriousWakeup(t)
    BY <2>2 DEF SpuriousWakeup
  <2> QED BY <1>1, <2>1, <2>2
<1>2. ASSUME NEW p \in Producers, EnqWait(p) \/ EnqReturn(p)
      PROVE  UNCHANGED <<ring, taken>>
  <2>1. CASE EnqWait(p)
    BY <2>1 DEF EnqWait
  <2>2. CASE EnqReturn(p)
    BY <2>2 DEF EnqReturn
  <2> QED BY <1>2, <2>1, <2>2
<1>3. ASSUME NEW c \in Consumers, DeqWait(c) \/ DeqStart(c) \/ DeqReturn(c)
      PROVE  UNCHANGED <<ring, taken>>
  BY <1>3 DEF DeqWait, DeqStart, DeqReturn, DeqReturn_waking
<1>4. ASSUME NEW c \in Consumers, TimeOut(c) \/ TimedOutReturn(c)
      PROVE  UNCHANGED <<ring, taken>>
  BY <1>4 DEF TimeOut, TimedOutReturn
<1> QED BY <1>1, <1>2, <1>3, <1>4

\* No step but these two changes what the channel holds or has handed out.
LEMMA OtherStepsStutter ==
  ASSUME QueueNext, ~\E p \in Producers : EnqPut(p), ~\E c \in Consumers : DeqTake(c)
  PROVE  UNCHANGED <<ring, taken>>
BY CallsStutter, LockingStutters DEF QueueNext, ProducerStep, ConsumerStep

\* queue.c implements a bounded first-in first-out channel of bufsiz - 1
\* items: every enqueue of an item puts it, every dequeue gets the oldest.
THEOREM QueueImplementsFifo == QueueSpec => ImplementsFifo
<1>1. QueueInit => Channel!FifoInit
  BY QueueAssumption, EmptySeq DEF QueueInit, queue_init, Channel!FifoInit, Content, Count
<1>2. QueueIInv /\ QueueIInv' /\ [QueueNext]_queueVars => [Channel!FifoNext]_<<Content, taken>>
  <2> SUFFICES ASSUME QueueIInv, QueueIInv', [QueueNext]_queueVars
               PROVE  [Channel!FifoNext]_<<Content, taken>>
    OBVIOUS
  <2>1. ASSUME NEW p \in Producers, EnqPut(p) PROVE Channel!FifoNext
    <3>1. Head(in[p]) \in Item
      BY <2>1, HeadTailProperties DEF QueueIInv, QueueTypeOK, EnqPut, EnqPut_waking
    <3> QED BY <2>1, <3>1, EnqPutPuts DEF Channel!FifoNext
  <2>2. ASSUME NEW c \in Consumers, DeqTake(c) PROVE Channel!FifoNext
    BY <2>2, DeqTakeGets DEF Channel!FifoNext
  <2>3. CASE UNCHANGED queueVars
    BY <2>3, ContentUnchanged DEF queueVars, ring
  <2> QED BY <2>1, <2>2, <2>3, OtherStepsStutter, ContentUnchanged
<1> QED BY <1>1, <1>2, QueueInvariant, PTL DEF QueueSpec, ImplementsFifo,
       Channel!FifoSpec

-----------------------------------------------------------------------------
(* The items of a producer come out in its order.                          *)

\* The next item of p at the end of the stream keeps the order of p, and the
\* order of the other producers.
LEMMA InOrderAppend ==
  ASSUME NEW s \in Seq(Item), NEW p \in Producers, NEW k \in 1 .. MaxItems
  PROVE  /\ InOrder(s, p, k - 1) => InOrder(Append(s, <<p, k>>), p, k)
         /\ \A q \in Producers, e \in Nat :
              q # p /\ InOrder(s, q, e) => InOrder(Append(s, <<p, k>>), q, e)
<1> DEFINE t == Append(s, <<p, k>>)
<1>1. <<p, k>> \in Item BY DEF Item
<1>2. /\ Len(s) \in Nat /\ Len(t) = Len(s) + 1
      /\ \A i \in 1 .. Len(s) : t[i] = s[i]
      /\ t[Len(s) + 1] = <<p, k>>
  BY <1>1, AppendProperties, LenProperties
<1> HIDE DEF t
<1>3. ASSUME InOrder(s, p, k - 1) PROVE InOrder(t, p, k)
  <2>1. ASSUME NEW i \in 1 .. Len(t), NEW j \in 1 .. Len(t), NEW m \in 1 .. MaxItems,
               NEW n \in 1 .. MaxItems, i < j, t[i] = <<p, m>>, t[j] = <<p, n>>
        PROVE  m < n
    <3>1. i \in 1 .. Len(s) /\ s[i] = <<p, m>> BY <1>2, <2>1
    <3>2. m <= k - 1 BY <1>3, <3>1 DEF InOrder
    <3>3. CASE j = Len(s) + 1 BY <1>2, <2>1, <3>2, <3>3
    <3>4. CASE j \in 1 .. Len(s) BY <1>2, <1>3, <2>1, <3>1, <3>4 DEF InOrder
    <3> QED BY <1>2, <3>3, <3>4
  <2>2. ASSUME NEW n \in 1 .. MaxItems
        PROVE  n <= k <=> \E i \in 1 .. Len(t) : t[i] = <<p, n>>
    <3>1. (\E i \in 1 .. Len(t) : t[i] = <<p, n>>)
          <=> (n = k \/ \E i \in 1 .. Len(s) : s[i] = <<p, n>>)
      BY <1>2
    <3>2. n <= k - 1 <=> \E i \in 1 .. Len(s) : s[i] = <<p, n>>
      BY <1>3, Zenon DEF InOrder
    <3>3. n <= k <=> n = k \/ n <= k - 1
      BY QueueAssumption
    <3> QED BY <3>1, <3>2, <3>3
  <2> QED BY <2>1, <2>2, Zenon DEF InOrder
<1>4. ASSUME NEW q \in Producers, NEW e \in Nat, q # p, InOrder(s, q, e) PROVE InOrder(t, q, e)
  <2>1. \A i \in 1 .. Len(t), n \in 1 .. MaxItems :
          t[i] = <<q, n>> <=> i \in 1 .. Len(s) /\ s[i] = <<q, n>>
    BY <1>2, <1>4
  <2>2. 1 .. Len(s) \subseteq 1 .. Len(t) BY <1>2
  <2> QED BY <1>4, <2>1, <2>2, Zenon DEF InOrder
<1> QED BY <1>3, <1>4 DEF t

\* A call hands over what is in the cache, or new items, or both.
LEMMA AccountedSubmit ==
  ASSUME NEW s, NEW p \in Producers, NEW c \in Seq(Item), NEW m \in Nat, NEW n \in Nat,
         NEW batch \in Seq(Item), NEW cached \in Seq(Item), Accounted(s, p, << >>, c, m),
         Len(batch) + Len(cached) = Len(c) + n,
         \A k \in 1 .. Len(batch) : batch[k] = <<p, m - Len(c) + k>>,
         \A k \in 1 .. Len(cached) : cached[k] = <<p, m + n - Len(cached) + k>>
  PROVE  Accounted(s, p, batch, cached, m + n)
<1> DEFINE e == m - Len(c)
<1>1. Len(batch) \in Nat /\ Len(cached) \in Nat /\ Len(c) \in Nat /\ Len(<< >>) = 0
  BY LenProperties
<1>2. m - Len(<< >>) - Len(c) = e BY <1>1
<1>3. m + n - Len(batch) - Len(cached) = e /\ m + n - Len(cached) = e + Len(batch)
  <2>1. PICK a \in Nat : a = Len(batch) BY <1>1
  <2>2. PICK b \in Nat : b = Len(cached) BY <1>1
  <2>3. PICK l \in Nat : l = Len(c) BY <1>1
  <2>4. a + b = l + n BY <2>1, <2>2, <2>3
  <2>5. m + n - a - b = m - l /\ m + n - b = m - l + a BY <2>4
  <2> QED BY <2>1, <2>2, <2>3, <2>5
<1> HIDE DEF e
<1>4. e >= 0 /\ InOrder(s, p, e) BY <1>2, Zenon DEF Accounted
<1>6. \A k \in 1 .. Len(cached) : cached[k] = <<p, e + Len(batch) + k>> BY <1>3
<1>7. \A k \in 1 .. Len(batch) : batch[k] = <<p, e + k>> BY DEF e
<1> QED BY <1>3, <1>4, <1>6, <1>7 DEF Accounted

\* The head of the batch is the next item.
LEMMA AccountedPut ==
  ASSUME NEW s \in Seq(Item), NEW p \in Producers, NEW batch \in Seq(Item), NEW c \in Seq(Item),
         NEW m \in Nat, Accounted(s, p, batch, c, m), batch # << >>
  PROVE  \E k \in 1 .. MaxItems : /\ Head(batch) = <<p, k>>
                                  /\ Accounted(Append(s, <<p, k>>), p, Tail(batch), c, m)
<1> DEFINE e == m - Len(batch) - Len(c)
<1>1. /\ Head(batch) \in Item /\ Tail(batch) \in Seq(Item) /\ Len(Tail(batch)) = Len(batch) - 1
      /\ \A i \in 1 .. Len(batch) - 1 : Tail(batch)[i] = batch[i + 1]
      /\ Len(c) \in Nat /\ Len(batch) \in Nat /\ Len(batch) >= 1
      /\ Head(batch) = batch[1]
  BY HeadTailProperties, LenProperties
<1>2. /\ e >= 0 /\ InOrder(s, p, e)
      /\ \A n \in 1 .. Len(batch) : batch[n] = <<p, e + n>>
      /\ \A n \in 1 .. Len(c) : c[n] = <<p, e + Len(batch) + n>>
  BY DEF Accounted
<1>3. m - Len(Tail(batch)) - Len(c) = e + 1 /\ e \in Int
      /\ e + 1 + Len(Tail(batch)) = e + Len(batch)
  BY <1>1
<1> HIDE DEF e
<1>4. Head(batch) = <<p, e + 1>> BY <1>1, <1>2
<1>5. e + 1 \in 1 .. MaxItems BY <1>1, <1>4 DEF Item
<1>6. InOrder(Append(s, <<p, e + 1>>), p, e + 1)
  <2>1. PICK k \in 1 .. MaxItems : k = e + 1 BY <1>5
  <2>2. k - 1 = e BY <1>3, <2>1
  <2>3. InOrder(s, p, e) BY <1>2
  <2>4. InOrder(s, p, k - 1) BY <2>2, <2>3
  <2>5. InOrder(Append(s, <<p, k>>), p, k) BY <2>4, InOrderAppend
  <2> QED BY <2>1, <2>5
<1>7. \A n \in 1 .. Len(Tail(batch)) : Tail(batch)[n] = <<p, e + 1 + n>>
  BY <1>1, <1>2, <1>3
<1>8. Accounted(Append(s, <<p, e + 1>>), p, Tail(batch), c, m)
  BY <1>2, <1>3, <1>5, <1>6, <1>7 DEF Accounted
<1> QED BY <1>4, <1>5, <1>8, Zenon

\* An item of another producer makes no difference.
LEMMA AccountedOther ==
  ASSUME NEW s \in Seq(Item), NEW p \in Producers, NEW k \in 1 .. MaxItems,
         NEW q \in Producers, q # p, NEW batch \in Seq(Item), NEW c \in Seq(Item), NEW m \in Nat,
         Accounted(s, q, batch, c, m)
  PROVE  Accounted(Append(s, <<p, k>>), q, batch, c, m)
<1> DEFINE e == m - Len(batch) - Len(c)
<1>1. e \in Int BY LenProperties
<1>2. e >= 0 /\ InOrder(s, q, e) BY DEF Accounted
<1> HIDE DEF e
<1>3. InOrder(Append(s, <<p, k>>), q, e) BY <1>1, <1>2, InOrderAppend
<1> QED BY <1>3, Zenon DEF Accounted, e

\* The invariant: ProducerOrder, and no call overwrites an item, for the batch
\* of a producer that is in no call is empty, and so is the cache of one that
\* has none.
OrderOf(p) ==
  /\ Accounted(taken \o Content, p, in[p], cache[p], made[p])
  /\ qPc[p] = "idle" => in[p] = << >>
  /\ p \notin CachedProducers => cache[p] = << >>

OrderInv == \A p \in Producers : OrderOf(p)

\* What a step leaves to a producer that it does not concern.
LEMMA OrderKept ==
  ASSUME NEW p \in Producers, OrderOf(p), taken' \o Content' = taken \o Content,
         in'[p] = in[p], cache'[p] = cache[p], made'[p] = made[p],
         qPc'[p] = "idle" => qPc[p] = "idle" \/ in[p] = << >>
  PROVE  OrderOf(p)'
BY DEF OrderOf

\* Types of what belongs to a producer.
LEMMA OwnTypes ==
  ASSUME QueueIInv, NEW p \in Producers
  PROVE  in[p] \in Seq(Item) /\ cache[p] \in Seq(Item) /\ made[p] \in Nat /\ p \in Callers
BY QueueAssumption DEF QueueIInv, QueueTypeOK, Callers

\* queue_enq_one, queue_enq_many, queue_cache_flush and queue_cache_enq_one give
\* the new items the next numbers and lose none of the cache.
LEMMA SubmitOrder ==
  ASSUME QueueIInv, OrderInv, NEW p \in Producers, NEW batch \in Seq(Item), NEW cached \in Seq(Item),
         NEW n \in Nat, Submit(p, batch, cached, n),
         Len(batch) + Len(cached) = Len(cache[p]) + n,
         \A k \in 1 .. Len(batch) : batch[k] = <<p, made[p] - Len(cache[p]) + k>>,
         \A k \in 1 .. Len(cached) : cached[k] = <<p, made[p] + n - Len(cached) + k>>,
         p \notin CachedProducers => cached = << >>
  PROVE  OrderInv'
<1>1. taken' \o Content' = taken \o Content BY ContentUnchanged, Zenon DEF Submit
<1>2. ASSUME NEW q \in Producers, q # p PROVE OrderOf(q)'
  <2>1. in'[q] = in[q] /\ cache'[q] = cache[q] /\ made'[q] = made[q] /\ qPc'[q] = qPc[q]
    BY <1>2, OwnTypes, Zenon DEF Submit, QueueIInv, QueueTypeOK
  <2> QED BY <1>1, <2>1, OrderKept, Zenon DEF OrderInv
<1>3. /\ in'[p] = batch /\ cache'[p] = cached /\ made'[p] = made[p] + n /\ qPc'[p] = "lock"
      /\ in[p] = << >>
  BY OwnTypes DEF Submit, QueueIInv, QueueTypeOK, OrderInv, OrderOf
<1>4. Accounted(taken \o Content, p, << >>, cache[p], made[p])
  BY <1>3, Zenon DEF OrderInv, OrderOf
<1>5. Accounted(taken \o Content, p, batch, cached, made[p] + n)
  BY <1>4, OwnTypes, AccountedSubmit, Zenon
<1>6. OrderOf(p)' BY <1>1, <1>3, <1>5, Zenon DEF OrderOf
<1> QED BY <1>2, <1>6 DEF OrderInv

\* The calls of a producer.
LEMMA CallOrder ==
  ASSUME QueueIInv, OrderInv, NEW p \in Producers, ProducerCall(p)
  PROVE  OrderInv'
<1> USE QueueAssumption
<1> DEFINE m == made[p]
           c == cache[p]
           one == <<NextItem(p)>>
<1>1. m \in Nat /\ c \in Seq(Item) /\ << >> \in Seq(Item) /\ Len(c) \in Nat /\ Len(<< >>) = 0
  BY OwnTypes, EmptySeq, LenProperties, Zenon
<1>2. p \notin CachedProducers => c = << >> BY DEF OrderInv, OrderOf
<1>3. m + 1 <= MaxItems => one \in Seq(Item)
  BY <1>1 DEF NextItem, Item
<1>4. Len(one) = 1 /\ one[1] = <<p, m + 1>> BY DEF NextItem
<1>5. qPc[p] = "idle" => \A k \in 1 .. Len(c) : c[k] = <<p, m - Len(c) + k>>
  <2> SUFFICES ASSUME qPc[p] = "idle" PROVE \A k \in 1 .. Len(c) : c[k] = <<p, m - Len(c) + k>>
    OBVIOUS
  <2>1. Accounted(taken \o Content, p, << >>, c, m) BY Zenon DEF OrderInv, OrderOf
  <2>2. m - Len(<< >>) - Len(c) + Len(<< >>) = m - Len(c) BY <1>1
  <2> HIDE DEF m, c
  <2> QED BY <2>1, <2>2 DEF Accounted
<1> HIDE DEF one, m, c
<1>6. CASE queue_enq_one(p)
  <2>1. p \notin CachedProducers /\ Submit(p, one, << >>, 1) /\ m + 1 <= MaxItems
    BY <1>6 DEF queue_enq_one, Submit, one, m
  <2>2. Len(one) + Len(<< >>) = Len(c) + 1 BY <1>1, <1>2, <1>4, <2>1
  <2>3. \A k \in 1 .. Len(one) : one[k] = <<p, m - Len(c) + k>> BY <1>1, <1>2, <1>4, <2>1
  <2>4. \A k \in 1 .. Len(<< >>) : << >>[k] = <<p, m + 1 - Len(<< >>) + k>> BY <1>1
  <2> QED BY <1>1, <1>3, <2>1, <2>2, <2>3, <2>4, SubmitOrder, Zenon DEF m, c
<1>7. CASE \E n \in 1 .. MaxItems : queue_enq_many(p, n)
  <2> PICK n \in 1 .. MaxItems : queue_enq_many(p, n) BY <1>7
  <2> DEFINE batch == [i \in 1 .. n |-> <<p, made[p] + i>>]
  <2>1. n \in Nat /\ m + n <= MaxItems /\ Submit(p, batch, << >>, n) /\ p \notin CachedProducers
    BY DEF queue_enq_many, Submit, m
  <2>2. batch \in Seq(Item) BY <1>1, <2>1, BatchType, Zenon DEF m
  <2>3. Len(batch) = n /\ \A k \in 1 .. n : batch[k] = <<p, m + k>>
    BY <2>1, <2>2, LenProperties DEF m
  <2> HIDE DEF batch
  <2>4. Len(batch) + Len(<< >>) = Len(c) + n BY <1>1, <1>2, <2>1, <2>3
  <2>5. \A k \in 1 .. Len(batch) : batch[k] = <<p, m - Len(c) + k>> BY <1>1, <1>2, <2>1, <2>3
  <2>6. \A k \in 1 .. Len(<< >>) : << >>[k] = <<p, m + n - Len(<< >>) + k>> BY <1>1
  <2> QED BY <1>1, <2>1, <2>2, <2>4, <2>5, <2>6, SubmitOrder, Zenon DEF m, c
<1>8. CASE queue_cache_flush(p)
  <2>1. Submit(p, c, << >>, 0) /\ qPc[p] = "idle" BY <1>8 DEF queue_cache_flush, Submit, c
  <2>2. Len(c) + Len(<< >>) = Len(c) + 0 BY <1>1
  <2>3. \A k \in 1 .. Len(<< >>) : << >>[k] = <<p, m + 0 - Len(<< >>) + k>> BY <1>1
  <2>4. 0 \in Nat OBVIOUS
  <2> QED BY <1>1, <1>5, <2>1, <2>2, <2>3, <2>4, SubmitOrder, Zenon DEF m, c
<1>9. CASE queue_cache_enq_one(p)
  <2>1. p \in CachedProducers /\ qPc[p] = "idle" BY <1>9, Zenon DEF queue_cache_enq_one, Submit
  <2>2. CASE CacheFull(p) /\ Submit(p, cache[p], <<NextItem(p)>>, 1)
    <3>1. Submit(p, c, one, 1) /\ m + 1 <= MaxItems BY <2>2 DEF Submit, one, m, c
    <3>2. Len(c) + Len(one) = Len(c) + 1 BY <1>4
    <3>3. \A k \in 1 .. Len(one) : one[k] = <<p, m + 1 - Len(one) + k>> BY <1>1, <1>4
    <3>4. 1 \in Nat OBVIOUS
    <3> QED BY <1>1, <1>3, <1>5, <2>1, <3>1, <3>2, <3>3, <3>4, SubmitOrder, Zenon DEF m, c
  <2>3. CASE /\ made[p] < MaxItems
             /\ cache' = [cache EXCEPT ![p] = Append(@, NextItem(p))]
             /\ made' = [made EXCEPT ![p] = @ + 1]
             /\ UNCHANGED <<ring, qMtx, full, empty, qPc, in, room, timed,
                            wasFull, taken>>
    <3> DEFINE s == taken \o Content
               d == Append(c, <<p, m + 1>>)
    <3>1. taken' \o Content' = s BY <2>3, ContentUnchanged
    <3>2. ASSUME NEW q \in Producers, q # p PROVE OrderOf(q)'
      <4>1. in'[q] = in[q] /\ cache'[q] = cache[q] /\ made'[q] = made[q] /\ qPc'[q] = qPc[q]
        BY <2>3, <3>2 DEF QueueIInv, QueueTypeOK
      <4> QED BY <3>1, <4>1, OrderKept DEF OrderInv
    <3>3. <<p, m + 1>> \in Item BY <1>1, <2>3 DEF Item, m
    <3>4. cache'[p] = d /\ made'[p] = m + 1 /\ in'[p] = in[p] /\ qPc' = qPc
      BY <2>3 DEF QueueIInv, QueueTypeOK, NextItem, m, c
    <3>5. /\ d \in Seq(Item) /\ Len(d) = Len(c) + 1
          /\ \A k \in 1 .. Len(c) : d[k] = c[k]
          /\ d[Len(c) + 1] = <<p, m + 1>>
      <4> DEFINE e == <<p, m + 1>>
      <4>1. c \in Seq(Item) /\ e \in Item BY <1>1, <3>3
      <4>2. d = Append(c, e) OBVIOUS
      <4> HIDE DEF c, m, d, e
      <4>3. /\ d \in Seq(Item) /\ Len(d) = Len(c) + 1
            /\ \A k \in 1 .. Len(c) : d[k] = c[k]
            /\ d[Len(c) + 1] = e
        BY <4>1, <4>2, AppendProperties
      <4> QED BY <4>3, Zenon DEF e
    <3>6. in[p] = << >> /\ Accounted(s, p, << >>, c, m)
      BY <2>1, Zenon DEF OrderInv, OrderOf, m, c
    <3> HIDE DEF s, d
    <3>7. Len(<< >>) + Len(d) = Len(c) + 1 /\ 1 \in Nat BY <1>1, <3>5
    <3>8. \A k \in 1 .. Len(<< >>) : << >>[k] = <<p, m - Len(c) + k>> BY <1>1
    <3>9. \A k \in 1 .. Len(d) : d[k] = <<p, m + 1 - Len(d) + k>>
      <4>1. m + 1 - Len(d) = m - Len(c) BY <1>1, <3>5
      <4>2. m - Len(c) + (Len(c) + 1) = m + 1 BY <1>1
      <4>3. TAKE k \in 1 .. Len(d)
      <4>4. CASE k \in 1 .. Len(c) BY <1>5, <2>1, <3>5, <4>1, <4>4
      <4>5. CASE k = Len(c) + 1 BY <3>5, <4>1, <4>2, <4>5
      <4> QED BY <1>1, <3>5, <4>3, <4>4, <4>5
    <3>10. Accounted(s, p, << >>, d, m + 1)
      BY <1>1, <3>5, <3>6, <3>7, <3>8, <3>9, AccountedSubmit, Zenon
    <3>11. OrderOf(p)' BY <2>1, <3>1, <3>4, <3>6, <3>10 DEF OrderOf
    <3> QED BY <3>2, <3>11 DEF OrderInv
  <2> QED BY <1>9, <2>2, <2>3 DEF queue_cache_enq_one
<1> QED BY <1>6, <1>7, <1>8, <1>9 DEF ProducerCall

\* An item that is enqueued is the next one of its producer.
LEMMA EnqPutOrder ==
  ASSUME QueueIInv, QueueIInv', OrderInv, NEW p \in Producers, EnqPut(p)
  PROVE  OrderInv'
<1> DEFINE s == taken \o Content
<1>1. Content \in Seq(Item) /\ taken \in Seq(Item)
  BY ContentType DEF ContentTyped, QueueIInv, QueueTypeOK
<1>2. s \in Seq(Item) BY <1>1, ConcatProperties
<1>3. in[p] # << >> /\ qPc[p] # "idle" BY Zenon DEF EnqPut, EnqPut_waking
<1>4. Accounted(s, p, in[p], cache[p], made[p]) BY Zenon DEF OrderInv, OrderOf
<1> HIDE DEF s
<1>5. PICK k \in 1 .. MaxItems : /\ Head(in[p]) = <<p, k>>
                                 /\ Accounted(Append(s, <<p, k>>), p, Tail(in[p]),
                                           cache[p], made[p])
  BY <1>2, <1>3, <1>4, OwnTypes, AccountedPut
<1>6. taken' \o Content' = Append(s, <<p, k>>)
  <2>1. Content' = Append(Content, <<p, k>>) /\ taken' = taken
    BY <1>5, EnqPutPuts DEF Channel!Put
  <2>2. <<p, k>> \in Item BY DEF Item
  <2>3. <<(<<p, k>>)>> \in Seq(Item) BY <2>2
  <2> QED BY <1>1, <1>2, <2>1, <2>2, <2>3, AppendIsConcat, ConcatAssociative DEF s
<1>7. /\ in'[p] = Tail(in[p]) /\ cache' = cache /\ made' = made /\ qPc' = qPc
      /\ \A q \in Producers : q # p => in'[q] = in[q]
  BY Zenon DEF EnqPut, EnqPut_waking, QueueIInv, QueueTypeOK
<1>8. ASSUME NEW q \in Producers, q # p PROVE OrderOf(q)'
  <2>1. Accounted(s, q, in[q], cache[q], made[q]) BY Zenon DEF OrderInv, OrderOf, s
  <2>2. Accounted(Append(s, <<p, k>>), q, in[q], cache[q], made[q])
    BY <1>2, <1>8, <2>1, OwnTypes, AccountedOther
  <2> QED BY <1>6, <1>7, <1>8, <2>2, Zenon DEF OrderOf, OrderInv
<1>9. OrderOf(p)' BY <1>3, <1>5, <1>6, <1>7, Zenon DEF OrderOf, OrderInv
<1> QED BY <1>8, <1>9 DEF OrderInv

\* An item that is dequeued stays where it was in the stream.
LEMMA DeqTakeOrder ==
  ASSUME QueueIInv, QueueIInv', OrderInv, NEW c \in Consumers, DeqTake(c)
  PROVE  OrderInv'
<1>1. Content \in Seq(Item) /\ taken \in Seq(Item)
  BY ContentType DEF ContentTyped, QueueIInv, QueueTypeOK
<1>2. Content # << >> /\ Content' = Tail(Content) /\ taken' = Append(taken, Head(Content))
  BY DeqTakeGets DEF Channel!Get
<1>3. taken' \o Content' = taken \o Content
  <2>1. Head(Content) \in Item /\ Tail(Content) \in Seq(Item) /\ <<Head(Content)>> \in Seq(Item)
    BY <1>1, <1>2, HeadTailProperties
  <2>2. <<Head(Content)>> \o Tail(Content) = Content
    BY <1>1, <1>2
  <2> QED BY <1>1, <1>2, <2>1, <2>2, AppendIsConcat, ConcatAssociative
<1>4. UNCHANGED <<in, cache, made, qPc>> BY Zenon DEF DeqTake
<1> QED BY <1>3, <1>4, OrderKept DEF OrderInv

\* The other steps leave the producers' items alone.
LEMMA LockingOrder ==
  ASSUME QueueIInv, OrderInv,
         \/ \E t \in Callers : Acquire(t) \/ SpuriousWakeup(t)
         \/ \E p \in Producers : EnqWait(p) \/ EnqReturn(p)
         \/ \E c \in Consumers : \/ ConsumerCall(c) \/ DeqWait(c) \/ DeqStart(c)
                                 \/ DeqReturn(c) \/ TimeOut(c)
                                 \/ TimedOutReturn(c)
  PROVE  OrderInv'
<1>1. UNCHANGED <<ring, taken>> BY CallsStutter, LockingStutters
<1>2. taken' \o Content' = taken \o Content BY <1>1, ContentUnchanged
<1> DEFINE Kept == /\ UNCHANGED <<in, cache, made>>
                   /\ \A p \in Producers : qPc'[p] = "idle" => qPc[p] = "idle" \/ in[p] = << >>
<1> USE QueueAssumption DEF QueueIInv, QueueTypeOK, Callers
<1>3. ASSUME NEW t \in Callers, Acquire(t) \/ SpuriousWakeup(t) PROVE Kept
  BY <1>3 DEF Acquire, SpuriousWakeup
<1>4. ASSUME NEW p \in Producers, EnqWait(p) \/ EnqReturn(p) PROVE Kept
  BY <1>4 DEF EnqWait, EnqReturn
<1>5. ASSUME NEW c \in Consumers, DeqWait(c) \/ DeqStart(c) \/ DeqReturn(c) PROVE Kept
  BY <1>5 DEF DeqWait, DeqStart, DeqReturn, DeqReturn_waking
<1>6. ASSUME NEW c \in Consumers, TimeOut(c) \/ TimedOutReturn(c) PROVE Kept
  BY <1>6 DEF TimeOut, TimedOutReturn
<1>7. ASSUME NEW c \in Consumers, ConsumerCall(c) PROVE Kept
  BY <1>7 DEF ConsumerCall, queue_deq_one, queue_deq_many, queue_timeddeq_many, Request
<1>8. Kept BY <1>3, <1>4, <1>5, <1>6, <1>7
<1> QED BY <1>2, <1>8, OrderKept DEF OrderInv

\* No step breaks the order.
LEMMA NextOrder == QueueIInv /\ QueueIInv' /\ OrderInv /\ [QueueNext]_queueVars => OrderInv'
<1> SUFFICES ASSUME QueueIInv, QueueIInv', OrderInv, [QueueNext]_queueVars PROVE OrderInv'
  OBVIOUS
<1>1. CASE QueueNext
  BY <1>1, CallOrder, LockingOrder, EnqPutOrder, DeqTakeOrder
     DEF QueueNext, ProducerStep, ConsumerStep
<1>2. CASE UNCHANGED queueVars
  BY <1>2, ContentUnchanged, OrderKept DEF queueVars, ring, OrderInv
<1> QED BY <1>1, <1>2

\* At first nothing was submitted.
LEMMA InitOrder == QueueInit => OrderInv
<1> SUFFICES ASSUME QueueInit, NEW p \in Producers PROVE OrderOf(p)
  BY DEF OrderInv
<1> USE QueueAssumption DEF QueueInit
<1>1. Count = 0 BY DEF queue_init, Count
<1>2. Content = << >> BY <1>1 DEF Content
<1>3. taken \o Content = << >> /\ Len(<< >>) = 0 BY <1>2
<1>4. in[p] = << >> /\ cache[p] = << >> /\ made[p] = 0 BY DEF QueueInit
<1>5. InOrder(<< >>, p, 0) BY <1>3 DEF InOrder
<1>6. Accounted(<< >>, p, << >>, << >>, 0) BY <1>3, <1>5 DEF Accounted
<1> QED BY <1>3, <1>4, <1>6, Zenon DEF OrderOf

\* No wakeup is lost, and whatever the interleaving of single, batched and
\* cached calls the items of each producer come out in the order of its calls,
\* none lost and none twice.
THEOREM QueueIsSafe == QueueSpec => []QueueSafe
<1>1. QueueIInv /\ OrderInv => QueueSafe
  BY DEF QueueIInv, OrderInv, OrderOf, ProducerOrder, QueueSafe
<1> QED BY <1>1, InitOrder, NextOrder, QueueInvariant, PTL DEF QueueSpec
=============================================================================
