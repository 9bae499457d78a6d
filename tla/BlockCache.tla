----------------------------- MODULE BlockCache -----------------------------
(***************************************************************************)
(* The caching allocators of alloc/: every thread has a local cache of     *)
(* blocks of the native size, and locals exchange blocks through a global  *)
(* cache under glob->mtx.  A single-threaded cache (the _st functions) has *)
(* no global behind it.  asalloc keeps its caches as stacks and llalloc as *)
(* lists; no property depends on which cached block is reused, so a cache  *)
(* is a set here and any of its members may be next.                       *)
(*                                                                         *)
(* A block in use may be freed by any thread: the perf tests allocate in   *)
(* one thread, pass the block through a queue and free it in another.      *)
(***************************************************************************)
EXTENDS Integers, FiniteSets

CONSTANTS Threads, Block,
          LocMax,    \* a local cache of this size is full: loc->capacity
          LocHalf,   \* loc->capacity/2
          GlobMax,   \* glob->capacity
          StMax,     \* st->capacity
          NoThread

\* The code stores after as_alloc_halve without testing again, so halving a
\* full cache must make room.
BlockCacheAssumption ==
  /\ LocMax \in Nat /\ LocHalf \in Nat /\ LocHalf < LocMax
  /\ GlobMax \in Nat /\ StMax \in Nat
  /\ IsFiniteSet(Block)
  /\ NoThread \notin Threads

VARIABLES
  heap,    \* what malloc may return
  used,    \* blocks handed out to callers
  big,     \* the used blocks whose header says more than native_size
  glob,    \* the global cache
  st,      \* the single-threaded cache
  live,    \* the threads whose local cache is initialised
  loc,     \* the local caches
  pend,    \* the block a thread is freeing while it halves its cache
  pc, mtx  \* where each thread is; the holder of glob->mtx

vars == <<heap, used, big, glob, st, live, loc, pend, pc, mtx>>

Init ==
  /\ heap = Block
  /\ used = {} /\ big = {} /\ glob = {} /\ st = {}
  /\ live = {}
  /\ loc = [t \in Threads |-> {}]
  /\ pend = [t \in Threads |-> {}]
  /\ pc = [t \in Threads |-> "idle"]
  /\ mtx = NoThread

Idle(t) == t \in live /\ pc[t] = "idle"
Goto(t, place) == pc' = [pc EXCEPT ![t] = place]

-----------------------------------------------------------------------------
local_init(t) ==
  /\ t \notin live
  /\ live' = live \cup {t}
  /\ UNCHANGED <<heap, used, big, glob, st, loc, pend, pc, mtx>>

local_free(t) ==
  /\ Idle(t)
  /\ live' = live \ {t}
  /\ heap' = heap \cup loc[t]
  /\ loc' = [loc EXCEPT ![t] = {}]
  /\ UNCHANGED <<used, big, glob, st, pend, pc, mtx>>

\* Once no local cache is left; a new global cache starts empty.
global_free ==
  /\ live = {}
  /\ heap' = heap \cup glob
  /\ glob' = {}
  /\ UNCHANGED <<used, big, st, live, loc, pend, pc, mtx>>

-----------------------------------------------------------------------------
\* More than native_size: straight from malloc, and marked so in the header.
alloc_big(b) ==
  /\ b \in heap
  /\ heap' = heap \ {b}
  /\ used' = used \cup {b}
  /\ big' = big \cup {b}
  /\ UNCHANGED <<glob, st, live, loc, pend, pc, mtx>>

free_big(b) ==
  /\ b \in big
  /\ heap' = heap \cup {b}
  /\ used' = used \ {b}
  /\ big' = big \ {b}
  /\ UNCHANGED <<glob, st, live, loc, pend, pc, mtx>>

\* Pop a block off the local cache.
Pop(t, b) ==
  /\ b \in loc[t]
  /\ loc' = [loc EXCEPT ![t] = @ \ {b}]
  /\ used' = used \cup {b}
  /\ Goto(t, "idle")
  /\ UNCHANGED <<heap, big, glob, st, live, pend, mtx>>

alloc_mt(t, b) == Idle(t) /\ Pop(t, b)

alloc_mt_empty(t) ==
  /\ Idle(t) /\ loc[t] = {}
  /\ Goto(t, "fill")
  /\ UNCHANGED <<heap, used, big, glob, st, live, loc, pend, mtx>>

\* Mutant: the global cache is not locked.
Lock_unguarded(t) ==
  /\ mtx' = t
  /\ \/ pc[t] = "fill" /\ Goto(t, "filling")
     \/ pc[t] = "halve" /\ Goto(t, "halving")
  /\ UNCHANGED <<heap, used, big, glob, st, live, loc, pend>>

Lock(t) ==
  /\ mtx = NoThread
  /\ mtx' = t
  /\ \/ pc[t] = "fill" /\ Goto(t, "filling")
     \/ pc[t] = "halve" /\ Goto(t, "halving")
  /\ UNCHANGED <<heap, used, big, glob, st, live, loc, pend>>

MoreToFill(t) == Cardinality(loc[t]) < LocHalf /\ glob # {}

\* Mutant: the block stays in the global cache.
FillMove_copy(t, b) ==
  /\ pc[t] = "filling" /\ MoreToFill(t)
  /\ b \in glob
  /\ loc' = [loc EXCEPT ![t] = @ \cup {b}]
  /\ UNCHANGED <<heap, used, big, glob, st, live, pend, pc, mtx>>

FillMove(t, b) ==
  /\ pc[t] = "filling" /\ MoreToFill(t)
  /\ b \in glob
  /\ glob' = glob \ {b}
  /\ loc' = [loc EXCEPT ![t] = @ \cup {b}]
  /\ UNCHANGED <<heap, used, big, st, live, pend, pc, mtx>>

FillUnlock(t) ==
  /\ pc[t] = "filling" /\ ~MoreToFill(t)
  /\ mtx' = NoThread
  /\ Goto(t, "alloc")
  /\ UNCHANGED <<heap, used, big, glob, st, live, loc, pend>>

AllocFilled(t, b) == pc[t] = "alloc" /\ Pop(t, b)

\* Nothing in the global cache either: malloc, which may fail.
AllocMalloc(t, b) ==
  /\ pc[t] = "alloc" /\ loc[t] = {}
  /\ b \in heap
  /\ heap' = heap \ {b}
  /\ used' = used \cup {b}
  /\ Goto(t, "idle")
  /\ UNCHANGED <<big, glob, st, live, loc, pend, mtx>>

AllocFail(t) ==
  /\ pc[t] = "alloc" /\ loc[t] = {}
  /\ Goto(t, "idle")
  /\ UNCHANGED <<heap, used, big, glob, st, live, loc, pend, mtx>>

-----------------------------------------------------------------------------
LocFull(t) == Cardinality(loc[t]) >= LocMax

\* Mutant: the size in the header is not compared with native_size.
free_mt_anysize(t, b) ==
  /\ Idle(t) /\ ~LocFull(t)
  /\ b \in used
  /\ used' = used \ {b}
  /\ loc' = [loc EXCEPT ![t] = @ \cup {b}]
  /\ UNCHANGED <<heap, big, glob, st, live, pend, pc, mtx>>

free_mt(t, b) ==
  /\ Idle(t) /\ ~LocFull(t)
  /\ b \in used \ big
  /\ used' = used \ {b}
  /\ loc' = [loc EXCEPT ![t] = @ \cup {b}]
  /\ UNCHANGED <<heap, big, glob, st, live, pend, pc, mtx>>

free_mt_full(t, b) ==
  /\ Idle(t) /\ LocFull(t)
  /\ b \in used \ big
  /\ used' = used \ {b}
  /\ pend' = [pend EXCEPT ![t] = {b}]
  /\ Goto(t, "halve")
  /\ UNCHANGED <<heap, big, glob, st, live, loc, mtx>>

AboveHalf(t) == Cardinality(loc[t]) > LocHalf
\* Mutant: one block too many.
GlobHasRoom_le == Cardinality(glob) <= GlobMax
GlobHasRoom == Cardinality(glob) < GlobMax

HalveMove(t, b) ==
  /\ pc[t] = "halving" /\ AboveHalf(t) /\ GlobHasRoom
  /\ b \in loc[t]
  /\ loc' = [loc EXCEPT ![t] = @ \ {b}]
  /\ glob' = glob \cup {b}
  /\ UNCHANGED <<heap, used, big, st, live, pend, pc, mtx>>

HalveUnlock(t) ==
  /\ pc[t] = "halving" /\ ~(AboveHalf(t) /\ GlobHasRoom)
  /\ mtx' = NoThread
  /\ Goto(t, "trim")
  /\ UNCHANGED <<heap, used, big, glob, st, live, loc, pend>>

\* Mutant: the loop takes no block from the cache, and does not advance.
HalveTrim_kept(t, b) ==
  /\ pc[t] = "trim" /\ AboveHalf(t)
  /\ b \in loc[t]
  /\ UNCHANGED <<heap, used, big, glob, st, live, loc, pend, pc, mtx>>

\* What the global cache had no room for goes back to malloc, unlocked.
HalveTrim(t, b) ==
  /\ pc[t] = "trim" /\ AboveHalf(t)
  /\ b \in loc[t]
  /\ loc' = [loc EXCEPT ![t] = @ \ {b}]
  /\ heap' = heap \cup {b}
  /\ UNCHANGED <<used, big, glob, st, live, pend, pc, mtx>>

FreePush(t) ==
  /\ pc[t] = "trim" /\ ~AboveHalf(t)
  /\ loc' = [loc EXCEPT ![t] = @ \cup pend[t]]
  /\ pend' = [pend EXCEPT ![t] = {}]
  /\ Goto(t, "idle")
  /\ UNCHANGED <<heap, used, big, glob, st, live, mtx>>

-----------------------------------------------------------------------------
(* The single-threaded cache.                                              *)

alloc_st(b) ==
  /\ \/ b \in st /\ st' = st \ {b} /\ heap' = heap
     \/ st = {} /\ b \in heap /\ heap' = heap \ {b} /\ st' = st
  /\ used' = used \cup {b}
  /\ UNCHANGED <<big, glob, live, loc, pend, pc, mtx>>

free_st(b) ==
  /\ b \in used \ big
  /\ used' = used \ {b}
  /\ IF Cardinality(st) >= StMax
       THEN heap' = heap \cup {b} /\ st' = st
       ELSE st' = st \cup {b} /\ heap' = heap
  /\ UNCHANGED <<big, glob, live, loc, pend, pc, mtx>>

st_free ==
  /\ st # {}
  /\ heap' = heap \cup st
  /\ st' = {}
  /\ UNCHANGED <<used, big, glob, live, loc, pend, pc, mtx>>

-----------------------------------------------------------------------------
FillStep(t) == FillUnlock(t) \/ AllocFail(t)
               \/ \E b \in Block : FillMove(t, b) \/ AllocFilled(t, b)
                                   \/ AllocMalloc(t, b)

HalveStep(t) == HalveUnlock(t) \/ FreePush(t)
                \/ \E b \in Block : HalveMove(t, b) \/ HalveTrim(t, b)

Call(t) == local_init(t) \/ local_free(t) \/ alloc_mt_empty(t)
           \/ \E b \in Block : alloc_mt(t, b) \/ free_mt(t, b)
                               \/ free_mt_full(t, b)

Next ==
  \/ \E t \in Threads : Call(t) \/ Lock(t) \/ FillStep(t) \/ HalveStep(t)
  \/ \E b \in Block : alloc_big(b) \/ free_big(b) \/ alloc_st(b) \/ free_st(b)
  \/ global_free \/ st_free

Spec == Init /\ [][Next]_vars

\* A thread inside an allocator call keeps running and gets the mutex.
FairSpec ==
  /\ Spec
  /\ \A t \in Threads : /\ WF_vars(FillStep(t) \/ HalveStep(t))
                        /\ SF_vars(Lock(t))

-----------------------------------------------------------------------------
(* Properties.                                                             *)

Places == {"idle", "fill", "filling", "alloc", "halve", "halving", "trim"}

\* Every variable keeps its type; only a block in use is marked as big.
TypeOK ==
  /\ heap \subseteq Block /\ used \subseteq Block /\ big \subseteq used
  /\ glob \subseteq Block /\ st \subseteq Block
  /\ live \subseteq Threads
  /\ loc \in [Threads -> SUBSET Block]
  /\ pend \in [Threads -> SUBSET Block]
  /\ pc \in [Threads -> Places]
  /\ mtx \in Threads \cup {NoThread}

\* The six kinds of places a block can be, and what each holds.
Holders == {"heap", "used", "glob", "st"} \X {NoThread}
             \cup {"loc", "pend"} \X Threads
Held(h) ==
  CASE h[1] = "heap" -> heap [] h[1] = "used" -> used
    [] h[1] = "glob" -> glob [] h[1] = "st" -> st
    [] h[1] = "loc" -> loc[h[2]] [] h[1] = "pend" -> pend[h[2]]

\* No block is handed out twice, cached twice or leaked: at every step of
\* every thread each block has exactly one holder.
OneHolder ==
  \A b \in Block : \E h \in Holders :
    /\ b \in Held(h)
    /\ \A g \in Holders : b \in Held(g) => g = h

\* The stores into loc->cache, glob->cache and st->cache stay inside their
\* arrays: free_mt stores without a second test after halving.
CachesFit ==
  /\ \A t \in Threads : Cardinality(loc[t]) <= LocMax
  /\ Cardinality(glob) <= GlobMax
  /\ Cardinality(st) <= StMax

\* A block of another size never enters a cache, so alloc_mt never returns one
\* smaller than native_size.
CachedAreNative ==
  \A h \in Holders : h[1] \notin {"heap", "used"} => Held(h) \cap big = {}

\* Whatever the other threads do to the global cache, a call that went for the
\* mutex comes back.
CallsReturn == \A t \in Threads : pc[t] # "idle" ~> pc[t] = "idle"

\* While a thread holds glob->mtx no other thread changes the global cache.
GlobUnderMutex ==
  [][glob' # glob => live = {} \/ (mtx # NoThread /\ mtx' = mtx
                                   /\ loc'[mtx] # loc[mtx])]_vars
=============================================================================
