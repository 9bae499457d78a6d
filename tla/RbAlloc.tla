------------------------------ MODULE RbAlloc -------------------------------
(***************************************************************************)
(* rballoc: the caching allocator whose caches are ring buffers.  A ring   *)
(* is empty when start = end, so one of its capacity slots is never used.  *)
(* ImplementsBlockCache says that through the rings the allocator is the   *)
(* one of BlockCache, with caches of capacity - 1 blocks.                  *)
(***************************************************************************)
EXTENDS Integers, FiniteSets

CONSTANTS Threads, Block, LocCap, GlobCap, StCap, NoThread, NULL

\* A local ring of two slots is full with one block, which is not more than
\* half: rb_alloc_halve then makes no room and rb_free_mt stores all the same.
RbAllocAssumption ==
  /\ LocCap \in Nat /\ LocCap >= 3
  /\ GlobCap \in Nat \ {0} /\ StCap \in Nat \ {0}
  /\ IsFiniteSet(Block)
  /\ NULL \notin Block /\ NoThread \notin Threads

VARIABLES heap, used, big, glob, st, live, loc, pend, pc, mtx

vars == <<heap, used, big, glob, st, live, loc, pend, pc, mtx>>

-----------------------------------------------------------------------------
(* Rings.                                                                  *)

\* The array is not cleared by malloc; NULL stands for a slot never stored to.
Empty(cap) == [cache |-> [i \in 0 .. cap - 1 |-> NULL], start |-> 0, end |-> 0]

Capacity(r) == Cardinality(DOMAIN r.cache)

Inc(r, i) == IF i + 1 >= Capacity(r) THEN 0 ELSE i + 1

IsEmpty(r) == r.start = r.end

IsFull(r) == r.start = Inc(r, r.end)

\* Mutant: the size of a ring that has wrapped.
local_size_wrap(r) == IF r.end >= r.start THEN r.end - r.start
                      ELSE Capacity(r) - r.start
local_size(r) == IF r.end >= r.start THEN r.end - r.start
                 ELSE Capacity(r) + r.end - r.start

First(r) == r.cache[r.start]

DropFirst(r) == [r EXCEPT !.cache[r.start] = NULL, !.start = Inc(r, r.start)]

Append(r, b) == [r EXCEPT !.cache[r.end] = b, !.end = Inc(r, r.end)]

\* The blocks the free functions find between start and end.
Blocks(r) == {r.cache[i] : i \in
  IF r.start <= r.end THEN r.start .. r.end - 1
  ELSE r.start .. Capacity(r) - 1 \cup 0 .. r.end - 1}

-----------------------------------------------------------------------------
Init ==
  /\ heap = Block
  /\ used = {} /\ big = {}
  /\ glob = Empty(GlobCap) /\ st = Empty(StCap)
  /\ live = {}
  /\ loc = [t \in Threads |-> Empty(LocCap)]
  /\ pend = [t \in Threads |-> NULL]
  /\ pc = [t \in Threads |-> "idle"]
  /\ mtx = NoThread

Idle(t) == t \in live /\ pc[t] = "idle"
Goto(t, place) == pc' = [pc EXCEPT ![t] = place]

rb_alloc_local_init(t) ==
  /\ t \notin live
  /\ live' = live \cup {t}
  /\ loc' = [loc EXCEPT ![t] = Empty(LocCap)]
  /\ UNCHANGED <<heap, used, big, glob, st, pend, pc, mtx>>

rb_alloc_local_free(t) ==
  /\ Idle(t)
  /\ live' = live \ {t}
  /\ heap' = heap \cup Blocks(loc[t])
  /\ loc' = [loc EXCEPT ![t] = Empty(LocCap)]
  /\ UNCHANGED <<used, big, glob, st, pend, pc, mtx>>

rb_alloc_global_free ==
  /\ live = {}
  /\ heap' = heap \cup Blocks(glob)
  /\ glob' = Empty(GlobCap)
  /\ UNCHANGED <<used, big, st, live, loc, pend, pc, mtx>>

-----------------------------------------------------------------------------
alloc_big(b) ==
  /\ b \in heap
  /\ heap' = heap \ {b}
  /\ used' = used \cup {b}
  /\ big' = big \cup {b}
  /\ UNCHANGED <<glob, st, live, loc, pend, pc, mtx>>

free_big(b) ==
  /\ b \in big
  /\ heap' = heap \cup {b}
  /\ used' = used \ {b}
  /\ big' = big \ {b}
  /\ UNCHANGED <<glob, st, live, loc, pend, pc, mtx>>

Pop(t) ==
  /\ ~IsEmpty(loc[t])
  /\ loc' = [loc EXCEPT ![t] = DropFirst(@)]
  /\ used' = used \cup {First(loc[t])}
  /\ Goto(t, "idle")
  /\ UNCHANGED <<heap, big, glob, st, live, pend, mtx>>

rb_alloc_mt(t) == Idle(t) /\ Pop(t)

rb_alloc_mt_empty(t) ==
  /\ Idle(t) /\ IsEmpty(loc[t])
  /\ Goto(t, "fill")
  /\ UNCHANGED <<heap, used, big, glob, st, live, loc, pend, mtx>>

Lock(t) ==
  /\ mtx = NoThread
  /\ mtx' = t
  /\ \/ pc[t] = "fill" /\ Goto(t, "filling")
     \/ pc[t] = "halve" /\ Goto(t, "halving")
  /\ UNCHANGED <<heap, used, big, glob, st, live, loc, pend>>

MoreToFill(t) == local_size(loc[t]) < LocCap \div 2 /\ ~IsEmpty(glob)

FillMove(t) ==
  /\ pc[t] = "filling" /\ MoreToFill(t)
  /\ loc' = [loc EXCEPT ![t] = Append(@, First(glob))]
  /\ glob' = DropFirst(glob)
  /\ UNCHANGED <<heap, used, big, st, live, pend, pc, mtx>>

FillUnlock(t) ==
  /\ pc[t] = "filling" /\ ~MoreToFill(t)
  /\ mtx' = NoThread
  /\ Goto(t, "alloc")
  /\ UNCHANGED <<heap, used, big, glob, st, live, loc, pend>>

AllocFilled(t) == pc[t] = "alloc" /\ Pop(t)

AllocMalloc(t, b) ==
  /\ pc[t] = "alloc" /\ IsEmpty(loc[t])
  /\ b \in heap
  /\ heap' = heap \ {b}
  /\ used' = used \cup {b}
  /\ Goto(t, "idle")
  /\ UNCHANGED <<big, glob, st, live, loc, pend, mtx>>

AllocFail(t) ==
  /\ pc[t] = "alloc" /\ IsEmpty(loc[t])
  /\ Goto(t, "idle")
  /\ UNCHANGED <<heap, used, big, glob, st, live, loc, pend, mtx>>

-----------------------------------------------------------------------------
rb_free_mt(t, b) ==
  /\ Idle(t) /\ b \in used \ big
  /\ used' = used \ {b}
  /\ IF IsFull(loc[t])
       THEN pend' = [pend EXCEPT ![t] = b] /\ Goto(t, "halve") /\ loc' = loc
       ELSE loc' = [loc EXCEPT ![t] = Append(@, b)] /\ UNCHANGED <<pend, pc>>
  /\ UNCHANGED <<heap, big, glob, st, live, mtx>>

AboveHalf(t) == local_size(loc[t]) > LocCap \div 2

HalveMove(t) ==
  /\ pc[t] = "halving" /\ AboveHalf(t) /\ ~IsFull(glob)
  /\ glob' = Append(glob, First(loc[t]))
  /\ loc' = [loc EXCEPT ![t] = DropFirst(@)]
  /\ UNCHANGED <<heap, used, big, st, live, pend, pc, mtx>>

HalveUnlock(t) ==
  /\ pc[t] = "halving" /\ ~(AboveHalf(t) /\ ~IsFull(glob))
  /\ mtx' = NoThread
  /\ Goto(t, "trim")
  /\ UNCHANGED <<heap, used, big, glob, st, live, loc, pend>>

HalveTrim(t) ==
  /\ pc[t] = "trim" /\ AboveHalf(t)
  /\ heap' = heap \cup {First(loc[t])}
  /\ loc' = [loc EXCEPT ![t] = DropFirst(@)]
  /\ UNCHANGED <<used, big, glob, st, live, pend, pc, mtx>>

FreePush(t) ==
  /\ pc[t] = "trim" /\ ~AboveHalf(t)
  /\ loc' = [loc EXCEPT ![t] = Append(@, pend[t])]
  /\ pend' = [pend EXCEPT ![t] = NULL]
  /\ Goto(t, "idle")
  /\ UNCHANGED <<heap, used, big, glob, st, live, mtx>>

-----------------------------------------------------------------------------
rb_alloc_st(b) ==
  /\ IF ~IsEmpty(st)
       THEN b = First(st) /\ st' = DropFirst(st) /\ heap' = heap
       ELSE b \in heap /\ heap' = heap \ {b} /\ st' = st
  /\ used' = used \cup {b}
  /\ UNCHANGED <<big, glob, live, loc, pend, pc, mtx>>

rb_free_st(b) ==
  /\ b \in used \ big
  /\ used' = used \ {b}
  /\ IF IsFull(st) THEN heap' = heap \cup {b} /\ st' = st
                   ELSE st' = Append(st, b) /\ heap' = heap
  /\ UNCHANGED <<big, glob, live, loc, pend, pc, mtx>>

rb_alloc_st_free ==
  /\ ~IsEmpty(st)
  /\ heap' = heap \cup Blocks(st)
  /\ st' = Empty(StCap)
  /\ UNCHANGED <<used, big, glob, live, loc, pend, pc, mtx>>

-----------------------------------------------------------------------------
Next ==
  \/ \E t \in Threads :
       \/ rb_alloc_local_init(t) \/ rb_alloc_local_free(t)
       \/ rb_alloc_mt(t) \/ rb_alloc_mt_empty(t) \/ Lock(t)
       \/ FillMove(t) \/ FillUnlock(t) \/ AllocFilled(t) \/ AllocFail(t)
       \/ HalveMove(t) \/ HalveUnlock(t) \/ HalveTrim(t) \/ FreePush(t)
       \/ \E b \in Block : AllocMalloc(t, b) \/ rb_free_mt(t, b)
  \/ \E b \in Block : alloc_big(b) \/ free_big(b)
                      \/ rb_alloc_st(b) \/ rb_free_st(b)
  \/ rb_alloc_global_free \/ rb_alloc_st_free

Spec == Init /\ [][Next]_vars

-----------------------------------------------------------------------------
(* Properties.                                                             *)

Ring(cap) == [cache : [0 .. cap - 1 -> Block \cup {NULL}],
              start : 0 .. cap - 1, end : 0 .. cap - 1]

\* Every index stays inside its ring: the code wraps by comparison after each
\* increment and indexes the array with the result.
TypeOK ==
  /\ heap \subseteq Block /\ used \subseteq Block /\ big \subseteq used
  /\ glob \in Ring(GlobCap) /\ st \in Ring(StCap)
  /\ live \subseteq Threads
  /\ loc \in [Threads -> Ring(LocCap)]
  /\ pend \in [Threads -> Block \cup {NULL}]
  /\ mtx \in Threads \cup {NoThread}

Cache == INSTANCE BlockCache WITH
  LocMax <- LocCap - 1, LocHalf <- LocCap \div 2,
  GlobMax <- GlobCap - 1, StMax <- StCap - 1,
  glob <- Blocks(glob), st <- Blocks(st),
  loc <- [t \in Threads |-> Blocks(loc[t])],
  pend <- [t \in Threads |-> {pend[t]} \ {NULL}]

\* Through the rings rballoc is the allocator of BlockCache: a slot store and
\* an index increment together add or remove exactly one cached block, and the
\* tests on the indices are the tests on the number of cached blocks.
ImplementsBlockCache == Cache!Spec

=============================================================================
