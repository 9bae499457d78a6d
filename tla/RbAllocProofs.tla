---------------------------- MODULE RbAllocProofs ----------------------------
(***************************************************************************)
(* Proofs that the allocator that keeps its caches in ring buffers         *)
(* implements the one that keeps them as sets, for every number of threads *)
(* and blocks and every capacity: the indices of a ring delimit distinct   *)
(* blocks whose number is what the code computes from the indices, so each *)
(* step moves the blocks that a step of BlockCache moves.                  *)
(***************************************************************************)
EXTENDS RbAlloc, FiniteSetTheorems, TLAPS

\* The slots from start up to end, around the end of the array.
Active(r, cap) == IF r.start <= r.end THEN r.start .. r.end - 1
                  ELSE r.start .. cap - 1 \cup 0 .. r.end - 1

\* A well-formed ring: its slots in use have distinct blocks, as many as the
\* indices say.
Good(r, cap) ==
  /\ r \in Ring(cap)
  /\ \A i \in Active(r, cap) : r.cache[i] \in Block
  /\ \A i, j \in Active(r, cap) : r.cache[i] = r.cache[j] => i = j
  /\ Cardinality(Blocks(r)) = local_size(r)

\* All rings are well-formed.
Rings ==
  /\ Good(glob, GlobCap) /\ Good(st, StCap)
  /\ loc \in [Threads -> Ring(LocCap)]
  /\ \A t \in Threads : Good(loc[t], LocCap)
  /\ pend \in [Threads -> Block \cup {NULL}]

\* What the proof needs of BlockCache's invariant: the places that a step takes
\* a block from or puts it in share no block.
Parted ==
  /\ \A t \in Threads :
       /\ Blocks(loc[t]) \cap used = {} /\ Blocks(loc[t]) \cap Blocks(glob) = {}
       /\ pend[t] \notin Blocks(loc[t])
       /\ pc[t] = "trim" => pend[t] \in Block
       /\ t \notin live => Blocks(loc[t]) = {}
  /\ Blocks(st) \cap used = {}

-----------------------------------------------------------------------------
\* The capacity of a ring is the number of its slots.
LEMMA CapacityIs ==
  ASSUME NEW cap \in Nat \ {0}, NEW r \in Ring(cap)
  PROVE  Capacity(r) = cap
<1>1. DOMAIN r.cache = 0 .. cap - 1
  BY DEF Ring
<1>2. Cardinality(0 .. cap - 1) = cap
  <2>1. Cardinality(0 .. cap - 1) = IF 0 > cap - 1 THEN 0 ELSE cap - 1 - 0 + 1
    <3>1. cap - 1 \in Int OBVIOUS
    <3> HIDE DEF Ring
    <3> QED BY <3>1, FS_Interval
  <2> QED BY <2>1
<1> QED BY <1>1, <1>2 DEF Capacity

\* What the index arithmetic of rballoc's ring buffers computes, with the
\* capacity written out.
LEMMA RingFields ==
  ASSUME NEW cap \in Nat \ {0}, NEW r \in Ring(cap)
  PROVE  /\ r.start \in 0 .. cap - 1 /\ r.end \in 0 .. cap - 1
         /\ Active(r, cap) \subseteq 0 .. cap - 1
         /\ Blocks(r) = {r.cache[i] : i \in Active(r, cap)}
         /\ Inc(r, r.start) = (IF r.start + 1 >= cap THEN 0 ELSE r.start + 1)
         /\ Inc(r, r.end) = (IF r.end + 1 >= cap THEN 0 ELSE r.end + 1)
         /\ local_size(r) = (IF r.end >= r.start THEN r.end - r.start
                             ELSE cap + r.end - r.start)
<1>1. r.start \in 0 .. cap - 1 /\ r.end \in 0 .. cap - 1
  BY DEF Ring
<1>2. Capacity(r) = cap
  BY CapacityIs
<1>3. Blocks(r) = {r.cache[i] : i \in Active(r, cap)}
  BY <1>2 DEF Blocks, Active
<1>4. Active(r, cap) \subseteq 0 .. cap - 1
  BY <1>1 DEF Active
<1> QED BY <1>1, <1>2, <1>3, <1>4 DEF Inc, local_size

\* A ring is created empty and well-formed.
LEMMA EmptyGood ==
  ASSUME NEW cap \in Nat \ {0}
  PROVE  Good(Empty(cap), cap) /\ Blocks(Empty(cap)) = {}
<1>1. /\ Empty(cap) \in Ring(cap)
      /\ Empty(cap).start = 0 /\ Empty(cap).end = 0
  BY DEF Empty, Ring
<1>2. Active(Empty(cap), cap) = {}
  BY <1>1 DEF Active
<1>3. Blocks(Empty(cap)) = {} /\ local_size(Empty(cap)) = 0
  BY <1>1, <1>2, RingFields
<1> QED BY <1>1, <1>2, <1>3, FS_EmptySet DEF Good

\* In a well-formed ring the tests of the code, which look at the indices only,
\* say how many blocks there are: empty exactly if there is none, full exactly
\* if one slot is left, and the slot at start has a block of the ring.
LEMMA GoodFacts ==
  ASSUME NEW cap \in Nat \ {0}, NEW r, Good(r, cap)
  PROVE  /\ Blocks(r) \subseteq Block
         /\ Cardinality(Blocks(r)) = local_size(r)
         /\ local_size(r) \in 0 .. cap - 1
         /\ IsEmpty(r) <=> Blocks(r) = {}
         /\ IsEmpty(r) <=> local_size(r) = 0
         /\ ~IsEmpty(r) => First(r) \in Blocks(r) /\ First(r) \in Block
         /\ IsFull(r) <=> local_size(r) >= cap - 1
<1>0. r \in Ring(cap) BY DEF Good
<1>1. /\ r.start \in 0 .. cap - 1 /\ r.end \in 0 .. cap - 1
      /\ Active(r, cap) \subseteq 0 .. cap - 1
      /\ Blocks(r) = {r.cache[i] : i \in Active(r, cap)}
      /\ Inc(r, r.end) = (IF r.end + 1 >= cap THEN 0 ELSE r.end + 1)
      /\ local_size(r) = (IF r.end >= r.start THEN r.end - r.start
                             ELSE cap + r.end - r.start)
  BY <1>0, RingFields
<1>2. Blocks(r) \subseteq Block
  BY <1>1 DEF Good
<1>3. r.start # r.end => r.start \in Active(r, cap)
  BY <1>1 DEF Active
<1>4. ~IsEmpty(r) => First(r) \in Blocks(r)
  BY <1>1, <1>3 DEF First, IsEmpty
<1>5. IsEmpty(r) => Blocks(r) = {}
  <2>1. IsEmpty(r) => Active(r, cap) = {}
    BY <1>1 DEF IsEmpty, Active
  <2> QED BY <1>1, <2>1
<1>6. /\ local_size(r) \in 0 .. cap - 1
      /\ IsEmpty(r) <=> local_size(r) = 0
      /\ IsFull(r) <=> local_size(r) >= cap - 1
  BY <1>1 DEF IsEmpty, IsFull
<1> QED BY <1>2, <1>4, <1>5, <1>6 DEF Good

\* Taking the block at start out keeps a ring well-formed and removes just this
\* block, also where start wraps.
LEMMA DropGood ==
  ASSUME RbAllocAssumption, NEW cap \in Nat \ {0}, NEW r, Good(r, cap), ~IsEmpty(r)
  PROVE  /\ Good(DropFirst(r), cap)
         /\ Blocks(DropFirst(r)) = Blocks(r) \ {First(r)}
<1> DEFINE d == DropFirst(r)
<1>0. r \in Ring(cap) BY DEF Good
<1>1. /\ r.start \in 0 .. cap - 1 /\ r.end \in 0 .. cap - 1
      /\ Active(r, cap) \subseteq 0 .. cap - 1
      /\ Blocks(r) = {r.cache[i] : i \in Active(r, cap)}
      /\ Inc(r, r.start) = (IF r.start + 1 >= cap THEN 0 ELSE r.start + 1)
      /\ local_size(r) = (IF r.end >= r.start THEN r.end - r.start
                             ELSE cap + r.end - r.start)
  BY <1>0, RingFields
<1>2. /\ d \in Ring(cap)
      /\ d.start = (IF r.start + 1 >= cap THEN 0 ELSE r.start + 1)
      /\ d.end = r.end
      /\ d.cache = [r.cache EXCEPT ![r.start] = NULL]
  <2> DEFINE c == [r.cache EXCEPT ![r.start] = NULL]
             s == Inc(r, r.start)
  <2>1. d = [r EXCEPT !.cache = c, !.start = s]
    BY DEF DropFirst
  <2>2. c \in [0 .. cap - 1 -> Block \cup {NULL}]
    BY <1>0, <1>1 DEF Ring
  <2>3. s \in 0 .. cap - 1
    BY <1>1
  <2> HIDE DEF c, s, d
  <2>4. d \in Ring(cap) /\ d.cache = c /\ d.start = s /\ d.end = r.end
    BY <1>0, <2>1, <2>2, <2>3, Zenon DEF Ring
  <2> QED BY <1>1, <2>4 DEF c, s
<1> HIDE DEF d
<1>3. Active(d, cap) = Active(r, cap) \ {r.start} /\ r.start \in Active(r, cap)
  BY <1>1, <1>2 DEF Active, IsEmpty
<1>4. \A i \in Active(d, cap) : d.cache[i] = r.cache[i]
  BY <1>0, <1>1, <1>2, <1>3 DEF Ring
<1>5. Blocks(d) = {d.cache[i] : i \in Active(d, cap)}
  BY <1>2, RingFields, Zenon
<1>6. Blocks(d) = Blocks(r) \ {First(r)}
  BY <1>1, <1>3, <1>4, <1>5 DEF Good, First
<1>7. Cardinality(Blocks(d)) = local_size(d)
  <2>1. Blocks(r) \subseteq Block /\ First(r) \in Blocks(r)
    BY GoodFacts
  <2>2. IsFiniteSet(Blocks(r))
    BY <2>1, FS_Subset DEF RbAllocAssumption
  <2>3. Cardinality(Blocks(d)) = Cardinality(Blocks(r)) - 1
    BY <1>6, <2>1, <2>2, FS_RemoveElement
  <2>4. local_size(d) = (IF d.end >= d.start THEN d.end - d.start
                             ELSE cap + d.end - d.start)
    BY <1>2, RingFields
  <2>5. local_size(d) = local_size(r) - 1
    BY <1>1, <1>2, <2>4 DEF IsEmpty
  <2> QED BY <2>3, <2>5 DEF Good
<1>8. Good(d, cap)
  BY <1>2, <1>3, <1>4, <1>7 DEF Good
<1> QED BY <1>6, <1>8 DEF d

\* Storing a new block at end keeps a ring that is not full well-formed and
\* adds just this block, also where end wraps.
LEMMA AppendGood ==
  ASSUME RbAllocAssumption, NEW cap \in Nat \ {0}, NEW r, Good(r, cap), ~IsFull(r),
         NEW b \in Block, b \notin Blocks(r)
  PROVE  /\ Good(Append(r, b), cap)
         /\ Blocks(Append(r, b)) = Blocks(r) \cup {b}
<1> DEFINE d == Append(r, b)
<1>0. r \in Ring(cap) BY DEF Good
<1>1. /\ r.start \in 0 .. cap - 1 /\ r.end \in 0 .. cap - 1
      /\ Active(r, cap) \subseteq 0 .. cap - 1
      /\ Blocks(r) = {r.cache[i] : i \in Active(r, cap)}
      /\ Inc(r, r.end) = (IF r.end + 1 >= cap THEN 0 ELSE r.end + 1)
      /\ local_size(r) = (IF r.end >= r.start THEN r.end - r.start
                             ELSE cap + r.end - r.start)
  BY <1>0, RingFields
<1>2. /\ d \in Ring(cap)
      /\ d.end = (IF r.end + 1 >= cap THEN 0 ELSE r.end + 1)
      /\ d.start = r.start
      /\ d.cache = [r.cache EXCEPT ![r.end] = b]
  <2> DEFINE c == [r.cache EXCEPT ![r.end] = b]
             e == Inc(r, r.end)
  <2>1. d = [r EXCEPT !.cache = c, !.end = e]
    BY DEF Append
  <2>2. c \in [0 .. cap - 1 -> Block \cup {NULL}]
    BY <1>0, <1>1 DEF Ring
  <2>3. e \in 0 .. cap - 1
    BY <1>1
  <2> HIDE DEF c, e, d
  <2>4. d \in Ring(cap) /\ d.cache = c /\ d.end = e /\ d.start = r.start
    BY <1>0, <2>1, <2>2, <2>3, Zenon DEF Ring
  <2> QED BY <1>1, <2>4 DEF c, e
<1> HIDE DEF d
<1>3. Active(d, cap) = Active(r, cap) \cup {r.end} /\ r.end \notin Active(r, cap)
  BY <1>1, <1>2 DEF Active, IsFull
<1>4. /\ \A i \in Active(r, cap) : d.cache[i] = r.cache[i]
      /\ d.cache[r.end] = b
  BY <1>0, <1>1, <1>2, <1>3 DEF Ring
<1>5. Blocks(d) = {d.cache[i] : i \in Active(d, cap)}
  BY <1>2, RingFields, Zenon
<1>6. Blocks(d) = Blocks(r) \cup {b}
  BY <1>1, <1>3, <1>4, <1>5
<1>7. Cardinality(Blocks(d)) = local_size(d)
  <2>1. Blocks(r) \subseteq Block
    BY GoodFacts
  <2>2. IsFiniteSet(Blocks(r))
    BY <2>1, FS_Subset DEF RbAllocAssumption
  <2>3. Cardinality(Blocks(d)) = Cardinality(Blocks(r)) + 1
    BY <1>6, <2>2, FS_AddElement
  <2>4. local_size(d) = (IF d.end >= d.start THEN d.end - d.start
                             ELSE cap + d.end - d.start)
    BY <1>2, RingFields
  <2>5. local_size(d) = local_size(r) + 1
    BY <1>1, <1>2, <2>4 DEF IsFull
  <2> QED BY <2>3, <2>5 DEF Good
<1>8. \A i, j \in Active(d, cap) : d.cache[i] = d.cache[j] => i = j
  BY <1>1, <1>3, <1>4 DEF Good
<1>9. Good(d, cap)
  BY <1>2, <1>3, <1>4, <1>7, <1>8 DEF Good
<1> QED BY <1>6, <1>9 DEF d

-----------------------------------------------------------------------------
\* What the assumption says of the capacities.
LEMMA Sizes ==
  ASSUME RbAllocAssumption
  PROVE  /\ LocCap \in Nat \ {0} /\ GlobCap \in Nat \ {0} /\ StCap \in Nat \ {0}
         /\ LocCap \div 2 \in Nat /\ LocCap \div 2 < LocCap - 1
  BY DEF RbAllocAssumption

\* The cardinality that the instance of BlockCache uses is the usual one.
LEMMA CardSame ==
  ASSUME NEW S
  PROVE  Cache!Cardinality(S) = Cardinality(S)
  BY DEF Cache!Cardinality, Cardinality

\* Replacing the ring of one thread replaces its set of blocks.
LEMMA LocBlocks ==
  ASSUME NEW l \in [Threads -> Ring(LocCap)], NEW t \in Threads, NEW r
  PROVE  [u \in Threads |-> Blocks([l EXCEPT ![t] = r][u])]
           = [[u \in Threads |-> Blocks(l[u])] EXCEPT ![t] = Blocks(r)]
BY Zenon

\* A thread that takes a block from its ring takes it from its local cache.
LEMMA PopStep ==
  ASSUME RbAllocAssumption, Rings, Parted, NEW t \in Threads, Pop(t)
  PROVE  Rings' /\ \E b \in Block : Cache!Pop(t, b)
<1>1. /\ LocCap \in Nat \ {0} /\ Good(loc[t], LocCap)
      /\ loc \in [Threads -> Ring(LocCap)]
  BY Sizes, Parted DEF Parted, Rings
<1> DEFINE b == First(loc[t])
           r == DropFirst(loc[t])
<1>2. b \in Blocks(loc[t]) /\ b \in Block
  BY <1>1, GoodFacts DEF Pop
<1>3. Good(r, LocCap) /\ Blocks(r) = Blocks(loc[t]) \ {b}
  BY <1>1, DropGood DEF Pop
<1>4. loc' = [loc EXCEPT ![t] = r]
  BY DEF Pop
<1> HIDE DEF b, r
<1>5. Rings'
  BY <1>1, <1>3, <1>4, Zenon DEF Rings, Pop, Good
<1>6. [u \in Threads |-> Blocks(loc'[u])]
        = [[u \in Threads |-> Blocks(loc[u])] EXCEPT ![t] = Blocks(loc[t]) \ {b}]
  BY <1>1, <1>3, <1>4, LocBlocks, Zenon
<1>7. Cache!Pop(t, b)
  <2>1. b \in [u \in Threads |-> Blocks(loc[u])][t]
    BY <1>2
  <2> QED BY <2>1, <1>6 DEF Cache!Pop, Pop, Cache!Goto, Goto, b
<1> QED BY <1>2, <1>5, <1>7

\* Every test that a thread makes on the indices of a ring is the test that
\* BlockCache makes on the size of a set.
LEMMA Tests ==
  ASSUME RbAllocAssumption, Rings, Parted
  PROVE  /\ \A t \in Threads : /\ Cache!MoreToFill(t) <=> MoreToFill(t)
                               /\ Cache!AboveHalf(t) <=> AboveHalf(t)
                               /\ Cache!LocFull(t) <=> IsFull(loc[t])
                               /\ IsEmpty(loc[t]) <=> Blocks(loc[t]) = {}
         /\ Cache!GlobHasRoom <=> ~IsFull(glob)
         /\ IsFull(st) <=> Cache!Cardinality(Blocks(st)) >= StCap - 1
         /\ IsEmpty(st) <=> Blocks(st) = {}
         /\ IsEmpty(glob) <=> Blocks(glob) = {}
<1>0. /\ LocCap \in Nat \ {0} /\ GlobCap \in Nat \ {0} /\ StCap \in Nat \ {0}
      /\ Good(glob, GlobCap) /\ Good(st, StCap)
      /\ \A t \in Threads : Good(loc[t], LocCap)
  BY Sizes, Parted DEF Parted, Rings
<1>1. /\ Cardinality(Blocks(glob)) = local_size(glob) /\ local_size(glob) \in Nat
      /\ IsEmpty(glob) <=> Blocks(glob) = {}
      /\ IsFull(glob) <=> local_size(glob) >= GlobCap - 1
  BY <1>0, GoodFacts
<1>2. /\ Cardinality(Blocks(st)) = local_size(st) /\ local_size(st) \in Nat
      /\ IsEmpty(st) <=> Blocks(st) = {}
      /\ IsFull(st) <=> local_size(st) >= StCap - 1
  BY <1>0, GoodFacts
<1>3. ASSUME NEW t \in Threads
      PROVE  /\ Cardinality(Blocks(loc[t])) = local_size(loc[t])
             /\ local_size(loc[t]) \in Nat
             /\ IsEmpty(loc[t]) <=> Blocks(loc[t]) = {}
             /\ IsFull(loc[t]) <=> local_size(loc[t]) >= LocCap - 1
  BY <1>0, GoodFacts
<1>4. \A S : Cache!Cardinality(S) = Cardinality(S)
  BY CardSame
<1>5. ASSUME NEW t \in Threads
      PROVE  /\ Cache!MoreToFill(t) <=> MoreToFill(t)
             /\ Cache!AboveHalf(t) <=> AboveHalf(t)
             /\ Cache!LocFull(t) <=> IsFull(loc[t])
  <2>1. Cache!Cardinality([u \in Threads |-> Blocks(loc[u])][t]) = local_size(loc[t])
    BY <1>3, <1>4
  <2> QED BY <2>1, <1>1, <1>3
          DEF Cache!MoreToFill, MoreToFill, Cache!AboveHalf, AboveHalf, Cache!LocFull
<1>6. Cache!GlobHasRoom <=> ~IsFull(glob)
  BY <1>0, <1>1, <1>4 DEF Cache!GlobHasRoom
<1> QED BY <1>1, <1>2, <1>3, <1>4, <1>5, <1>6

\* The steps that move no block are steps of BlockCache.
LEMMA ControlStep ==
  ASSUME RbAllocAssumption, Rings, Parted, NEW t \in Threads,
         \/ rb_alloc_local_init(t) \/ rb_alloc_mt_empty(t) \/ Lock(t)
         \/ FillUnlock(t) \/ AllocFail(t) \/ HalveUnlock(t)
  PROVE  Rings' /\ Cache!Next
<1> USE DEF Goto, Cache!Goto, Idle, Cache!Idle
<1>0. /\ LocCap \in Nat \ {0} /\ loc \in [Threads -> Ring(LocCap)]
      /\ t \notin live => Blocks(loc[t]) = {}
  BY Sizes, Parted DEF Parted, Rings
<1>t. /\ Cache!MoreToFill(t) <=> MoreToFill(t)
      /\ Cache!AboveHalf(t) <=> AboveHalf(t)
      /\ IsEmpty(loc[t]) <=> Blocks(loc[t]) = {}
      /\ Cache!GlobHasRoom <=> ~IsFull(glob)
  BY Tests
<1>1. CASE rb_alloc_local_init(t)
  <2> DEFINE e == Empty(LocCap)
  <2>1. Good(e, LocCap) /\ Blocks(e) = {}
    BY <1>0, EmptyGood
  <2>2. loc' = [loc EXCEPT ![t] = e] /\ t \notin live
    BY <1>1 DEF rb_alloc_local_init
  <2> HIDE DEF e
  <2>3. Rings'
    BY <1>0, <1>1, <2>1, <2>2 DEF Rings, rb_alloc_local_init, Good
  <2>4. [u \in Threads |-> Blocks(loc'[u])] = [u \in Threads |-> Blocks(loc[u])]
    BY <1>0, <2>1, <2>2
  <2>5. Cache!local_init(t)
    BY <1>1, <2>4 DEF rb_alloc_local_init, Cache!local_init
  <2> QED BY <2>3, <2>5 DEF Cache!Next, Cache!Call
<1>2. CASE rb_alloc_mt_empty(t)
  <2>1. Cache!alloc_mt_empty(t) BY <1>2, <1>t DEF rb_alloc_mt_empty, Cache!alloc_mt_empty
  <2> QED BY <1>2, <2>1 DEF Rings, rb_alloc_mt_empty, Cache!Next, Cache!Call
<1>3. CASE Lock(t)
  <2>1. Cache!Lock(t) BY <1>3 DEF Lock, Cache!Lock
  <2> QED BY <1>3, <2>1 DEF Rings, Lock, Cache!Next
<1>4. CASE FillUnlock(t)
  <2>1. Cache!FillUnlock(t) BY <1>4, <1>t DEF FillUnlock, Cache!FillUnlock
  <2> QED BY <1>4, <2>1 DEF Rings, FillUnlock, Cache!Next, Cache!FillStep
<1>5. CASE AllocFail(t)
  <2>1. Cache!AllocFail(t) BY <1>5, <1>t DEF AllocFail, Cache!AllocFail
  <2> QED BY <1>5, <2>1 DEF Rings, AllocFail, Cache!Next, Cache!FillStep
<1>6. CASE HalveUnlock(t)
  <2>1. Cache!HalveUnlock(t) BY <1>6, <1>t DEF HalveUnlock, Cache!HalveUnlock
  <2> QED BY <1>6, <2>1 DEF Rings, HalveUnlock, Cache!Next, Cache!HalveStep
<1> QED BY <1>1, <1>2, <1>3, <1>4, <1>5, <1>6

\* The steps that end an allocation are steps of BlockCache.
LEMMA AllocStep ==
  ASSUME RbAllocAssumption, Rings, Parted, NEW t \in Threads,
         \/ rb_alloc_mt(t) \/ AllocFilled(t) \/ \E b \in Block : AllocMalloc(t, b)
  PROVE  Rings' /\ Cache!Next
<1>1. CASE rb_alloc_mt(t)
  <2>1. Pop(t) /\ Idle(t) BY <1>1 DEF rb_alloc_mt
  <2>2. Rings' /\ \E b \in Block : Cache!Pop(t, b) BY <2>1, PopStep
  <2>3. \E b \in Block : Cache!alloc_mt(t, b)
    BY <2>1, <2>2 DEF Cache!alloc_mt, Cache!Idle, Idle
  <2> QED BY <2>2, <2>3 DEF Cache!Next, Cache!Call
<1>2. CASE AllocFilled(t)
  <2>1. Pop(t) /\ pc[t] = "alloc" BY <1>2 DEF AllocFilled
  <2>2. Rings' /\ \E b \in Block : Cache!Pop(t, b) BY <2>1, PopStep
  <2>3. \E b \in Block : Cache!AllocFilled(t, b)
    BY <2>1, <2>2 DEF Cache!AllocFilled
  <2> QED BY <2>2, <2>3 DEF Cache!Next, Cache!FillStep
<1>3. ASSUME NEW b \in Block, AllocMalloc(t, b) PROVE Rings' /\ Cache!Next
  <2>1. IsEmpty(loc[t]) <=> Blocks(loc[t]) = {} BY Tests
  <2>2. Cache!AllocMalloc(t, b)
    BY <1>3, <2>1 DEF AllocMalloc, Cache!AllocMalloc, Goto, Cache!Goto
  <2> QED BY <1>3, <2>2 DEF Rings, AllocMalloc, Cache!Next, Cache!FillStep
<1> QED BY <1>1, <1>2, <1>3

\* The steps that move a block between a thread's ring and the global one, or
\* put the pending block in, are steps of BlockCache.
LEMMA MoveStep ==
  ASSUME RbAllocAssumption, Rings, Parted, NEW t \in Threads,
         FillMove(t) \/ HalveMove(t) \/ HalveTrim(t) \/ FreePush(t)
           \/ rb_alloc_local_free(t)
  PROVE  Rings' /\ Cache!Next
<1>0. /\ LocCap \in Nat \ {0} /\ GlobCap \in Nat \ {0}
      /\ LocCap \div 2 \in Nat /\ LocCap \div 2 < LocCap - 1
      /\ Blocks(loc[t]) \cap Blocks(glob) = {} /\ pend[t] \notin Blocks(loc[t])
      /\ pc[t] = "trim" => pend[t] \in Block
      /\ NULL \notin Block
  BY Sizes, Parted DEF Parted, RbAllocAssumption
<1>g. /\ Good(loc[t], LocCap) /\ Good(glob, GlobCap)
      /\ loc \in [Threads -> Ring(LocCap)]
      /\ pend \in [Threads -> Block \cup {NULL}]
  BY DEF Rings
<1>l. /\ local_size(loc[t]) \in Nat
      /\ IsEmpty(loc[t]) <=> local_size(loc[t]) = 0
      /\ ~IsEmpty(loc[t]) => First(loc[t]) \in Blocks(loc[t]) /\ First(loc[t]) \in Block
      /\ IsFull(loc[t]) <=> local_size(loc[t]) >= LocCap - 1
  BY <1>0, <1>g, GoodFacts
<1>b. ~IsEmpty(glob) => First(glob) \in Blocks(glob) /\ First(glob) \in Block
  BY <1>0, <1>g, GoodFacts
<1>t. /\ Cache!MoreToFill(t) <=> MoreToFill(t)
      /\ Cache!AboveHalf(t) <=> AboveHalf(t)
      /\ Cache!GlobHasRoom <=> ~IsFull(glob)
  BY Tests
<1>1. CASE FillMove(t)
  <2> DEFINE b == First(glob)
             r == Append(loc[t], b)
             g == DropFirst(glob)
  <2>1. ~IsEmpty(glob) /\ ~IsFull(loc[t])
    BY <1>0, <1>1, <1>l DEF FillMove, MoreToFill
  <2>2. b \in Block /\ b \in Blocks(glob) /\ b \notin Blocks(loc[t])
    BY <1>0, <1>b, <2>1
  <2>3. Good(r, LocCap) /\ Blocks(r) = Blocks(loc[t]) \cup {b}
    BY <1>0, <1>g, <2>1, <2>2, AppendGood
  <2>4. Good(g, GlobCap) /\ Blocks(g) = Blocks(glob) \ {b}
    BY <1>0, <1>g, <2>1, DropGood
  <2>5. loc' = [loc EXCEPT ![t] = r] /\ glob' = g
    BY <1>1 DEF FillMove
  <2> HIDE DEF b, r, g
  <2>6. Rings'
    BY <1>g, <1>1, <2>3, <2>4, <2>5, Zenon DEF Rings, FillMove, Good
  <2>7. [u \in Threads |-> Blocks(loc'[u])]
          = [[u \in Threads |-> Blocks(loc[u])] EXCEPT ![t] = Blocks(loc[t]) \cup {b}]
    BY <1>g, <2>3, <2>5, LocBlocks, Zenon
  <2>8. Cache!FillMove(t, b)
    BY <1>1, <1>t, <2>2, <2>4, <2>5, <2>7 DEF FillMove, Cache!FillMove
  <2> QED BY <2>2, <2>6, <2>8 DEF Cache!Next, Cache!FillStep
<1>2. CASE HalveMove(t)
  <2> DEFINE b == First(loc[t])
             r == DropFirst(loc[t])
             g == Append(glob, b)
  <2>1. ~IsEmpty(loc[t]) /\ ~IsFull(glob)
    BY <1>0, <1>2, <1>l DEF HalveMove, AboveHalf
  <2>2. b \in Block /\ b \in Blocks(loc[t]) /\ b \notin Blocks(glob)
    BY <1>0, <1>l, <2>1
  <2>3. Good(r, LocCap) /\ Blocks(r) = Blocks(loc[t]) \ {b}
    BY <1>0, <1>g, <2>1, DropGood
  <2>4. Good(g, GlobCap) /\ Blocks(g) = Blocks(glob) \cup {b}
    BY <1>0, <1>g, <2>1, <2>2, AppendGood
  <2>5. loc' = [loc EXCEPT ![t] = r] /\ glob' = g
    BY <1>2 DEF HalveMove
  <2> HIDE DEF b, r, g
  <2>6. Rings'
    BY <1>g, <1>2, <2>3, <2>4, <2>5, Zenon DEF Rings, HalveMove, Good
  <2>7. [u \in Threads |-> Blocks(loc'[u])]
          = [[u \in Threads |-> Blocks(loc[u])] EXCEPT ![t] = Blocks(loc[t]) \ {b}]
    BY <1>g, <2>3, <2>5, LocBlocks, Zenon
  <2>8. Cache!HalveMove(t, b)
    BY <1>2, <1>t, <2>2, <2>4, <2>5, <2>7 DEF HalveMove, Cache!HalveMove
  <2> QED BY <2>2, <2>6, <2>8 DEF Cache!Next, Cache!HalveStep
<1>3. CASE HalveTrim(t)
  <2> DEFINE b == First(loc[t])
             r == DropFirst(loc[t])
  <2>1. ~IsEmpty(loc[t])
    BY <1>0, <1>3, <1>l DEF HalveTrim, AboveHalf
  <2>2. b \in Block /\ b \in Blocks(loc[t])
    BY <1>l, <2>1
  <2>3. Good(r, LocCap) /\ Blocks(r) = Blocks(loc[t]) \ {b}
    BY <1>0, <1>g, <2>1, DropGood
  <2>5. loc' = [loc EXCEPT ![t] = r] /\ heap' = heap \cup {b}
    BY <1>3 DEF HalveTrim
  <2> HIDE DEF b, r
  <2>6. Rings'
    BY <1>g, <1>3, <2>3, <2>5, Zenon DEF Rings, HalveTrim, Good
  <2>7. [u \in Threads |-> Blocks(loc'[u])]
          = [[u \in Threads |-> Blocks(loc[u])] EXCEPT ![t] = Blocks(loc[t]) \ {b}]
    BY <1>g, <2>3, <2>5, LocBlocks, Zenon
  <2>8. Cache!HalveTrim(t, b)
    BY <1>3, <1>t, <2>2, <2>5, <2>7 DEF HalveTrim, Cache!HalveTrim
  <2> QED BY <2>2, <2>6, <2>8 DEF Cache!Next, Cache!HalveStep
<1>4. CASE FreePush(t)
  <2> DEFINE b == pend[t]
             r == Append(loc[t], b)
  <2>1. ~IsFull(loc[t])
    BY <1>0, <1>4, <1>l DEF FreePush, AboveHalf
  <2>2. b \in Block /\ b \notin Blocks(loc[t]) /\ {b} \ {NULL} = {b}
    BY <1>0, <1>4 DEF FreePush
  <2>3. Good(r, LocCap) /\ Blocks(r) = Blocks(loc[t]) \cup {b}
    BY <1>0, <1>g, <2>1, <2>2, AppendGood
  <2>5. loc' = [loc EXCEPT ![t] = r] /\ pend' = [pend EXCEPT ![t] = NULL]
    BY <1>4 DEF FreePush
  <2> HIDE DEF r
  <2>6. Rings'
    BY <1>g, <1>4, <2>3, <2>5, Zenon DEF Rings, FreePush, Good
  <2>7. [u \in Threads |-> Blocks(loc'[u])]
          = [[u \in Threads |-> Blocks(loc[u])] EXCEPT ![t] = Blocks(loc[t]) \cup {b}]
    BY <1>g, <2>3, <2>5, LocBlocks, Zenon
  <2>8. [u \in Threads |-> {pend'[u]} \ {NULL}]
          = [[u \in Threads |-> {pend[u]} \ {NULL}] EXCEPT ![t] = {}]
    BY <1>g, <2>5, Zenon
  <2>9. Cache!FreePush(t)
    BY <1>4, <1>t, <2>2, <2>7, <2>8, Zenon DEF FreePush, Cache!FreePush, Goto, Cache!Goto
  <2> QED BY <2>6, <2>9 DEF Cache!Next, Cache!HalveStep
<1>5. CASE rb_alloc_local_free(t)
  <2> DEFINE e == Empty(LocCap)
  <2>1. Good(e, LocCap) /\ Blocks(e) = {}
    BY <1>0, EmptyGood
  <2>2. loc' = [loc EXCEPT ![t] = e]
    BY <1>5 DEF rb_alloc_local_free
  <2> HIDE DEF e
  <2>3. Rings'
    BY <1>g, <1>5, <2>1, <2>2, Zenon DEF Rings, rb_alloc_local_free, Good
  <2>4. [u \in Threads |-> Blocks(loc'[u])]
          = [[u \in Threads |-> Blocks(loc[u])] EXCEPT ![t] = {}]
    BY <1>g, <2>1, <2>2, LocBlocks, Zenon
  <2>5. Cache!local_free(t)
    BY <1>5, <2>4 DEF rb_alloc_local_free, Cache!local_free, Idle, Cache!Idle
  <2> QED BY <2>3, <2>5 DEF Cache!Next, Cache!Call
<1> QED BY <1>1, <1>2, <1>3, <1>4, <1>5

\* rb_free_mt is a free of BlockCache: into the ring, or with the block pending
\* while a full ring is halved.
LEMMA FreeStep ==
  ASSUME RbAllocAssumption, Rings, Parted, NEW t \in Threads, NEW b \in Block, rb_free_mt(t, b)
  PROVE  Rings' /\ Cache!Next
<1>0. /\ LocCap \in Nat \ {0} /\ Good(loc[t], LocCap) /\ NULL \notin Block
      /\ loc \in [Threads -> Ring(LocCap)] /\ pend \in [Threads -> Block \cup {NULL}]
      /\ Blocks(loc[t]) \cap used = {} /\ b \in used
      /\ Cache!LocFull(t) <=> IsFull(loc[t])
  BY Sizes, Tests DEF Parted, Rings, RbAllocAssumption, rb_free_mt
<1>1. CASE IsFull(loc[t])
  <2>1. [u \in Threads |-> {pend'[u]} \ {NULL}]
          = [[u \in Threads |-> {pend[u]} \ {NULL}] EXCEPT ![t] = {b}]
    BY <1>0, <1>1, Zenon DEF rb_free_mt
  <2>2. Cache!free_mt_full(t, b)
    BY <1>0, <1>1, <2>1
       DEF rb_free_mt, Cache!free_mt_full, Idle, Cache!Idle, Goto, Cache!Goto
  <2>3. Rings'
    BY <1>0, <1>1 DEF Rings, rb_free_mt
  <2> QED BY <2>2, <2>3 DEF Cache!Next, Cache!Call
<1>2. CASE ~IsFull(loc[t])
  <2> DEFINE r == Append(loc[t], b)
  <2>1. Good(r, LocCap) /\ Blocks(r) = Blocks(loc[t]) \cup {b}
    BY <1>0, <1>2, AppendGood
  <2>2. loc' = [loc EXCEPT ![t] = r]
    BY <1>2 DEF rb_free_mt
  <2> HIDE DEF r
  <2>3. Rings'
    BY <1>0, <1>2, <2>1, <2>2, Zenon DEF Rings, rb_free_mt, Good
  <2>4. [u \in Threads |-> Blocks(loc'[u])]
          = [[u \in Threads |-> Blocks(loc[u])] EXCEPT ![t] = Blocks(loc[t]) \cup {b}]
    BY <1>0, <2>1, <2>2, LocBlocks, Zenon
  <2>5. Cache!free_mt(t, b)
    BY <1>0, <1>2, <2>4 DEF rb_free_mt, Cache!free_mt, Idle, Cache!Idle
  <2> QED BY <2>3, <2>5 DEF Cache!Next, Cache!Call
<1> QED BY <1>1, <1>2

\* The steps of no thread in particular are steps of BlockCache.
LEMMA SharedStep ==
  ASSUME RbAllocAssumption, Rings, Parted,
         \/ \E b \in Block : alloc_big(b) \/ free_big(b)
                             \/ rb_alloc_st(b) \/ rb_free_st(b)
         \/ rb_alloc_global_free \/ rb_alloc_st_free
  PROVE  Rings' /\ Cache!Next
<1>0. /\ GlobCap \in Nat \ {0} /\ StCap \in Nat \ {0} /\ Good(st, StCap)
      /\ Blocks(st) \cap used = {}
      /\ IsFull(st) <=> Cache!Cardinality(Blocks(st)) >= StCap - 1
      /\ IsEmpty(st) <=> Blocks(st) = {}
  BY Sizes, Tests DEF Parted, Rings
<1>e. /\ Good(Empty(GlobCap), GlobCap) /\ Blocks(Empty(GlobCap)) = {}
      /\ Good(Empty(StCap), StCap) /\ Blocks(Empty(StCap)) = {}
  BY <1>0, EmptyGood
<1>1. ASSUME NEW b \in Block, alloc_big(b) PROVE Rings' /\ Cache!Next
  <2>1. Cache!alloc_big(b) BY <1>1 DEF alloc_big, Cache!alloc_big
  <2> QED BY <1>1, <2>1 DEF Rings, alloc_big, Cache!Next
<1>2. ASSUME NEW b \in Block, free_big(b) PROVE Rings' /\ Cache!Next
  <2>1. Cache!free_big(b) BY <1>2 DEF free_big, Cache!free_big
  <2> QED BY <1>2, <2>1 DEF Rings, free_big, Cache!Next
<1>3. ASSUME NEW b \in Block, rb_alloc_st(b) PROVE Rings' /\ Cache!Next
  <2>1. CASE IsEmpty(st)
    <3>1. Cache!alloc_st(b) BY <1>0, <1>3, <2>1 DEF rb_alloc_st, Cache!alloc_st
    <3> QED BY <1>3, <2>1, <3>1 DEF Rings, rb_alloc_st, Cache!Next
  <2>2. CASE ~IsEmpty(st)
    <3> DEFINE r == DropFirst(st)
    <3>1. Good(r, StCap) /\ Blocks(r) = Blocks(st) \ {First(st)}
      BY <1>0, <2>2, DropGood
    <3>2. First(st) \in Blocks(st)
      BY <1>0, <2>2, GoodFacts
    <3>3. b = First(st) /\ st' = r /\ heap' = heap
      BY <1>3, <2>2 DEF rb_alloc_st
    <3> HIDE DEF r
    <3>4. Cache!alloc_st(b)
      BY <1>3, <3>1, <3>2, <3>3 DEF rb_alloc_st, Cache!alloc_st
    <3> QED BY <1>3, <3>1, <3>3, <3>4 DEF Rings, rb_alloc_st, Cache!Next
  <2> QED BY <2>1, <2>2
<1>4. ASSUME NEW b \in Block, rb_free_st(b) PROVE Rings' /\ Cache!Next
  <2>1. CASE IsFull(st)
    <3>1. Cache!free_st(b) BY <1>0, <1>4, <2>1 DEF rb_free_st, Cache!free_st
    <3> QED BY <1>4, <2>1, <3>1 DEF Rings, rb_free_st, Cache!Next
  <2>2. CASE ~IsFull(st)
    <3> DEFINE r == Append(st, b)
    <3>1. b \notin Blocks(st)
      BY <1>0, <1>4 DEF rb_free_st
    <3>2. Good(r, StCap) /\ Blocks(r) = Blocks(st) \cup {b}
      BY <1>0, <2>2, <3>1, AppendGood
    <3>3. st' = r /\ heap' = heap
      BY <1>4, <2>2 DEF rb_free_st
    <3> HIDE DEF r
    <3>4. Cache!free_st(b)
      BY <1>0, <1>4, <2>2, <3>2, <3>3 DEF rb_free_st, Cache!free_st
    <3> QED BY <1>4, <3>2, <3>3, <3>4 DEF Rings, rb_free_st, Cache!Next
  <2> QED BY <2>1, <2>2
<1>5. CASE rb_alloc_global_free
  <2>1. Cache!global_free
    BY <1>5, <1>e DEF rb_alloc_global_free, Cache!global_free
  <2> QED BY <1>5, <1>e, <2>1 DEF Rings, rb_alloc_global_free, Cache!Next
<1>6. CASE rb_alloc_st_free
  <2>1. Cache!st_free
    BY <1>0, <1>6, <1>e DEF rb_alloc_st_free, Cache!st_free
  <2> QED BY <1>6, <1>e, <2>1 DEF Rings, rb_alloc_st_free, Cache!Next
<1> QED BY <1>1, <1>2, <1>3, <1>4, <1>5, <1>6

\* A step keeps the rings well-formed and is a step of BlockCache or changes
\* nothing there, given that the places share no block.
LEMMA RingStep ==
  ASSUME RbAllocAssumption, Rings, Parted, [Next]_vars
  PROVE  Rings' /\ [Cache!Next]_(Cache!vars)
<1>1. Next => Rings' /\ Cache!Next
  BY ControlStep, AllocStep, MoveStep, FreeStep, SharedStep DEF Next
<1>2. UNCHANGED vars => Rings' /\ UNCHANGED Cache!vars
  BY DEF Rings, vars, Cache!vars
<1> QED BY <1>1, <1>2

-----------------------------------------------------------------------------
\* The proofs about BlockCache, for the blocks in the rings.  The queue of that
\* module plays no part: it has no threads.
C == INSTANCE SharedProofs WITH
  LocMax <- LocCap - 1, LocHalf <- LocCap \div 2,
  GlobMax <- GlobCap - 1, StMax <- StCap - 1,
  glob <- Blocks(glob), st <- Blocks(st),
  loc <- [t \in Threads |-> Blocks(loc[t])],
  pend <- [t \in Threads |-> {pend[t]} \ {NULL}],
  Producers <- {}, CachedProducers <- {}, Consumers <- {}, NOBODY <- NULL,
  BufSiz <- 2, CacheCapacity <- 1, DeqSizes <- {}, MaxItems <- 0,
  buf <- << >>, start <- 0, end <- 0, qMtx <- NULL, full <- {}, empty <- {},
  qPc <- << >>, in <- << >>, cache <- << >>, made <- << >>, room <- << >>,
  timed <- << >>, wasFull <- << >>, taken <- << >>

\* The inductive invariant: that of the rings, and BlockCache's of the sets of
\* blocks in them.
RInv == Rings /\ C!IInv

\* Both instances of BlockCache have the same steps.
LEMMA SameNext == Cache!Next => C!Next
BY Zenon DEF C!Next, Cache!Next, C!Call, Cache!Call, C!FillStep, Cache!FillStep,
     C!HalveStep, Cache!HalveStep, C!Lock, Cache!Lock, C!Goto, Cache!Goto,
     C!Idle, Cache!Idle, C!local_init, Cache!local_init, C!local_free,
     Cache!local_free, C!global_free, Cache!global_free, C!alloc_big,
     Cache!alloc_big, C!free_big, Cache!free_big, C!Pop, Cache!Pop,
     C!alloc_mt, Cache!alloc_mt, C!alloc_mt_empty, Cache!alloc_mt_empty,
     C!MoreToFill, Cache!MoreToFill, C!FillMove, Cache!FillMove,
     C!FillUnlock, Cache!FillUnlock, C!AllocFilled, Cache!AllocFilled,
     C!AllocMalloc, Cache!AllocMalloc, C!AllocFail, Cache!AllocFail,
     C!LocFull, Cache!LocFull, C!free_mt, Cache!free_mt, C!free_mt_full,
     Cache!free_mt_full, C!AboveHalf, Cache!AboveHalf, C!GlobHasRoom,
     Cache!GlobHasRoom, C!HalveMove, Cache!HalveMove, C!HalveUnlock,
     Cache!HalveUnlock, C!HalveTrim, Cache!HalveTrim, C!FreePush,
     Cache!FreePush, C!alloc_st, Cache!alloc_st, C!free_st, Cache!free_st,
     C!st_free, Cache!st_free, C!Cardinality, Cache!Cardinality

\* The capacities that the rings leave, one less than their slots, satisfy the
\* assumption of BlockCache.
LEMMA CacheAssumption ==
  ASSUME RbAllocAssumption
  PROVE  C!BlockCacheAssumption
<1>1. C!IsFiniteSet(Block)
  BY Zenon DEF C!IsFiniteSet, IsFiniteSet, RbAllocAssumption
<1>2. LocCap - 1 \in Nat /\ LocCap \div 2 \in Nat /\ LocCap \div 2 < LocCap - 1
      /\ GlobCap - 1 \in Nat /\ StCap - 1 \in Nat
  BY DEF RbAllocAssumption
<1> QED BY <1>1, <1>2 DEF C!BlockCacheAssumption, RbAllocAssumption

\* The assumption on the queue, which has no threads.
LEMMA NoQueue ==
  /\ 2 \in Nat /\ 2 >= 2 /\ 1 \in Nat /\ 1 >= 1 /\ {} \subseteq Nat \ {0} /\ 0 \in Nat
  /\ {} \cap {} = {} /\ {} \subseteq {} /\ NULL \notin C!Callers /\ NULL \notin C!Item
BY DEF C!Callers, C!Item

\* Steps of BlockCache keep its inductive invariant, for the blocks in the
\* rings.
LEMMA CacheNext ==
  ASSUME RbAllocAssumption, C!IInv, [C!Next]_(C!vars)
  PROVE  C!IInv'
BY CacheAssumption, NoQueue, C!NextIInv

-----------------------------------------------------------------------------
\* Seen as sets, the rings have the invariant of BlockCache, which says that
\* the places share no block: what the steps of the rings need.
LEMMA Facts ==
  ASSUME RbAllocAssumption, RInv
  PROVE  Parted
<1>1. /\ LocCap \in Nat \ {0} /\ GlobCap \in Nat \ {0} /\ StCap \in Nat \ {0}
      /\ LocCap \div 2 \in Nat /\ LocCap \div 2 < LocCap - 1
      /\ NULL \notin Block
  BY DEF RbAllocAssumption
<1>2. Blocks(st) \cap used = {} /\ used \subseteq Block /\ heap \subseteq Block
  BY DEF RInv, C!IInv, C!TypeOK, C!Apart
<1>3. \A t \in Threads : /\ Blocks(loc[t]) \subseteq Block
                         /\ pend[t] \in Block \cup {NULL}
  BY <1>1, GoodFacts DEF RInv, Rings
<1>4. ASSUME NEW t \in Threads
      PROVE  /\ Blocks(loc[t]) \cap used = {} /\ Blocks(loc[t]) \cap Blocks(glob) = {}
             /\ Blocks(loc[t]) \cap ({pend[t]} \ {NULL}) = {}
  BY DEF RInv, C!IInv, C!Apart, C!Cached
<1>5. ASSUME NEW t \in Threads
      PROVE  /\ pc[t] = "trim" => \E b \in Block : {pend[t]} \ {NULL} = {b}
             /\ t \notin live => Blocks(loc[t]) = {}
  BY DEF RInv, C!IInv, C!Control
<1>6. \A t \in Threads : pc[t] = "trim" => pend[t] \in Block
  BY <1>5
<1>7. \A t \in Threads : pend[t] \notin Blocks(loc[t])
  BY <1>1, <1>3, <1>4
<1> QED BY <1>2, <1>4, <1>5, <1>6, <1>7 DEF Parted

\* A step keeps the invariant and is a step of BlockCache or changes nothing
\* there.
LEMMA Step ==
  ASSUME RbAllocAssumption, RInv, [Next]_vars
  PROVE  RInv' /\ [Cache!Next]_(Cache!vars)
<1>1. Rings' /\ [Cache!Next]_(Cache!vars)
  BY Facts, RingStep DEF RInv
<1>2. [C!Next]_(C!vars)
  BY <1>1, SameNext DEF C!vars, Cache!vars
<1>3. C!IInv'
  BY <1>2, CacheNext DEF RInv
<1> QED BY <1>1, <1>3 DEF RInv

\* Initially the rings are empty, as the sets of BlockCache are.
LEMMA InitRInv ==
  ASSUME RbAllocAssumption, Init
  PROVE  RInv /\ Cache!Init
<1>0. /\ GlobCap \in Nat \ {0} /\ StCap \in Nat \ {0} /\ LocCap \in Nat \ {0}
  BY DEF RbAllocAssumption
<1>e. /\ Good(Empty(GlobCap), GlobCap) /\ Blocks(Empty(GlobCap)) = {}
      /\ Good(Empty(StCap), StCap) /\ Blocks(Empty(StCap)) = {}
      /\ Good(Empty(LocCap), LocCap) /\ Blocks(Empty(LocCap)) = {}
  BY <1>0, EmptyGood
<1>1. Rings
  BY <1>e DEF Init, Rings, Good
<1>2. C!Init /\ Cache!Init
  BY <1>e DEF Init, C!Init, Cache!Init
<1>3. C!IInv
  BY <1>2, CacheAssumption, NoQueue, C!InitIInv
<1> QED BY <1>1, <1>2, <1>3 DEF RInv

\* The rings stay well-formed: between start and end there are distinct blocks,
\* as many as the indices say, in every ring, and as sets they satisfy the
\* invariant of BlockCache.
THEOREM RbAllocInv == ASSUME RbAllocAssumption PROVE Spec => []RInv
<1>1. Init => RInv BY InitRInv
<1>2. RInv /\ [Next]_vars => RInv' BY Step
<1> QED BY <1>1, <1>2, PTL DEF Spec

\* The allocator with ring buffers implements the one with sets: every call
\* moves blocks as BlockCache does, so no block is lost or handed out twice
\* when an index wraps.
THEOREM RbAllocImplements == ASSUME RbAllocAssumption PROVE Spec => ImplementsBlockCache
<1>1. Init => Cache!Init BY InitRInv
<1>2. RInv /\ [Next]_vars => [Cache!Next]_(Cache!vars)
  BY Step
<1> QED BY <1>1, <1>2, RbAllocInv, PTL DEF Spec, ImplementsBlockCache, Cache!Spec
=============================================================================
