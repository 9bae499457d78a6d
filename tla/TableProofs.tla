----------------------------- MODULE TableProofs -----------------------------
(***************************************************************************)
(* Proofs about the tables: that the locks of the hash table keep its      *)
(* buckets exclusive and its count right, for every number of threads,     *)
(* items, buckets and buckets to a mutex; and that the ARP cache owns each *)
(* packet it has taken in one list, and keeps an entry as long as it is    *)
(* used, for every number of addresses and packets, limit and timeout.     *)
(* And about what is limited by the clock: that the token buckets keep to  *)
(* their rate and that the limiter of the log keeps to its, for every      *)
(* number of entries, batches and levels and every period, bound and rate. *)
(***************************************************************************)
EXTENDS HashTable, ArpCache, RateLimits, FiniteSetTheorems, SequenceTheorems, TLAPS

\* Where a thread may be; never at the abort.
Places == {"idle", "lock", "look", "global", "change", "count", "unglobal", "unlock", "next"}

\* The types, with the abort left out of the places.
TypeOK ==
  /\ buckets \in [Bucket -> SUBSET Node] /\ itemcnt \in Nat
  /\ bucket_mutexes \in [Mutex -> Thread \cup {NONE}]
  /\ global_mutex \in Thread \cup {NONE}
  /\ at \in [Thread -> Places]
  /\ op \in [Thread -> {"none", "add", "delete", "find", "walk"}]
  /\ item \in [Thread -> Node \cup {NONE}]
  /\ bucket \in [Thread -> Bucket]
  /\ count \in [Thread -> Nat]

\* The mutexes: who is between lock and unlock holds the mutex.
Counting(t) == at[t] \in {"change", "count", "unglobal"}
Owned ==
  /\ \A t \in Thread : at[t] \notin {"idle", "lock"} => bucket_mutexes[HeldMutex(t)] = t
  /\ \A t \in Thread : Counting(t) <=> global_mutex = t

\* Who has an item at hand, and that no two have the same one.
AtHand(t) ==
  \/ at[t] \in {"global", "change", "count", "unglobal"}
  \/ at[t] = "lock" /\ op[t] \in {"add", "delete"}
Apart ==
  /\ \A t \in Thread : at[t] # "idle" => op[t] # "none"
  /\ \A t \in Thread : at[t] \in {"look", "next"} => op[t] \in {"find", "walk"}
  /\ \A t \in Thread : AtHand(t) <=> item[t] # NONE
  /\ \A t \in Thread : AtHand(t) => bucket[t] = BucketOf(item[t])
  /\ \A t, u \in Thread : t # u /\ AtHand(t) => item[t] # item[u]

\* Items are in their buckets; one to be added is in none, one to be deleted in its own.
Placed ==
  /\ \A b \in Bucket : \A x \in buckets[b] : BucketOf(x) = b
  /\ \A t \in Thread : AtHand(t) /\ at[t] \notin {"count", "unglobal"}
       => (item[t] \in buckets[bucket[t]] <=> op[t] # "add")

\* The count lags behind only between the change of a bucket and its own.
Counted ==
  /\ IsFiniteSet(Items)
  /\ (\A t \in Thread : at[t] # "count") => itemcnt = Cardinality(Items)
  /\ \A t \in Thread : at[t] = "count" =>
       /\ count[t] = itemcnt
       /\ Cardinality(Items) = IF op[t] = "add" THEN itemcnt + 1 ELSE itemcnt - 1

\* The inductive invariant of the hash table.
IInv == TypeOK /\ Owned /\ Apart /\ Placed /\ Counted

-----------------------------------------------------------------------------
\* hash_table.c: every item has a bucket and every bucket a mutex; the bucket
\* after the last one is the first.
LEMMA BucketFacts ==
  ASSUME HashTableAssumption
  PROVE  /\ 0 \in Bucket
         /\ \A x \in Node : BucketOf(x) \in Bucket
         /\ \A b \in Bucket : (b + 1) % bucketcnt \in Bucket
         /\ \A b \in Bucket : MutexOf(b) \in Mutex
<1>1. \A n \in Nat : n % bucketcnt \in Bucket BY DEF HashTableAssumption, Bucket
<1>2. \A b \in Bucket : MutexOf(b) \in Mutex BY DEF Mutex
<1> QED BY <1>1, <1>2 DEF HashTableAssumption, Bucket, BucketOf

\* hash_table_init_impl: a new table has empty buckets, and no one holds a
\* mutex.
LEMMA InitInv ==
  ASSUME HashTableAssumption, hash_table_init_impl
  PROVE  IInv
<1> USE DEF hash_table_init_impl
<1>1. TypeOK BY BucketFacts DEF TypeOK, Places
<1>2. Owned /\ Apart /\ Placed
  BY DEF Owned, Apart, Placed, AtHand, Counting, HashTableAssumption
<1>3. Items = {} BY DEF Items
<1>4. Counted BY <1>3, FS_EmptySet DEF Counted
<1> QED BY <1>1, <1>2, <1>4 DEF IInv

\* No step leaves the types; in particular a deletion never finds the count
\* zero, since the count that was read is that of the items.
LEMMA NextType ==
  ASSUME HashTableAssumption, IInv, TableNext
  PROVE  TypeOK'
<1> USE BucketFacts DEF IInv, TypeOK, Places, GoTo, table
<1>1. PICK t \in Thread :
  \/ BeginWalk(t)
  \/ \E x \in Node : BeginAdd(t, x) \/ BeginDelete(t, x) \/ BeginFind(t, x)
  \/ hash_table_lock_bucket(t) \/ Look(t) \/ LockGlobal(t) \/ Change(t) \/ AddCount(t)
  \/ UnlockGlobal(t) \/ hash_table_unlock_bucket(t)
  \/ hash_table_lock_next_bucket(t) \/ EndWalk(t)
  BY DEF TableNext
<1>2. CASE BeginWalk(t) BY <1>2 DEF BeginWalk, Begin
<1>3. ASSUME NEW x \in Node, BeginAdd(t, x) \/ BeginDelete(t, x) \/ BeginFind(t, x) PROVE TypeOK'
  BY <1>3 DEF BeginAdd, BeginDelete, BeginFind, Begin
<1>4. CASE hash_table_lock_bucket(t) BY <1>4 DEF hash_table_lock_bucket
<1>5. CASE Look(t) BY <1>5 DEF Look
<1>6. CASE LockGlobal(t) BY <1>6 DEF LockGlobal
<1>7. CASE Change(t) BY <1>7 DEF Change, Apart, AtHand
<1>8. CASE AddCount(t) 
  <2>1. Cardinality(Items) \in Nat BY FS_CardinalityType DEF Counted
  <2>2. count[t] = itemcnt /\ (op[t] # "add" => itemcnt > 0)
    BY <1>8, <2>1 DEF AddCount, Counted
  <2> QED BY <1>8, <2>2 DEF AddCount
<1>9. CASE UnlockGlobal(t) BY <1>9 DEF UnlockGlobal
<1>10. CASE hash_table_unlock_bucket(t) BY <1>10 DEF hash_table_unlock_bucket
<1>11. CASE hash_table_lock_next_bucket(t) BY <1>11 DEF hash_table_lock_next_bucket
<1>12. CASE EndWalk(t) BY <1>12 DEF EndWalk
<1> QED BY <1>1, <1>2, <1>3, <1>4, <1>5, <1>6, <1>7, <1>8, <1>9, <1>10, <1>11, <1>12

\* No step of a thread breaks the invariant, with one case for each step.
LEMMA NextInv ==
  ASSUME HashTableAssumption, IInv, TableNext
  PROVE  IInv'
<1>0. TypeOK /\ Owned /\ Apart /\ Placed /\ Counted /\ TypeOK' /\ NONE \notin Thread /\ NONE \notin Node
  BY NextType DEF IInv, HashTableAssumption
<1> SUFFICES Owned' /\ Apart' /\ Placed' /\ Counted' BY <1>0 DEF IInv
<1> USE <1>0
<1>1. PICK t \in Thread :
  \/ BeginWalk(t)
  \/ \E x \in Node : BeginAdd(t, x) \/ BeginDelete(t, x) \/ BeginFind(t, x)
  \/ hash_table_lock_bucket(t) \/ Look(t) \/ LockGlobal(t) \/ Change(t) \/ AddCount(t)
  \/ UnlockGlobal(t) \/ hash_table_unlock_bucket(t)
  \/ hash_table_lock_next_bucket(t) \/ EndWalk(t)
  BY DEF TableNext
<1>a. UNCHANGED buckets => Items' = Items BY DEF Items
<1>b. \A b \in Bucket : MutexOf(b) \in Mutex BY BucketFacts
<1>c. ASSUME NEW o \in {"find", "walk"}, NEW b \in Bucket, Begin(t, o, NONE, b)
      PROVE  Owned' /\ Apart' /\ Placed' /\ Counted'
  <2> USE <1>c DEF Begin, GoTo, table, TypeOK
  <2>1. Owned' BY DEF Owned, Counting, HeldMutex
  <2>2. Apart' BY DEF Apart, AtHand
  <2>3. Placed' BY DEF Placed, AtHand
  <2>4. Counted' BY <1>a DEF Counted
  <2> QED BY <2>1, <2>2, <2>3, <2>4
<1>2. CASE BeginWalk(t) BY <1>2, <1>c, BucketFacts DEF BeginWalk
<1>3. ASSUME NEW x \in Node, BeginFind(t, x) PROVE Owned' /\ Apart' /\ Placed' /\ Counted'
  BY <1>3, <1>c, BucketFacts DEF BeginFind
<1>4. ASSUME NEW x \in Node, BeginAdd(t, x) \/ BeginDelete(t, x) PROVE Owned' /\ Apart' /\ Placed' /\ Counted'
  <2>1. PICK o \in {"add", "delete"} :
          /\ Begin(t, o, x, BucketOf(x)) /\ ~Claimed(x)
          /\ x \in buckets[BucketOf(x)] <=> o # "add"
    BY <1>4, BucketFacts DEF BeginAdd, BeginDelete
  <2>2. BucketOf(x) \in Bucket BY BucketFacts
  <2> USE <2>1, <2>2 DEF Begin, GoTo, table, TypeOK
  <2>3. Owned' BY DEF Owned, Counting, HeldMutex
  <2>4. Apart' BY DEF Apart, AtHand, Claimed
  <2>5. Placed' BY DEF Placed, AtHand
  <2>6. Counted' BY <1>a DEF Counted
  <2> QED BY <2>3, <2>4, <2>5, <2>6
<1>5. CASE hash_table_lock_bucket(t)
  <2> USE <1>5 DEF hash_table_lock_bucket, GoTo, table, TypeOK
  <2>1. Owned' BY <1>b DEF Owned, Counting, HeldMutex
  <2>2. Apart' BY DEF Apart, AtHand
  <2>3. Placed' BY DEF Placed, AtHand
  <2>4. Counted' BY <1>a DEF Counted
  <2> QED BY <2>1, <2>2, <2>3, <2>4
<1>6. CASE Look(t)
  <2> USE <1>6 DEF Look, GoTo, table, TypeOK
  <2>1. Owned' BY DEF Owned, Counting, HeldMutex
  <2>2. Apart' BY DEF Apart, AtHand, Claimed, Placed
  <2>3. Placed' BY DEF Apart, Placed, AtHand
  <2>4. Counted' BY <1>a DEF Counted
  <2> QED BY <2>1, <2>2, <2>3, <2>4
<1>7. CASE LockGlobal(t)
  <2> USE <1>7 DEF LockGlobal, GoTo, table, TypeOK
  <2>1. Owned' BY DEF Owned, Counting, HeldMutex
  <2>2. Apart' BY DEF Apart, AtHand
  <2>3. Placed' BY DEF Placed, AtHand
  <2>4. Counted' BY <1>a DEF Counted
  <2> QED BY <2>1, <2>2, <2>3, <2>4
<1>9. CASE AddCount(t)
  <2> USE <1>9 DEF AddCount, GoTo, table, TypeOK
  <2>1. Owned' BY DEF Owned, Counting, HeldMutex, Places
  <2>2. Apart' BY DEF Apart, AtHand, Places
  <2>3. Placed' BY DEF Placed, AtHand, Places
  <2>4. Counted' BY <1>a DEF Counted, Owned, Counting, Places
  <2> QED BY <2>1, <2>2, <2>3, <2>4
<1>10. CASE UnlockGlobal(t)
  <2> USE <1>10 DEF UnlockGlobal, GoTo, table, TypeOK
  <2>1. Owned' BY DEF Owned, Counting, HeldMutex
  <2>2. Apart' BY DEF Apart, AtHand
  <2>3. Placed' BY DEF Placed, AtHand
  <2>4. Counted' BY <1>a DEF Counted
  <2> QED BY <2>1, <2>2, <2>3, <2>4
<1>11. CASE hash_table_unlock_bucket(t)
  <2> USE <1>11 DEF hash_table_unlock_bucket, GoTo, table, TypeOK
  <2>1. Owned' BY <1>b DEF Owned, Counting, HeldMutex
  <2>2. Apart' BY DEF Apart, AtHand
  <2>3. Placed' BY DEF Placed, AtHand
  <2>4. Counted' BY <1>a DEF Counted
  <2> QED BY <2>1, <2>2, <2>3, <2>4
<1>12. CASE hash_table_lock_next_bucket(t)
  <2> DEFINE next == (bucket[t] + 1) % bucketcnt
  <2>0. next \in Bucket BY BucketFacts DEF TypeOK
  <2> HIDE DEF next
  <2>a. /\ at[t] = "next"
        /\ bucket' = [bucket EXCEPT ![t] = next]
        /\ IF MutexOf(next) = HeldMutex(t)
           THEN GoTo(t, "look") /\ UNCHANGED bucket_mutexes
           ELSE GoTo(t, "lock") /\ bucket_mutexes' = [bucket_mutexes EXCEPT ![HeldMutex(t)] = NONE]
        /\ UNCHANGED <<table, global_mutex, op, item, count>>
    BY <1>12 DEF hash_table_lock_next_bucket, next
  <2>b. item[t] = NONE /\ op[t] \notin {"add", "delete"} BY <2>a DEF Apart, AtHand
  <2> USE <2>0, <2>a, <2>b DEF GoTo, table, TypeOK
  <2>1. Owned' BY <1>b DEF Owned, Counting, HeldMutex
  <2>2. Apart' BY DEF Apart, AtHand
  <2>3. Placed' BY DEF Placed, AtHand
  <2>4. Counted' BY <1>a DEF Counted
  <2> QED BY <2>1, <2>2, <2>3, <2>4
<1>13. CASE EndWalk(t)
  <2> USE <1>13 DEF EndWalk, GoTo, table, TypeOK
  <2>1. Owned' BY DEF Owned, Counting, HeldMutex
  <2>2. Apart' BY DEF Apart, AtHand
  <2>3. Placed' BY DEF Placed, AtHand
  <2>4. Counted' BY <1>a DEF Counted
  <2> QED BY <2>1, <2>2, <2>3, <2>4
<1>8. CASE Change(t)
  <2> DEFINE x == item[t]
  <2>0. /\ x \in Node /\ bucket[t] = BucketOf(x) /\ bucket[t] \in Bucket
        /\ x \in buckets[bucket[t]] <=> op[t] # "add"
        /\ \A u \in Thread : at[u] # "count"
    BY <1>8 DEF Change, TypeOK, Apart, AtHand, Placed, Owned, Counting
  <2>1. Owned' /\ Apart'
    <3> USE <1>8 DEF Change, GoTo, table, TypeOK
    <3>1. Owned' BY DEF Owned, Counting, HeldMutex
    <3>2. Apart' BY DEF Apart, AtHand
    <3> QED BY <3>1, <3>2
  <2>2. Placed'
    BY <1>8, <2>0 DEF Change, GoTo, TypeOK, Placed, Apart, AtHand
  <2>3. x \in Items <=> op[t] # "add"
    BY <2>0 DEF Items, Placed
  <2>4. Items' = IF op[t] = "add" THEN Items \cup {x} ELSE Items \ {x}
    BY <1>8, <2>0 DEF Change, TypeOK, Items, Placed
  <2>5. IsFiniteSet(Items) /\ itemcnt = Cardinality(Items) BY <2>0 DEF Counted
  <2>6. CASE op[t] = "add"
    <3>1. IsFiniteSet(Items') /\ Cardinality(Items') = Cardinality(Items) + 1
      BY <2>3, <2>4, <2>5, <2>6, FS_AddElement
    <3> QED BY <1>8, <2>0, <2>1, <2>2, <2>5, <2>6, <3>1 DEF Counted, Change, GoTo, TypeOK
  <2>7. CASE op[t] # "add"
    <3>1. IsFiniteSet(Items') /\ Cardinality(Items') = Cardinality(Items) - 1
      BY <2>3, <2>4, <2>5, <2>7, FS_RemoveElement
    <3> QED BY <1>8, <2>0, <2>1, <2>2, <2>5, <2>7, <3>1 DEF Counted, Change, GoTo, TypeOK
  <2> QED BY <2>6, <2>7
<1> QED BY <1>1, <1>2, <1>3, <1>4, <1>5, <1>6, <1>7, <1>8, <1>9, <1>10, <1>11, <1>12, <1>13

\* The invariant of the hash table: who is between lock and unlock holds the
\* mutex, no two threads have the same item at hand, an item is in its bucket
\* exactly from its addition to its deletion, and the count lags behind only
\* while the global mutex is held.
THEOREM HashTableInv == ASSUME HashTableAssumption PROVE TableSpec => []IInv
<1>1. hash_table_init_impl => IInv BY InitInv
<1>2. IInv /\ [TableNext]_tableVars => IInv'
  <2>1. ASSUME IInv, UNCHANGED tableVars PROVE IInv'
    <3> USE <2>1 DEF tableVars, table, IInv
    <3>1. TypeOK' BY DEF TypeOK
    <3>2. Owned' BY DEF Owned, Counting, HeldMutex
    <3>3. Apart' /\ Placed' BY DEF Apart, AtHand, Placed
    <3>4. Items' = Items BY DEF Items
    <3>5. Counted' BY <3>4 DEF Counted
    <3> QED BY <3>1, <3>2, <3>3, <3>5
  <2> QED BY <2>1, NextInv
<1> QED BY <1>1, <1>2, PTL DEF TableSpec

\* While a thread looks through a bucket no other changes it; whenever the
\* global mutex is free the count is the number of items; and no deletion finds
\* it zero.
THEOREM HashTableSound == ASSUME HashTableAssumption PROVE TableSpec => []TableSound
<1>1. IInv => TableSound
  <2> SUFFICES ASSUME IInv PROVE BucketExclusive /\ CountExact BY DEF TableSound
  <2>1. BucketExclusive BY DEF IInv, Owned, BucketExclusive, InBucket, HeldMutex
  <2>2. CountExact
    BY DEF IInv, Owned, Counting, Counted, CountExact, TypeOK, Places, HashTableAssumption
  <2> QED BY <2>1, <2>2
<1> QED BY <1>1, HashTableInv, PTL

-----------------------------------------------------------------------------
(* The ARP cache.                                                          *)

\* The entries of the cache.
ArpEntry == [valid : BOOLEAN, list : Seq(Packet), timer : 0 .. ARP_CACHE_TIMEOUT]

\* The types.
ArpTypeOK ==
  /\ DOMAIN cache \subseteq Ip
  /\ \A ip \in DOMAIN cache : cache[ip] \in ArpEntry
  /\ owner \in [Packet -> {"user", "cache", "port", "freed", "lost"}]
  /\ quiet \in [Ip -> 0 .. ARP_CACHE_TIMEOUT]

\* What the timer has left and the time since the address was last put or queued
\* to are the timeout at least.
ArpTimed == \A ip \in DOMAIN cache : cache[ip].timer + quiet[ip] >= ARP_CACHE_TIMEOUT

\* The inductive invariant of the ARP cache.
ArpIInv == ArpTypeOK /\ PacketsOwned /\ ArpTimed

-----------------------------------------------------------------------------
\* arp_cache_put_packet: what is left of a list after room was made has each
\* packet once, and no packet that was not in it.
LEMMA ArpRoomFacts ==
  ASSUME ArpCacheAssumption, NEW list \in Seq(Packet), IsInjective(list)
  PROVE  /\ Room(list) \in Seq(Packet) /\ IsInjective(Room(list))
         /\ Range(Room(list)) \subseteq Range(list)
<1> DEFINE over == Len(list) - ARP_CACHE_MAX_PACKETS + 1
           rest == SubSeq(list, over + 1, Len(list))
<1>0. ARP_CACHE_MAX_PACKETS \in Nat \ {0} /\ Len(list) \in Nat /\ over \in Int
  BY DEF ArpCacheAssumption
<1>1. CASE over > 0
  <2>1. over + 1 <= Len(list) + 1 /\ over + 1 \in 1 .. Len(list) + 1 BY <1>0, <1>1
  <2>2. /\ rest \in Seq(Packet) /\ Len(rest) = Len(list) - over
        /\ \A i \in 1 .. Len(list) - over : rest[i] = list[over + i]
    BY <1>0, <1>1, <2>1, SubSeqProperties
  <2>3. IsInjective(rest) BY <1>0, <1>1, <2>2 DEF IsInjective
  <2>4. Range(rest) \subseteq Range(list) BY <1>0, <1>1, <2>2 DEF Range
  <2> QED BY <1>1, <2>2, <2>3, <2>4 DEF Room
<1>2. CASE ~(over > 0) BY <1>2 DEF Room
<1> QED BY <1>1, <1>2

\* arp_cache_put_packet: a new packet is added to what is left of a list, once.
LEMMA ArpQueuedFacts ==
  ASSUME ArpCacheAssumption, NEW list \in Seq(Packet), IsInjective(list),
         NEW p \in Packet, p \notin Range(list)
  PROVE  /\ Queued(list, p) \in Seq(Packet) /\ IsInjective(Queued(list, p))
         /\ Range(Queued(list, p)) = Range(Room(list)) \cup {p}
<1> DEFINE room == Room(list)
<1>1. room \in Seq(Packet) /\ IsInjective(room) /\ p \notin Range(room) BY ArpRoomFacts
<1> HIDE DEF room
<1>2. /\ Append(room, p) \in Seq(Packet) /\ Len(Append(room, p)) = Len(room) + 1
      /\ \A i \in 1 .. Len(room) : Append(room, p)[i] = room[i]
      /\ Append(room, p)[Len(room) + 1] = p
  BY <1>1, AppendProperties
<1>3. IsInjective(Append(room, p)) BY <1>1, <1>2 DEF IsInjective, Range
<1>4. Range(Append(room, p)) = Range(room) \cup {p} BY <1>1, <1>2 DEF Range
<1> QED BY <1>2, <1>3, <1>4 DEF Queued, room

\* Of the list of an address, empty for one that is not known: its packets are
\* the cache's and in no other list.
LEMMA ArpListFacts ==
  ASSUME ArpIInv, NEW ip \in Ip
  PROVE  /\ List(ip) \in Seq(Packet) /\ IsInjective(List(ip))
         /\ \A q \in Range(List(ip)) : q \in Packet /\ owner[q] = "cache"
         /\ \A q \in Range(List(ip)), i \in DOMAIN cache : q \in Range(cache[i].list) => i = ip
         /\ ip \in DOMAIN cache => Range(List(ip)) = Range(cache[ip].list)
<1>1. CASE Known(ip)
  <2>1. List(ip) = cache[ip].list /\ ip \in DOMAIN cache BY <1>1 DEF List, Known
  <2>2. List(ip) \in Seq(Packet) BY <2>1 DEF ArpIInv, ArpTypeOK, ArpEntry
  <2>3. \A q \in Range(List(ip)) : q \in Packet BY <2>2 DEF Range
  <2> QED BY <2>1, <2>2, <2>3 DEF ArpIInv, PacketsOwned
<1>2. CASE ~Known(ip)
  <2>1. List(ip) = << >> /\ ip \notin DOMAIN cache BY <1>2 DEF List, Known
  <2>2. List(ip) \in Seq(Packet) /\ Range(List(ip)) = {} /\ IsInjective(List(ip))
    BY <2>1 DEF Range, IsInjective
  <2> QED BY <2>1, <2>2 DEF ArpIInv, PacketsOwned
<1> QED BY <1>1, <1>2

\* What the change of one list does to the owners.
LEMMA ArpOwnedAgain ==
  ASSUME ArpIInv, NEW ip \in Ip, NEW new,
         DOMAIN cache' = (DOMAIN cache \ {ip}) \/ DOMAIN cache' = DOMAIN cache \cup {ip},
         \A i \in DOMAIN cache \ {ip} : cache'[i] = cache[i],
         ip \in DOMAIN cache' => cache'[ip].list = new /\ IsInjective(new),
         ip \notin DOMAIN cache' => Range(new) = {},
         \A q \in Range(new) : q \in Range(List(ip)) \/ owner[q] # "cache",
         Range(new) \subseteq Packet,
         \A q \in Packet : owner'[q] = "cache" <=>
           q \in Range(new) \/ (owner[q] = "cache" /\ q \notin Range(List(ip)))
  PROVE  PacketsOwned'
<1> DEFINE In(q, i) == q \in Range(cache[i].list)
           After(q, i) == q \in Range(cache'[i].list)
<1>1. \A q \in Packet : owner[q] = "cache" <=> \E i \in DOMAIN cache : In(q, i)
  BY DEF ArpIInv, PacketsOwned
<1>2. \A q, i, j : i \in DOMAIN cache /\ j \in DOMAIN cache /\ In(q, i) /\ In(q, j) => i = j
  BY DEF ArpIInv, PacketsOwned
<1>3. \A q : \A i \in DOMAIN cache \ {ip} : After(q, i) <=> In(q, i) OBVIOUS
<1>4. ip \in DOMAIN cache' => \A q : After(q, ip) <=> q \in Range(new) OBVIOUS
<1>5. \A q, i : i \in DOMAIN cache /\ In(q, i) => q \in Packet
  BY DEF ArpIInv, ArpTypeOK, ArpEntry, Range
<1>6. /\ \A q \in Range(List(ip)), i \in DOMAIN cache : In(q, i) => i = ip
      /\ ip \in DOMAIN cache => \A q : In(q, ip) <=> q \in Range(List(ip))
  BY ArpListFacts
<1> HIDE DEF In, After
<1>7. \A q : \A i \in DOMAIN cache \ {ip} : In(q, i) => q \notin Range(new)
  BY <1>1, <1>5, <1>6
<1>8. \A i \in DOMAIN cache' : i # ip => i \in DOMAIN cache \ {ip} OBVIOUS
<1>9. \A i, j \in DOMAIN cache' : \A q : After(q, i) /\ After(q, j) => i = j
  BY <1>2, <1>3, <1>4, <1>7, <1>8
<1>10. ASSUME NEW q \in Packet
       PROVE  owner'[q] = "cache" <=> \E i \in DOMAIN cache' : After(q, i)
  <2>1. CASE q \in Range(new)
    <3>1. ip \in DOMAIN cache' BY <2>1
    <3>2. After(q, ip) BY <1>4, <2>1, <3>1
    <3>3. owner'[q] = "cache" BY <2>1
    <3> QED BY <3>1, <3>2, <3>3
  <2>2. CASE q \notin Range(new)
    <3>1. (\E i \in DOMAIN cache' : After(q, i)) <=> \E i \in DOMAIN cache \ {ip} : In(q, i)
      BY <1>3, <1>4, <1>8, <2>2
    <3>2. (\E i \in DOMAIN cache \ {ip} : In(q, i)) <=> owner[q] = "cache" /\ q \notin Range(List(ip))
      BY <1>1, <1>6, ArpListFacts
    <3> QED BY <2>2, <3>1, <3>2
  <2> QED BY <2>1, <2>2
<1>11. \A i \in DOMAIN cache' : IsInjective(cache'[i].list)
  BY <1>8 DEF ArpIInv, PacketsOwned
<1>12. \A i, j \in DOMAIN cache' : i # j => Range(cache'[i].list) \cap Range(cache'[j].list) = {}
  BY <1>9 DEF After
<1> QED BY <1>10, <1>11, <1>12 DEF PacketsOwned, After

\* Making or renewing an entry arms its timer, gives it the list and leaves all
\* other entries alone.
LEMMA ArpPutFacts ==
  ASSUME ArpCacheAssumption, ArpIInv, NEW ip \in Ip, NEW valid \in BOOLEAN,
         NEW list \in Seq(Packet), Put(ip, valid, list)
  PROVE  /\ DOMAIN cache' = DOMAIN cache \cup {ip}
         /\ cache'[ip].list = list
         /\ \A i \in DOMAIN cache \ {ip} : cache'[i] = cache[i]
         /\ ArpTimed' /\ DOMAIN cache' \subseteq Ip
         /\ \A i \in DOMAIN cache' : cache'[i] \in ArpEntry
         /\ quiet' \in [Ip -> 0 .. ARP_CACHE_TIMEOUT]
<1> DEFINE entry == [valid |-> valid, list |-> list, timer |-> ARP_CACHE_TIMEOUT]
<1>1. /\ cache' = [i \in DOMAIN cache \cup {ip} |-> IF i = ip THEN entry ELSE cache[i]]
      /\ quiet' = [quiet EXCEPT ![ip] = 0]
  BY DEF Put, Armed
<1>2. ARP_CACHE_TIMEOUT \in Nat /\ ARP_CACHE_TIMEOUT \in 0 .. ARP_CACHE_TIMEOUT
  BY DEF ArpCacheAssumption
<1>3. entry \in ArpEntry BY <1>2, Zenon DEF ArpEntry
<1>4. entry.list = list /\ entry.timer = ARP_CACHE_TIMEOUT OBVIOUS
<1> HIDE DEF entry
<1>5. /\ DOMAIN cache' = DOMAIN cache \cup {ip} /\ cache'[ip] = entry
      /\ \A i \in DOMAIN cache \ {ip} : cache'[i] = cache[i]
  BY <1>1
<1>6. quiet' \in [Ip -> 0 .. ARP_CACHE_TIMEOUT] BY <1>1, <1>2 DEF ArpIInv, ArpTypeOK
<1>7. DOMAIN cache' \subseteq Ip /\ \A i \in DOMAIN cache' : cache'[i] \in ArpEntry
  BY <1>3, <1>5 DEF ArpIInv, ArpTypeOK
<1>8. ArpTimed' BY <1>1, <1>2, <1>4, <1>5 DEF ArpIInv, ArpTypeOK, ArpTimed
<1> QED BY <1>4, <1>5, <1>6, <1>7, <1>8

\* arp_cache_init: there are no entries and no packets.
LEMMA ArpInitInv ==
  ASSUME ArpCacheAssumption, arp_cache_init
  PROVE  ArpIInv
<1>1. DOMAIN cache = {} BY DEF arp_cache_init
<1> QED BY <1>1 DEF arp_cache_init, ArpIInv, ArpTypeOK, PacketsOwned, ArpTimed,
   ArpCacheAssumption

\* No call, expiry or tick breaks the invariant.
LEMMA ArpNextInv ==
  ASSUME ArpCacheAssumption, ArpIInv, [ArpNext]_arpVars
  PROVE  ArpIInv'
<1>0. ArpTypeOK /\ PacketsOwned /\ ArpTimed /\ ARP_CACHE_TIMEOUT \in Nat \ {0}
  BY DEF ArpIInv, ArpCacheAssumption
<1>1. CASE ArpTick
  <2>1. /\ DOMAIN cache' = DOMAIN cache
        /\ \A ip \in DOMAIN cache : cache'[ip] = [cache[ip] EXCEPT !.timer = Less(@)]
    BY <1>1 DEF ArpTick
  <2>2. ASSUME NEW ip \in DOMAIN cache
        PROVE  /\ cache'[ip].list = cache[ip].list /\ cache'[ip].timer = Less(cache[ip].timer)
               /\ Less(cache[ip].timer) \in 0 .. ARP_CACHE_TIMEOUT
               /\ cache'[ip] \in ArpEntry
    <3>1. cache[ip] \in ArpEntry BY <1>0 DEF ArpTypeOK
    <3>2. cache[ip].timer \in 0 .. ARP_CACHE_TIMEOUT BY <3>1 DEF ArpEntry
    <3>3. Less(cache[ip].timer) \in 0 .. ARP_CACHE_TIMEOUT BY <1>0, <3>2 DEF Less
    <3> QED BY <2>1, <3>1, <3>3 DEF ArpEntry
  <2>3. ArpTimed' /\ quiet' \in [Ip -> 0 .. ARP_CACHE_TIMEOUT]
    <3>1. \A ip \in DOMAIN cache : cache[ip].timer \in 0 .. ARP_CACHE_TIMEOUT /\ ip \in Ip
      BY <1>0 DEF ArpTypeOK, ArpEntry
    <3> QED BY <1>0, <1>1, <2>1, <2>2, <3>1 DEF ArpTick, ArpTypeOK, ArpTimed, Less
  <2>4. ArpTypeOK' BY <1>0, <1>1, <2>1, <2>2, <2>3 DEF ArpTick, ArpTypeOK
  <2>5. PacketsOwned' BY <1>0, <1>1, <2>1, <2>2 DEF ArpTick, PacketsOwned
  <2> QED BY <2>3, <2>4, <2>5 DEF ArpIInv
<1>2. ASSUME NEW p \in Packet, Receive(p) PROVE ArpIInv'
  <2>1. /\ cache' = cache /\ quiet' = quiet /\ owner' \in [Packet -> {"user", "cache", "port", "freed", "lost"}]
        /\ \A q \in Packet : owner'[q] = "cache" <=> owner[q] = "cache"
    BY <1>0, <1>2 DEF Receive, ArpTypeOK
  <2> QED BY <1>0, <2>1 DEF ArpIInv, ArpTypeOK, PacketsOwned, ArpTimed
<1>3. ASSUME NEW ip \in Ip, arp_entry_expiry_fn(ip) PROVE ArpIInv'
  <2>1. /\ DOMAIN cache' = DOMAIN cache \ {ip}
        /\ \A i \in DOMAIN cache \ {ip} : cache'[i] = cache[i]
        /\ quiet' = quiet
        /\ owner' = [q \in Packet |-> IF q \in Range(List(ip)) THEN "freed" ELSE owner[q]]
    BY <1>3 DEF arp_entry_expiry_fn, Known
  <2>2. ArpTypeOK' /\ ArpTimed' BY <1>0, <2>1 DEF ArpTypeOK, ArpTimed
  <2>3. Range(<< >>) = {} BY DEF Range
  <2>4. \A q \in Packet : owner'[q] = "cache" <=>
          q \in Range(<< >>) \/ (owner[q] = "cache" /\ q \notin Range(List(ip)))
    BY <2>1, <2>3
  <2>5. PacketsOwned' BY <2>1, <2>3, <2>4, ArpOwnedAgain
  <2> QED BY <2>2, <2>5 DEF ArpIInv
<1>4. ASSUME NEW ip \in Ip, NEW p \in Packet, arp_cache_put_packet(ip, p) PROVE ArpIInv'
  <2> DEFINE list == List(ip)
             new == Queued(list, p)
  <2>1. /\ owner[p] = "user" /\ Put(ip, arp_cache_get(ip), new)
        /\ owner' = [q \in Packet |->
             CASE q = p -> "cache"
               [] q \in Range(list) \ Range(Room(list)) -> "freed"
               [] OTHER -> owner[q]]
    BY <1>4 DEF arp_cache_put_packet
  <2>2. p \notin Range(list) BY <2>1, ArpListFacts
  <2>3. /\ new \in Seq(Packet) /\ IsInjective(new) /\ Range(new) = Range(Room(list)) \cup {p}
        /\ Range(Room(list)) \subseteq Range(list) /\ Range(list) \subseteq Packet
    BY <2>2, ArpListFacts, ArpRoomFacts, ArpQueuedFacts
  <2> HIDE DEF new
  <2>4. arp_cache_get(ip) \in BOOLEAN
    BY Zenon DEF arp_cache_get
  <2>5. /\ DOMAIN cache' = DOMAIN cache \cup {ip}
        /\ cache'[ip].list = new
        /\ \A i \in DOMAIN cache \ {ip} : cache'[i] = cache[i]
        /\ ArpTimed' /\ DOMAIN cache' \subseteq Ip
        /\ \A i \in DOMAIN cache' : cache'[i] \in ArpEntry
        /\ quiet' \in [Ip -> 0 .. ARP_CACHE_TIMEOUT]
    BY <2>1, <2>3, <2>4, ArpPutFacts
  <2>6. owner' \in [Packet -> {"user", "cache", "port", "freed", "lost"}]
    BY <1>0, <2>1 DEF ArpTypeOK
  <2>7. \A q \in Range(new) : q \in Range(list) \/ owner[q] # "cache" BY <2>1, <2>3
  <2>8. \A q \in Packet : owner'[q] = "cache" <=>
           q \in Range(new) \/ (owner[q] = "cache" /\ q \notin Range(list))
    <3>1. \A q \in Range(list) : owner[q] = "cache" BY ArpListFacts
    <3> QED BY <2>1, <2>2, <2>3, <3>1
  <2>9. PacketsOwned' BY <2>3, <2>5, <2>7, <2>8, ArpOwnedAgain
  <2> QED BY <2>5, <2>6, <2>9 DEF ArpIInv, ArpTypeOK
<1>5. ASSUME NEW ip \in Ip, NEW port \in BOOLEAN, arp_cache_put(ip, port) PROVE ArpIInv'
  <2>1. << >> \in Seq(Packet) /\ Range(<< >>) = {} /\ IsInjective(<< >>)
    BY DEF Range, IsInjective
  <2>2. Put(ip, TRUE, << >>) BY <1>5 DEF arp_cache_put
  <2>3. /\ DOMAIN cache' = DOMAIN cache \cup {ip}
        /\ cache'[ip].list = << >>
        /\ \A i \in DOMAIN cache \ {ip} : cache'[i] = cache[i]
        /\ ArpTimed' /\ DOMAIN cache' \subseteq Ip
        /\ \A i \in DOMAIN cache' : cache'[i] \in ArpEntry
        /\ quiet' \in [Ip -> 0 .. ARP_CACHE_TIMEOUT]
    BY <2>1, <2>2, ArpPutFacts
  <2>4. PICK place \in {"port", "lost"} :
          owner' = [q \in Packet |-> IF q \in Range(List(ip)) THEN place ELSE owner[q]]
    <3>1. CASE port BY <1>5, <3>1 DEF arp_cache_put, arp_cache_drain
    <3>2. CASE ~port BY <1>5, <3>2 DEF arp_cache_put, arp_cache_drain
    <3> QED BY <3>1, <3>2
  <2>5. owner' \in [Packet -> {"user", "cache", "port", "freed", "lost"}]
    BY <1>0, <2>4 DEF ArpTypeOK
  <2>6. \A q \in Packet : owner'[q] = "cache" <=>
           q \in Range(<< >>) \/ (owner[q] = "cache" /\ q \notin Range(List(ip)))
    BY <2>1, <2>4
  <2>7. PacketsOwned' BY <2>1, <2>3, <2>6, ArpOwnedAgain
  <2> QED BY <2>3, <2>5, <2>7 DEF ArpIInv, ArpTypeOK
<1>6. CASE UNCHANGED arpVars
  BY <1>0, <1>6 DEF arpVars, ArpIInv, ArpTypeOK, PacketsOwned, ArpTimed
<1> QED BY <1>1, <1>2, <1>3, <1>4, <1>5, <1>6 DEF ArpNext

\* The invariant of the ARP cache: each packet taken is in one list, and the
\* timer of an entry and the time since its address was last put or queued to
\* add up to the timeout at least.
THEOREM ArpCacheInv == ASSUME ArpCacheAssumption PROVE ArpSpec => []ArpIInv
<1>1. arp_cache_init => ArpIInv BY ArpInitInv
<1>2. ArpIInv /\ [ArpNext]_arpVars => ArpIInv' BY ArpNextInv
<1> QED BY <1>1, <1>2, PTL DEF ArpSpec

\* A packet belongs to the cache exactly if it is in the list of an entry, and
\* it is there once: none is lost and none is freed or sent twice.
THEOREM ArpPacketsOwned == ASSUME ArpCacheAssumption PROVE ArpSpec => []PacketsOwned
BY ArpCacheInv, PTL DEF ArpIInv

\* A call that makes or renews an entry makes no lookup fail, if it does not
\* take away the hardware address of the entry it renews.
LEMMA ArpPutKeeps ==
  ASSUME NEW ip \in Ip, NEW valid, NEW list, Put(ip, valid, list), arp_cache_get(ip) => valid,
         NEW i \in Ip
  PROVE  (Known(i) => Known(i)') /\ (arp_cache_get(i) => arp_cache_get(i)')
<1> DEFINE entry == [valid |-> valid, list |-> list, timer |-> Armed(ip)]
<1>1. cache' = [j \in DOMAIN cache \cup {ip} |-> IF j = ip THEN entry ELSE cache[j]] BY DEF Put
<1>2. entry.valid = valid OBVIOUS
<1> HIDE DEF entry
<1>3. Known(i) => Known(i)' BY <1>1 DEF Known
<1>4. CASE i = ip
  <2>1. cache'[i].valid = valid BY <1>1, <1>2, <1>4
  <2> QED BY <1>3, <1>4, <2>1, Zenon DEF arp_cache_get
<1>5. CASE i # ip
  <2>1. Known(i) => cache'[i] = cache[i] BY <1>1, <1>5 DEF Known
  <2> QED BY <1>3, <2>1, Zenon DEF arp_cache_get
<1> QED BY <1>4, <1>5

\* What arp_cache_get or arp_cache_get_accept_invalid finds, it finds until the
\* address was neither put nor queued to for the whole timeout.
THEOREM ArpKeptUntilQuiet == ASSUME ArpCacheAssumption PROVE ArpSpec => KeptUntilQuiet
<1> DEFINE Fails(ip) == (Known(ip) /\ ~Known(ip)') \/ (arp_cache_get(ip) /\ ~arp_cache_get(ip)')
<1>1. ASSUME ArpIInv, [ArpNext]_arpVars, NEW ip \in Ip, Fails(ip)
      PROVE  quiet[ip] = ARP_CACHE_TIMEOUT
  <2>1. ASSUME NEW i \in Ip, arp_entry_expiry_fn(i) PROVE quiet[ip] = ARP_CACHE_TIMEOUT
    <3>1. cache' = [j \in DOMAIN cache \ {i} |-> cache[j]] /\ cache[i].timer = 0
      BY <2>1 DEF arp_entry_expiry_fn
    <3>2. ip \in DOMAIN cache BY <1>1 DEF Known, arp_cache_get
    <3>3. ip # i => ip \in DOMAIN cache' /\ cache'[ip] = cache[ip] BY <3>1, <3>2
    <3>4. ip = i BY <1>1, <3>2, <3>3 DEF Known, arp_cache_get
    <3>5. quiet[ip] \in 0 .. ARP_CACHE_TIMEOUT /\ ARP_CACHE_TIMEOUT \in Nat
      BY <1>1 DEF ArpIInv, ArpTypeOK, ArpCacheAssumption
    <3>6. 0 + quiet[ip] >= ARP_CACHE_TIMEOUT BY <1>1, <3>1, <3>2, <3>4 DEF ArpIInv, ArpTimed
    <3> QED BY <3>5, <3>6
  <2>2. CASE ArpTick
    <3>1. DOMAIN cache' = DOMAIN cache
          /\ \A i \in DOMAIN cache : cache'[i] = [cache[i] EXCEPT !.timer = Less(@)]
      BY <2>2 DEF ArpTick
    <3>2. ip \in DOMAIN cache BY <1>1 DEF Known, arp_cache_get
    <3>3. cache[ip] \in ArpEntry BY <1>1, <3>2 DEF ArpIInv, ArpTypeOK
    <3>4. cache'[ip].valid = cache[ip].valid BY <3>1, <3>2, <3>3 DEF ArpEntry
    <3> QED BY <1>1, <3>1, <3>2, <3>4, Zenon DEF Known, arp_cache_get
  <2>3. CASE UNCHANGED arpVars BY <1>1, <2>3 DEF arpVars, Known, arp_cache_get
  <2>4. ASSUME NEW p \in Packet, Receive(p) PROVE FALSE
    BY <1>1, <2>4 DEF Receive, Known, arp_cache_get
  <2>5. ASSUME NEW i \in Ip, NEW p \in Packet, arp_cache_put_packet(i, p) PROVE FALSE
    <3>1. Put(i, arp_cache_get(i), Queued(List(i), p)) BY <2>5 DEF arp_cache_put_packet
    <3> QED BY <1>1, <3>1, ArpPutKeeps
  <2>6. ASSUME NEW i \in Ip, NEW port \in BOOLEAN, arp_cache_put(i, port) PROVE FALSE
    <3>1. Put(i, TRUE, << >>) BY <2>6 DEF arp_cache_put
    <3> QED BY <1>1, <3>1, ArpPutKeeps
  <2> HIDE DEF Fails
  <2> QED BY <1>1, <2>1, <2>2, <2>3, <2>4, <2>5, <2>6 DEF ArpNext
<1>2. ArpIInv /\ [ArpNext]_arpVars
      => [\A ip \in Ip : Fails(ip) => quiet[ip] = ARP_CACHE_TIMEOUT]_arpVars
  <2> HIDE DEF Fails
  <2> QED BY <1>1
<1> QED BY <1>2, ArpCacheInv, PTL DEF ArpSpec, KeptUntilQuiet

-----------------------------------------------------------------------------
(* The token buckets.                                                      *)

\* How late the timer of batch i first expires.
Offset(i) == (timer_period * i) \div timercnt

\* What a batch's timers have done, told by its next time.
HashTimes ==
  /\ \A i \in Batch : batch_time64[i] = Offset(i) + timer_period * refills[i]
  /\ \A i \in Batch : refills[i] # 0 => batch_time64[i] <= now + timer_period
  /\ \A i, j \in Batch : batch_time64[i] <= batch_time64[j] + timer_period

\* An entry has spent what it was given.
HashBalance == \A e \in Entry :
  /\ \A i \in Batch : InBatch(e, i) => spent[e] + tokens[e] <= initial_tokens + timer_add * refills[i]
  /\ (\A i \in Batch : ~InBatch(e, i)) => spent[e] + tokens[e] <= initial_tokens

\* The inductive invariant of the token buckets.
HashIInv == TokensFit /\ HashTimes /\ HashBalance

-----------------------------------------------------------------------------
\* Multiplication keeps order.
LEMMA MulMonotone ==
  ASSUME NEW a \in Nat, NEW m \in Int, NEW n \in Int, m <= n
  PROVE  a * m <= a * n
<1>1. PICK k \in Nat : n = m + k BY n - m \in Nat
<1>2. a * n = a * m + a * k BY <1>1
<1>3. a * k \in Nat OBVIOUS
<1> QED BY <1>2, <1>3

\* What a quotient is.
LEMMA DivRange ==
  ASSUME NEW n \in Nat, NEW d \in Nat \ {0}
  PROVE  /\ n \div d \in Nat
         /\ d * (n \div d) <= n /\ n < d * (n \div d) + d
OBVIOUS

\* Bounds of a quotient.
LEMMA DivBound ==
  ASSUME NEW n \in Nat, NEW d \in Nat \ {0}, NEW k \in Int
  PROVE  /\ d * k <= n => k <= n \div d
         /\ n < d * k => n \div d < k
<1> DEFINE q == n \div d
<1>1. q \in Nat /\ d * q <= n /\ n < d * q + d BY DivRange
<1> HIDE DEF q
<1>2. d * (q + 1) = d * q + d BY <1>1
<1>3. q + 1 <= k => d * (q + 1) <= d * k BY <1>1, MulMonotone
<1>4. k <= q => d * k <= d * q BY <1>1, MulMonotone
<1>5. d * k \in Int /\ d * q \in Int BY <1>1
<1>6. d * k <= n => k <= q BY <1>1, <1>2, <1>3, <1>5
<1>7. n < d * k => q < k BY <1>1, <1>4, <1>5
<1> QED BY <1>6, <1>7 DEF q

\* There is at least one batch.
LEMMA TimercntPositive ==
  ASSUME IpHashAssumption
  PROVE  timercnt \in Nat \ {0}
<1> USE DEF IpHashAssumption
<1>1. hash_size \div batch_size \in Nat
      /\ hash_size < batch_size * (hash_size \div batch_size) + batch_size
  BY DivRange
<1>2. hash_size < batch_size => hash_size % batch_size = hash_size OBVIOUS
<1>3. hash_size \div batch_size = 0 => hash_size < batch_size BY <1>1
<1> QED BY <1>1, <1>2, <1>3 DEF timercnt

\* The timers of the batches first expire in the first period.
LEMMA OffsetRange ==
  ASSUME IpHashAssumption, NEW i \in Batch
  PROVE  Offset(i) \in Nat /\ Offset(i) < timer_period
<1> USE TimercntPositive DEF IpHashAssumption
<1>1. i \in Nat /\ i + 1 <= timercnt BY DEF Batch
<1>2. timer_period * (i + 1) <= timer_period * timercnt BY <1>1, MulMonotone
<1>3. timer_period * (i + 1) = timer_period * i + timer_period BY <1>1
<1>4. timer_period * i \in Nat BY <1>1
<1>5. timer_period * timercnt \in Int /\ timer_period * i < timer_period * timercnt
  BY <1>2, <1>3, <1>4
<1>6. timer_period * timercnt = timercnt * timer_period OBVIOUS
<1>7. timer_period * i < timercnt * timer_period BY <1>5, <1>6
<1> HIDE DEF IpHashAssumption
<1>8. timer_period \in Int BY DEF IpHashAssumption
<1> QED BY <1>4, <1>7, <1>8, DivRange, DivBound DEF Offset

\* An entry is in one batch at most.
LEMMA OneBatch ==
  ASSUME IpHashAssumption, NEW e \in Entry, NEW i \in Batch, NEW j \in Batch,
         InBatch(e, i), InBatch(e, j)
  PROVE  i = j
<1> USE DEF IpHashAssumption
<1>1. i \in Nat /\ j \in Nat /\ e \in Nat BY TimercntPositive DEF Batch, Entry
<1>2. ASSUME NEW m \in Nat, NEW n \in Nat, m < n, InBatch(e, m), InBatch(e, n) PROVE FALSE
  <2>1. batch_size * (m + 1) <= batch_size * n BY <1>2, MulMonotone
  <2>2. batch_size * (m + 1) \in Int /\ batch_size * n \in Int OBVIOUS
  <2> QED BY <1>1, <1>2, <2>1, <2>2 DEF InBatch
<1> QED BY <1>1, <1>2

\* batch_timer_fn: the sum of tokens wraps neither in 32 bits nor in the width
\* of an entry; a refill adds timer_add at most and never exceeds the initial
\* tokens.
LEMMA RefilledBound ==
  ASSUME IpHashAssumption, NEW t \in 0 .. initial_tokens
  PROVE  /\ Refilled(t) \in 0 .. initial_tokens
         /\ Refilled(t) <= t + timer_add
         /\ initial_tokens < Width
<1> USE DEF IpHashAssumption
<1>1. (t + timer_add) % Word = t + timer_add OBVIOUS
<1>2. initial_tokens < Width /\ Width \in Nat BY DEF Width
<1>3. \A m \in 0 .. initial_tokens : m % Width = m BY <1>2
<1> QED BY <1>1, <1>2, <1>3 DEF Refilled

-----------------------------------------------------------------------------
\* ip_hash_init: every entry has its initial tokens, and the timers are spread
\* over the first period.
LEMMA HashInitInv ==
  ASSUME IpHashAssumption, ip_hash_init
  PROVE  HashIInv
<1>1. \A i \in Batch : Offset(i) \in Nat /\ Offset(i) < timer_period BY OffsetRange
<1>2. initial_tokens < Width /\ initial_tokens \in Nat /\ timer_period \in Nat /\ timer_add \in Nat
  BY RefilledBound DEF IpHashAssumption
<1>3. batch_time64 = [i \in Batch |-> Offset(i)] BY DEF ip_hash_init, Offset
<1>4. TokensFit BY <1>1, <1>2, <1>3 DEF ip_hash_init, TokensFit
<1>5. HashTimes BY <1>1, <1>2, <1>3 DEF ip_hash_init, HashTimes
<1>6. HashBalance BY <1>2 DEF ip_hash_init, HashBalance
<1> QED BY <1>4, <1>5, <1>6 DEF HashIInv

\* No call, timer or tick breaks the invariant.
LEMMA HashNextInv ==
  ASSUME IpHashAssumption, HashIInv, [HashNext]_hashVars
  PROVE  HashIInv'
<1>0. /\ TokensFit /\ HashTimes /\ HashBalance
      /\ initial_tokens \in Nat /\ timer_period \in Nat \ {0} /\ timer_add \in Nat
  BY DEF HashIInv, IpHashAssumption
<1> USE <1>0
<1>1. CASE HashTick
  BY <1>1 DEF HashTick, HashIInv, TokensFit, HashTimes, HashBalance
<1>2. ASSUME NEW e \in Entry, ip_permitted(e) \/ ip_increment_one(e) PROVE HashIInv'
  <2>1. /\ tokens[e]' \in 0 .. initial_tokens /\ spent[e]' \in Int
        /\ spent[e]' + tokens[e]' = spent[e] + tokens[e]
        /\ \A f \in Entry : f # e => tokens[f]' = tokens[f] /\ spent[f]' = spent[f]
        /\ tokens' = [tokens EXCEPT ![e] = tokens[e]'] /\ spent' = [spent EXCEPT ![e] = spent[e]']
        /\ UNCHANGED <<batch_time64, now, refills>>
    BY <1>2 DEF ip_permitted, ip_increment_one, TokensFit
  <2>2. TokensFit' BY <2>1 DEF TokensFit
  <2>3. HashTimes' BY <2>1 DEF HashTimes
  <2>4. HashBalance' BY <2>1 DEF HashBalance
  <2> QED BY <2>2, <2>3, <2>4 DEF HashIInv
<1>3. ASSUME NEW i \in Batch, batch_timer_fn(i) PROVE HashIInv'
  <2>1. /\ batch_time64[i] <= now /\ \A j \in Batch : batch_time64[i] <= batch_time64[j]
        /\ batch_time64' = [batch_time64 EXCEPT ![i] = @ + timer_period]
        /\ refills' = [refills EXCEPT ![i] = @ + 1]
        /\ tokens' = [e \in Entry |-> IF InBatch(e, i) THEN Refilled(tokens[e]) ELSE tokens[e]]
        /\ UNCHANGED <<now, spent>>
    BY <1>3 DEF batch_timer_fn, Due, Rearmed
  <2>2. \A e \in Entry : /\ Refilled(tokens[e]) \in 0 .. initial_tokens
                         /\ Refilled(tokens[e]) <= tokens[e] + timer_add
    BY RefilledBound DEF TokensFit
  <2>3. TokensFit' BY <2>1, <2>2 DEF TokensFit
  <2>4. HashTimes'
    <3>1. \A j \in Batch : Offset(j) \in Nat BY OffsetRange
    <3>2. timer_period * (refills[i] + 1) = timer_period * refills[i] + timer_period
      BY DEF TokensFit
    <3>3. \A j \in Batch : timer_period * refills[j] \in Int BY DEF TokensFit
    <3>4. \A j \in Batch : batch_time64'[j] = Offset(j) + timer_period * refills'[j]
      BY <2>1, <3>1, <3>2, <3>3 DEF TokensFit, HashTimes
    <3>5. \A j \in Batch : refills'[j] # 0 => batch_time64'[j] <= now' + timer_period
      BY <2>1 DEF TokensFit, HashTimes
    <3>6. \A j, k \in Batch : batch_time64'[j] <= batch_time64'[k] + timer_period
      BY <2>1 DEF TokensFit, HashTimes
    <3> QED BY <3>4, <3>5, <3>6 DEF HashTimes
  <2>5. HashBalance'
    <3> SUFFICES ASSUME NEW e \in Entry
                 PROVE  /\ \A j \in Batch : InBatch(e, j) => spent'[e] + tokens'[e] <= initial_tokens + timer_add * refills'[j]
                        /\ (\A j \in Batch : ~InBatch(e, j)) => spent'[e] + tokens'[e] <= initial_tokens
      BY DEF HashBalance, InBatch
    <3>1. CASE InBatch(e, i)
      <4>1. \A j \in Batch : InBatch(e, j) => j = i BY <3>1, OneBatch
      <4>2. timer_add * (refills[i] + 1) = timer_add * refills[i] + timer_add BY DEF TokensFit
      <4>3. timer_add * refills[i] \in Int BY DEF TokensFit
      <4>4. spent[e] + tokens[e] <= initial_tokens + timer_add * refills[i]
        BY <3>1 DEF HashBalance
      <4>5. spent'[e] = spent[e] /\ tokens'[e] <= tokens[e] + timer_add /\ refills'[i] = refills[i] + 1
        BY <2>1, <2>2, <3>1 DEF TokensFit
      <4>6. spent[e] \in Int /\ tokens[e] \in Int /\ tokens'[e] \in Int BY <2>3 DEF TokensFit
      <4>7. spent'[e] + tokens'[e] <= initial_tokens + timer_add * refills'[i]
        BY <4>2, <4>3, <4>4, <4>5, <4>6
      <4> QED BY <3>1, <4>1, <4>7
    <3>2. CASE ~InBatch(e, i)
      BY <2>1, <3>2 DEF HashBalance, TokensFit
    <3> QED BY <3>1, <3>2
  <2> QED BY <2>3, <2>4, <2>5 DEF HashIInv
<1>4. CASE UNCHANGED hashVars
  BY <1>4 DEF hashVars, HashIInv, TokensFit, HashTimes, HashBalance
<1> QED BY <1>1, <1>2, <1>3, <1>4 DEF HashNext

\* The invariant bounds what an entry has let through: a batch is refilled at
\* most once in each period that has begun.
LEMMA HashInvRate == ASSUME IpHashAssumption, HashIInv PROVE PermittedBound
<1> SUFFICES ASSUME NEW e \in Entry
             PROVE  spent[e] <= initial_tokens + timer_add * (1 + now \div timer_period)
  BY DEF PermittedBound
<1> DEFINE q == now \div timer_period
<1>0. /\ initial_tokens \in Nat /\ timer_period \in Nat \ {0} /\ timer_add \in Nat /\ now \in Nat
      /\ spent[e] \in Int /\ tokens[e] \in Nat
  BY DEF IpHashAssumption, HashIInv, TokensFit
<1>1. q \in Nat BY <1>0, DivRange
<1>2. ASSUME NEW i \in Batch PROVE refills[i] <= 1 + q /\ refills[i] \in Nat
  <2>1. /\ refills[i] \in Nat /\ batch_time64[i] = Offset(i) + timer_period * refills[i]
        /\ refills[i] # 0 => batch_time64[i] <= now + timer_period
    BY DEF HashIInv, TokensFit, HashTimes
  <2>2. Offset(i) \in Nat BY OffsetRange
  <2>3. timer_period * refills[i] = timer_period * (refills[i] - 1) + timer_period BY <1>0, <2>1
  <2>4. timer_period * (refills[i] - 1) \in Int BY <1>0, <2>1
  <2>5. refills[i] # 0 => timer_period * (refills[i] - 1) <= now BY <1>0, <2>1, <2>2, <2>3, <2>4
  <2>6. refills[i] # 0 => refills[i] - 1 <= q BY <1>0, <2>1, <2>5, DivBound
  <2> QED BY <1>1, <2>1, <2>6
<1> HIDE DEF q
<1>3. timer_add * (1 + q) \in Nat BY <1>0, <1>1
<1>4. ASSUME NEW i \in Batch, InBatch(e, i) PROVE spent[e] <= initial_tokens + timer_add * (1 + q)
  <2>1. timer_add * refills[i] <= timer_add * (1 + q) BY <1>0, <1>1, <1>2, MulMonotone
  <2>2. spent[e] + tokens[e] <= initial_tokens + timer_add * refills[i]
    BY <1>4 DEF HashIInv, HashBalance
  <2>3. timer_add * refills[i] \in Int BY <1>0, <1>2
  <2> QED BY <1>0, <1>3, <2>1, <2>2, <2>3
<1>5. CASE \A i \in Batch : ~InBatch(e, i)
  BY <1>0, <1>3, <1>5 DEF HashIInv, HashBalance
<1> QED BY <1>4, <1>5 DEF q

\* The invariant bounds how far the batches' refills are apart.
LEMMA HashInvEven == ASSUME IpHashAssumption, HashIInv PROVE EvenRefills
<1> SUFFICES ASSUME NEW i \in Batch, NEW j \in Batch PROVE refills[i] <= refills[j] + 1
  BY DEF EvenRefills
<1>1. /\ refills[i] \in Nat /\ refills[j] \in Nat /\ timer_period \in Nat \ {0}
      /\ Offset(i) + timer_period * refills[i] <= Offset(j) + timer_period * refills[j] + timer_period
  BY DEF HashIInv, TokensFit, HashTimes, IpHashAssumption
<1>2. Offset(i) \in Nat /\ Offset(j) \in Nat /\ Offset(j) < timer_period BY OffsetRange
<1>3. refills[j] + 2 <= refills[i] => timer_period * (refills[j] + 2) <= timer_period * refills[i]
  BY <1>1, MulMonotone
<1>4. timer_period * (refills[j] + 2) = timer_period * refills[j] + timer_period + timer_period
  BY <1>1
<1>5. timer_period * refills[j] \in Int /\ timer_period * refills[i] \in Int BY <1>1
<1> QED BY <1>1, <1>2, <1>3, <1>4, <1>5

\* The tokens stay in their range and so in the width they are stored in; by
\* any time an entry has let through its initial tokens and timer_add for each
\* period that has begun, at most; and all batches are refilled equally often,
\* give or take one, however late the timers are processed.
THEOREM IpHashLimits ==
  ASSUME IpHashAssumption PROVE HashSpec => []RateLimited
<1>1. ip_hash_init => HashIInv BY HashInitInv
<1>2. HashIInv /\ [HashNext]_hashVars => HashIInv' BY HashNextInv
<1>3. HashIInv => RateLimited BY HashInvRate, HashInvEven DEF HashIInv, RateLimited
<1> QED BY <1>1, <1>2, <1>3, PTL DEF HashSpec

-----------------------------------------------------------------------------
(* The limiter of the log, for any number of levels, increment and maximum.*)

\* The time that n increments take.
Allowance(n) == (Interval + 1) * n

\* How much of the next increment is there: a clock that was set back behind the
\* last one has all of it.
Earned == IF gettime64 < last_time64 THEN Interval + 1 ELSE gettime64 - last_time64

\* The increments that were made, and the one that a call has decided on, have
\* been paid for.
LogPaid ==
  /\ Allowance(increments) + Earned <= real + Allowance(setbacks + 1)
  /\ adding # NoCall => Allowance(increments + 1) <= real + Allowance(setbacks + 1)

\* The inductive invariant.
LogInv == LogTypeOK /\ SevereFirst /\ BurstBounded /\ LogPaid

\* The increment keeps to the range of a burst and keeps the order of two.
LEMMA LogAddOrdered ==
  ASSUME LogLimiterAssumption, NEW a \in 0 .. MaxBurst, NEW b \in 0 .. MaxBurst, a >= b
  PROVE  Add(a) \in 1 .. MaxBurst /\ Add(a) >= Add(b)
BY DEF Add, LogLimiterAssumption

\* The bursts after an event are in range and in the order of the levels, and
\* the level of the event has paid.
LEMMA LogChargedInv ==
  ASSUME LogLimiterAssumption, LogTypeOK, SevereFirst, NEW level \in Level,
         NEW incr \in BOOLEAN, burst[level] > 0 \/ incr
  PROVE  /\ Charged(level, incr) \in [Level -> 0 .. MaxBurst]
         /\ \A l, m \in Level : l < m => Charged(level, incr)[l] >= Charged(level, incr)[m]
         /\ incr => Charged(level, incr)[level] + 1 <= MaxBurst
         /\ ~incr => /\ Charged(level, incr)[level] = burst[level] - 1
                    /\ \A l \in Level : Charged(level, incr)[l] <= burst[l]
<1> DEFINE b(l) == IF incr THEN Add(burst[l]) ELSE burst[l]
           c(l) == IF Takes(level, l) THEN Spend(b(l)) ELSE b(l)
<1>1. \A l \in Level : burst[l] \in 0 .. MaxBurst /\ l \in Int
  BY DEF LogTypeOK, Level, LogLimiterAssumption
<1>2. \A l \in Level : b(l) \in 0 .. MaxBurst /\ (incr => b(l) > 0) /\ (~incr => b(l) = burst[l])
  BY <1>1, LogAddOrdered
<1>3. \A l \in Level : c(l) \in 0 .. MaxBurst /\ c(l) <= b(l)
  <2> SUFFICES ASSUME NEW l \in Level PROVE c(l) \in 0 .. MaxBurst /\ c(l) <= b(l)
    OBVIOUS
  <2>1. b(l) \in 0 .. MaxBurst
    BY <1>2
  <2> HIDE DEF b
  <2> QED BY <2>1 DEF Spend, LogLimiterAssumption
<1>4. \A l, m \in Level : l < m => b(l) >= b(m)
  BY <1>1, LogAddOrdered DEF SevereFirst
<1>5. \A l, m \in Level : l < m => c(l) >= c(m)
  <2> SUFFICES ASSUME NEW l \in Level, NEW m \in Level, l < m PROVE c(l) >= c(m)
    OBVIOUS
  <2>1. b(l) \in 0 .. MaxBurst /\ b(m) \in 0 .. MaxBurst /\ b(l) >= b(m)
    BY <1>2, <1>4
  <2>2. Takes(level, l) => Takes(level, m)
    BY <1>1 DEF Takes
  <2> HIDE DEF b
  <2> QED BY <2>1, <2>2 DEF Spend, LogLimiterAssumption
<1>6. c(level) = b(level) - 1
  <2>1. b(level) \in 0 .. MaxBurst /\ b(level) > 0 /\ Takes(level, level)
    BY <1>1, <1>2 DEF Takes
  <2> HIDE DEF b
  <2> QED BY <2>1 DEF Spend, LogLimiterAssumption
<1>7. \A l \in Level : Charged(level, incr)[l] = c(l)
  BY DEF Charged
<1>8. Charged(level, incr) \in [Level -> 0 .. MaxBurst]
  BY <1>3 DEF Charged
<1> HIDE DEF b, c
<1> QED BY <1>1, <1>2, <1>3, <1>5, <1>6, <1>7, <1>8 DEF LogLimiterAssumption

\* One more increment, and another.
LEMMA AllowanceStep ==
  ASSUME LogLimiterAssumption, NEW n \in Nat
  PROVE  /\ Allowance(n) \in Nat /\ Allowance(n + 1) \in Nat
         /\ Allowance(n + 1) = Allowance(n) + (Interval + 1)
         /\ Allowance(n + 1 + 1) = Allowance(n + 1) + (Interval + 1)
BY DEF Allowance, LogLimiterAssumption

\* A call is decided on an increment exactly if one has been earned.
LEMMA LogEarned ==
  ASSUME LogLimiterAssumption, LogTypeOK
  PROVE  Earned \in Nat /\ (time_condition => Earned >= Interval + 1)
BY DEF LogLimiterAssumption, LogTypeOK, Earned, time_condition

\* log_impl_vlog leaves the payments alone unless it increments.
LEMMA LogPaidKept ==
  ASSUME LogPaid, UNCHANGED <<last_time64, adding, logClock, increments>>
  PROVE  LogPaid'
BY DEF LogPaid, Earned, Allowance, logClock

\* The steps that change the bursts.
LEMMA LogEvents ==
  ASSUME LogLimiterAssumption, LogInv, NEW level \in Level, Log(level)
  PROVE  LogInv'
<1>1. burst' = Charged(level, FALSE) /\ burst[level] > 0 /\ FALSE \in BOOLEAN BY DEF Log
<1>2. burst' \in [Level -> 0 .. MaxBurst] /\ SevereFirst'
  BY <1>1, LogChargedInv DEF SevereFirst, LogInv
<1>3. burst'[level] = burst[level] - 1 /\ \A l \in Level : burst'[l] <= burst[l]
  BY <1>1, LogChargedInv DEF LogInv
<1>4. logged' = [logged EXCEPT ![level] = @ + 1] /\ logged \in [Level -> Nat]
      /\ burst \in [Level -> 0 .. MaxBurst] /\ MaxBurst \in Nat
  BY DEF Log, LogInv, LogTypeOK, LogLimiterAssumption
<1>5. LogTypeOK'
  <2>1. logged' \in [Level -> Nat] BY <1>4
  <2>2. UNCHANGED <<missed_events, last_time64, adding, gettime64, real, setbacks, increments>>
    BY DEF Log, logClock
  <2>3. LogTypeOK BY DEF LogInv
  <2> HIDE DEF Log
  <2> QED BY <1>2, <2>1, <2>2, <2>3 DEF LogTypeOK
<1>6. BurstBounded'
  <2> SUFFICES ASSUME NEW l \in Level PROVE logged'[l] + burst'[l] <= MaxBurst
    BY DEF BurstBounded
  <2>1. logged[l] + burst[l] <= MaxBurst BY DEF LogInv, BurstBounded
  <2>2. logged[l] \in Nat /\ burst[l] \in Nat /\ burst'[l] \in Nat BY <1>2, <1>4
  <2>3. CASE l = level BY <2>1, <2>2, <2>3, <1>3, <1>4
  <2>4. CASE l # level
    <3>1. logged'[l] = logged[l] /\ burst'[l] <= burst[l] BY <2>4, <1>3, <1>4
    <3> QED BY <2>1, <2>2, <3>1, <1>4
  <2> QED BY <2>3, <2>4
<1>7. LogPaid' BY LogPaidKept DEF LogInv, Log
<1> QED BY <1>2, <1>5, <1>6, <1>7 DEF LogInv

\* An increment, with the event that found it due.
LEMMA LogIncrements ==
  ASSUME LogLimiterAssumption, LogInv, LogIncrement
  PROVE  LogInv'
<1>1. adding \in Level /\ burst' = Charged(adding, TRUE) /\ TRUE \in BOOLEAN
  BY DEF LogInv, LogTypeOK, LogIncrement
<1>2. burst' \in [Level -> 0 .. MaxBurst] /\ SevereFirst' /\ burst'[adding] + 1 <= MaxBurst
  BY <1>1, LogChargedInv DEF SevereFirst, LogInv
<1>3. /\ logged' = [l \in Level |-> IF l = adding THEN 1 ELSE 0]
      /\ last_time64' = gettime64 /\ missed_events' = [l \in Level |-> 0]
      /\ increments' = increments + 1 /\ adding' = NoCall
      /\ gettime64' = gettime64 /\ real' = real /\ setbacks' = setbacks
  BY DEF LogIncrement, Stamp, logClock
<1>4. LogTypeOK' BY <1>2, <1>3 DEF LogInv, LogTypeOK, LogLimiterAssumption
<1>5. BurstBounded'
  <2> SUFFICES ASSUME NEW l \in Level PROVE logged'[l] + burst'[l] <= MaxBurst
    BY DEF BurstBounded
  <2>1. burst'[l] \in 0 .. MaxBurst /\ MaxBurst \in Nat BY <1>2 DEF LogLimiterAssumption
  <2> QED BY <1>2, <1>3, <2>1
<1>6. LogPaid'
  <2>1. Earned' = 0 BY <1>3 DEF Earned, LogInv, LogTypeOK
  <2>2. Allowance(increments + 1) <= real + Allowance(setbacks + 1)
    BY <1>1 DEF LogInv, LogPaid, NoCall, Level, LogIncrement
  <2>3. Allowance(increments + 1) \in Nat BY AllowanceStep DEF LogInv, LogTypeOK
  <2>4. Allowance(increments)' = Allowance(increments + 1) /\ Allowance(setbacks + 1)' = Allowance(setbacks + 1)
    BY <1>3 DEF Allowance
  <2> QED BY <1>3, <2>1, <2>2, <2>3, <2>4 DEF LogPaid
<1> QED BY <1>2, <1>4, <1>5, <1>6 DEF LogInv

\* What is earned by a clock and a time of the last increment.
LEMMA EarnedOf ==
  ASSUME NEW i \in Nat, NEW t \in Nat, NEW last \in Nat
  PROVE  (IF t < last THEN i + 1 ELSE t - last) \in Nat
OBVIOUS

\* The clock runs or is set back, also in the middle of a call.
LEMMA LogClockMoves ==
  ASSUME LogLimiterAssumption, LogInv,
         ClockRuns \/ \E t \in 0 .. Interval + MaxReal : ClockSetBack(t)
  PROVE  LogInv'
<1>1. LogTypeOK BY DEF LogInv
<1>2. /\ Allowance(increments) \in Nat /\ Allowance(increments + 1) \in Nat
      /\ Allowance(setbacks + 1) \in Nat /\ Allowance(setbacks + 1 + 1) = Allowance(setbacks + 1) + (Interval + 1)
  BY <1>1, AllowanceStep DEF LogTypeOK
<1>3. /\ Interval \in Nat /\ real \in Nat /\ gettime64 \in Nat /\ last_time64 \in Nat
  BY <1>1 DEF LogTypeOK, LogLimiterAssumption
<1>4. UNCHANGED <<burst, missed_events, last_time64, adding, increments, logged>>
  BY DEF ClockRuns, ClockSetBack
<1>5. Allowance(increments)' = Allowance(increments) /\ Allowance(increments + 1)' = Allowance(increments + 1)
  BY <1>4 DEF Allowance
<1>6. LogTypeOK' BY <1>1, <1>4 DEF LogTypeOK, ClockRuns, ClockSetBack
<1>7. SevereFirst' /\ BurstBounded' BY <1>4 DEF LogInv, SevereFirst, BurstBounded
<1>8. Earned \in Nat /\ Earned' \in Nat
  <2>1. gettime64' \in Nat /\ last_time64' \in Nat BY <1>6 DEF LogTypeOK
  <2>2. Earned \in Nat BY <1>1, LogEarned
  <2>3. Earned' \in Nat BY <1>3, <2>1, EarnedOf, Zenon DEF Earned
  <2> QED BY <2>2, <2>3
<1>9. CASE ClockRuns
  <2>1. real' = real + 1 /\ Earned' <= Earned + 1 BY <1>3, <1>9 DEF ClockRuns, Earned
  <2>2. Allowance(setbacks + 1)' = Allowance(setbacks + 1) BY <1>9 DEF ClockRuns, Allowance
  <2>3. LogPaid' BY <1>2, <1>3, <1>4, <1>5, <1>8, <2>1, <2>2 DEF LogInv, LogPaid
  <2> QED BY <1>6, <1>7, <2>3 DEF LogInv
<1>10. CASE \E t \in 0 .. Interval + MaxReal : ClockSetBack(t)
  <2>1. real' = real /\ Earned' <= Earned + (Interval + 1)
    BY <1>3, <1>10 DEF ClockSetBack, Earned, LogLimiterAssumption
  <2>2. Allowance(setbacks + 1)' = Allowance(setbacks + 1 + 1) BY <1>10 DEF ClockSetBack, Allowance
  <2>3. LogPaid' BY <1>2, <1>3, <1>4, <1>5, <1>8, <2>1, <2>2 DEF LogInv, LogPaid
  <2> QED BY <1>6, <1>7, <2>3 DEF LogInv
<1> QED BY <1>9, <1>10

\* The limiter of the log: bursts are in range and ordered by severity, a level
\* logs MaxBurst events at most between two increments, and after the first there
\* is no increment but for an interval that has really passed or a clock that was
\* set back, for any number of levels and whenever the clock is set back.
THEOREM LimiterCorrect ==
  ASSUME LogLimiterAssumption
  PROVE  LogSpec => [](LogTypeOK /\ RateBounded)
<1>1. LogInit => LogInv
  <2> SUFFICES ASSUME LogInit PROVE LogInv OBVIOUS
  <2>1. LogTypeOK /\ SevereFirst /\ BurstBounded
    BY DEF LogLimiterAssumption, LogInit, LogTypeOK, SevereFirst, BurstBounded
  <2>2. LogPaid BY DEF LogInit, LogPaid, Earned, Allowance, LogLimiterAssumption
  <2> QED BY <2>1, <2>2 DEF LogInv
<1>2. LogInv /\ [LogNext]_logVars => LogInv'
  <2> SUFFICES ASSUME LogInv, [LogNext]_logVars PROVE LogInv'
    OBVIOUS
  <2>1. CASE UNCHANGED logVars
    <3>1. LogPaid' BY <2>1, LogPaidKept DEF logVars, LogInv
    <3> QED BY <2>1, <3>1 DEF logVars, logClock, LogInv, LogTypeOK, SevereFirst, BurstBounded
  <2>2. ASSUME NEW level \in Level, Miss(level) PROVE LogInv'
    <3>1. LogPaid' BY <2>2, LogPaidKept DEF Miss, LogInv
    <3>2. LogTypeOK'
      BY <2>2 DEF Miss, logClock, LogInv, LogTypeOK, LogLimiterAssumption
    <3> QED BY <2>2, <3>1, <3>2 DEF Miss, LogInv, SevereFirst, BurstBounded
  <2>3. ASSUME NEW level \in Level, BeginIncrement(level) PROVE LogInv'
    <3>1. LogTypeOK' /\ SevereFirst' /\ BurstBounded'
      BY <2>3 DEF BeginIncrement, logClock, LogInv, LogTypeOK, SevereFirst, BurstBounded
    <3>2. /\ Earned' = Earned /\ Allowance(increments)' = Allowance(increments)
          /\ Allowance(increments + 1)' = Allowance(increments + 1)
          /\ Allowance(setbacks + 1)' = Allowance(setbacks + 1) /\ real' = real
      BY <2>3 DEF BeginIncrement, logClock, Earned, Allowance
    <3>3. Earned \in Nat /\ Earned >= Interval + 1
      BY <2>3, LogEarned DEF BeginIncrement, LogInv
    <3>4. /\ Allowance(increments) \in Nat /\ Allowance(increments + 1) = Allowance(increments) + (Interval + 1)
          /\ Allowance(setbacks + 1) \in Nat /\ real \in Nat /\ Interval \in Nat
      BY AllowanceStep DEF LogInv, LogTypeOK, LogLimiterAssumption
    <3>5. Allowance(increments) + Earned <= real + Allowance(setbacks + 1) BY DEF LogInv, LogPaid
    <3>6. Allowance(increments + 1) <= real + Allowance(setbacks + 1) BY <3>3, <3>4, <3>5
    <3>7. LogPaid' BY <3>2, <3>5, <3>6 DEF LogPaid
    <3> QED BY <3>1, <3>7 DEF LogInv
  <2> QED BY <2>1, <2>2, <2>3, LogEvents, LogIncrements, LogClockMoves DEF LogNext, log_impl_vlog
<1>3. LogInv => LogTypeOK /\ RateBounded
  <2> SUFFICES ASSUME LogInv PROVE LogTypeOK /\ RateBounded OBVIOUS
  <2>1. Earned \in Nat BY LogEarned DEF LogInv
  <2>2. Allowance(increments) \in Nat /\ Allowance(setbacks + 1) \in Nat /\ real \in Nat
    BY AllowanceStep DEF LogInv, LogTypeOK
  <2>3. Allowance(increments) <= real + Allowance(setbacks + 1) BY <2>1, <2>2 DEF LogInv, LogPaid
  <2> QED BY <2>3 DEF LogInv, RateBounded, IncrementsBounded, Allowance
<1> QED BY <1>1, <1>2, <1>3, PTL DEF LogSpec
=============================================================================
