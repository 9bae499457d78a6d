------------------------------ MODULE HashTable ------------------------------
(***************************************************************************)
(* hashtable with locks: each mutex guards 2^mutex_shift buckets, and a    *)
(* global mutex guards the count of items.  The threads add and delete     *)
(* items, look an item up and take it out, and walk over all buckets,      *)
(* taking items out, with hash_table_lock_next_bucket between two.         *)
(*                                                                         *)
(* A step is what happens between two operations on mutexes; the count is  *)
(* read and written in two steps.  A bucket is a set of items.             *)
(***************************************************************************)
EXTENDS Integers, FiniteSets

CONSTANTS Thread, Node, NONE,
          hash,            \* hash[x]: the hash value of an item
          bucketcnt, mutex_shift

Bucket == 0 .. bucketcnt - 1
MutexOf(b) == b \div 2 ^ mutex_shift
Mutex == {MutexOf(b) : b \in Bucket}
BucketOf(x) == hash[x] % bucketcnt

HashTableAssumption ==
  /\ bucketcnt \in Nat \ {0} /\ mutex_shift \in Nat /\ hash \in [Node -> Nat]
  /\ NONE \notin Thread /\ NONE \notin Node

VARIABLES buckets, itemcnt,
          bucket_mutexes, global_mutex,   \* the thread that holds each, or NONE
          at, op,                         \* of each thread: its place and the operation
          item,                           \* of each thread: the item that is added or deleted
          bucket,                         \* of each thread: the bucket it is in
          count                           \* of each thread: the itemcnt that it has read

table == <<buckets, itemcnt>>
tableVars == <<table, bucket_mutexes, global_mutex, at, op, item, bucket, count>>

hash_table_init_impl ==
  /\ buckets = [b \in Bucket |-> {}] /\ itemcnt = 0
  /\ bucket_mutexes = [m \in Mutex |-> NONE] /\ global_mutex = NONE
  /\ at = [t \in Thread |-> "idle"] /\ op = [t \in Thread |-> "none"]
  /\ item = [t \in Thread |-> NONE] /\ bucket = [t \in Thread |-> 0]
  /\ count = [t \in Thread |-> 0]

GoTo(t, place) == at' = [at EXCEPT ![t] = place]

-----------------------------------------------------------------------------
(* What the threads do.                                                    *)

Begin(t, o, x, b) ==
  /\ at[t] = "idle"
  /\ GoTo(t, "lock") /\ op' = [op EXCEPT ![t] = o]
  /\ item' = [item EXCEPT ![t] = x] /\ bucket' = [bucket EXCEPT ![t] = b]
  /\ UNCHANGED <<table, bucket_mutexes, global_mutex, count>>

\* An item is added by one thread, which has it to itself until then.
Claimed(x) == \E t \in Thread : item[t] = x

BeginAdd(t, x) ==
  /\ \A b \in Bucket : x \notin buckets[b]
  /\ ~Claimed(x)
  /\ Begin(t, "add", x, BucketOf(x))

\* With hash_table_delete a thread takes out an item that no other will.
BeginDelete(t, x) ==
  /\ x \in buckets[BucketOf(x)] /\ ~Claimed(x)
  /\ Begin(t, "delete", x, BucketOf(x))

BeginFind(t, x) == Begin(t, "find", NONE, BucketOf(x))
BeginWalk(t) == Begin(t, "walk", NONE, 0)

-----------------------------------------------------------------------------
(* The bucket's mutex: hash_table_lock_bucket, and the first lock of       *)
(* hash_table_add_nogrow and hash_table_delete.                            *)

HeldMutex(t) == MutexOf(bucket[t])

hash_table_lock_bucket(t) ==
  /\ at[t] = "lock" /\ bucket_mutexes[HeldMutex(t)] = NONE
  /\ bucket_mutexes' = [bucket_mutexes EXCEPT ![HeldMutex(t)] = t]
  /\ GoTo(t, IF op[t] \in {"add", "delete"} THEN "global" ELSE "look")
  /\ UNCHANGED <<table, global_mutex, op, item, bucket, count>>

\* The thread looks through its bucket and takes an item out, or none.
Look(t) ==
  /\ at[t] = "look"
  /\ \/ /\ \E x \in buckets[bucket[t]] : ~Claimed(x) /\ item' = [item EXCEPT ![t] = x]
        /\ GoTo(t, "global")
     \/ GoTo(t, IF op[t] = "walk" THEN "next" ELSE "unlock") /\ UNCHANGED item
  /\ UNCHANGED <<table, bucket_mutexes, global_mutex, op, bucket, count>>

-----------------------------------------------------------------------------
(* hash_table_add_nogrow and hash_table_delete_already_bucket_locked.      *)

\* Mutant: the global mutex is not waited for.
LockGlobal_not(t) ==
  /\ at[t] = "global"
  /\ global_mutex' = t
  /\ GoTo(t, "change")
  /\ UNCHANGED <<table, bucket_mutexes, op, item, bucket, count>>
LockGlobal(t) ==
  /\ at[t] = "global" /\ global_mutex = NONE
  /\ global_mutex' = t
  /\ GoTo(t, "change")
  /\ UNCHANGED <<table, bucket_mutexes, op, item, bucket, count>>

\* hash_list_add_head or hash_list_delete, and the read of itemcnt.
Change(t) ==
  /\ at[t] = "change"
  /\ buckets' = [buckets EXCEPT ![bucket[t]] = IF op[t] = "add" THEN @ \cup {item[t]} ELSE @ \ {item[t]}]
  /\ count' = [count EXCEPT ![t] = itemcnt]
  /\ GoTo(t, "count")
  /\ UNCHANGED <<itemcnt, bucket_mutexes, global_mutex, op, item, bucket>>

\* A deletion aborts at a count of zero.
AddCount(t) ==
  /\ at[t] = "count"
  /\ IF op[t] # "add" /\ count[t] = 0
     THEN GoTo(t, "abort") /\ UNCHANGED itemcnt
     ELSE GoTo(t, "unglobal") /\ itemcnt' = IF op[t] = "add" THEN count[t] + 1 ELSE count[t] - 1
  /\ UNCHANGED <<buckets, bucket_mutexes, global_mutex, op, item, bucket, count>>

UnlockGlobal(t) ==
  /\ at[t] = "unglobal"
  /\ global_mutex' = NONE
  /\ item' = [item EXCEPT ![t] = NONE]
  /\ count' = [count EXCEPT ![t] = 0]
  /\ GoTo(t, IF op[t] \in {"add", "delete"} THEN "unlock" ELSE "look")
  /\ UNCHANGED <<table, bucket_mutexes, op, bucket>>

hash_table_unlock_bucket(t) ==
  /\ at[t] = "unlock"
  /\ bucket_mutexes' = [bucket_mutexes EXCEPT ![HeldMutex(t)] = NONE]
  /\ GoTo(t, "idle")
  /\ UNCHANGED <<table, global_mutex, op, item, bucket, count>>

-----------------------------------------------------------------------------
(* The walk: after the last bucket its mutex is given up.                  *)

hash_table_lock_next_bucket(t) ==
  LET next == (bucket[t] + 1) % bucketcnt IN
  /\ at[t] = "next" /\ next # 0
  /\ bucket' = [bucket EXCEPT ![t] = next]
  /\ IF MutexOf(next) = HeldMutex(t)
     THEN GoTo(t, "look") /\ UNCHANGED bucket_mutexes
     ELSE GoTo(t, "lock") /\ bucket_mutexes' = [bucket_mutexes EXCEPT ![HeldMutex(t)] = NONE]
  /\ UNCHANGED <<table, global_mutex, op, item, count>>

EndWalk(t) ==
  /\ at[t] = "next" /\ bucket[t] = bucketcnt - 1
  /\ GoTo(t, "unlock")
  /\ UNCHANGED <<table, bucket_mutexes, global_mutex, op, item, bucket, count>>

TableNext == \E t \in Thread :
  \/ BeginWalk(t)
  \/ \E x \in Node : BeginAdd(t, x) \/ BeginDelete(t, x) \/ BeginFind(t, x)
  \/ hash_table_lock_bucket(t) \/ Look(t) \/ LockGlobal(t) \/ Change(t) \/ AddCount(t)
  \/ UnlockGlobal(t) \/ hash_table_unlock_bucket(t)
  \/ hash_table_lock_next_bucket(t) \/ EndWalk(t)

TableSpec == hash_table_init_impl /\ [][TableNext]_tableVars

-----------------------------------------------------------------------------
(* Properties.                                                             *)

\* Nobody changes a bucket while another thread looks through it or changes it.
InBucket(t) == at[t] \in {"look", "global", "change", "count", "unglobal"}
BucketExclusive == \A t, u \in Thread :
  t # u /\ InBucket(t) /\ InBucket(u) => bucket[t] # bucket[u]

\* The count is the number of items whenever no one holds the global mutex;
\* no deletion finds it zero.
Items == UNION {buckets[b] : b \in Bucket}
CountExact ==
  /\ global_mutex = NONE => itemcnt = Cardinality(Items)
  /\ \A t \in Thread : at[t] # "abort"

\* With as many threads as there are, each bucket has one user and the count is
\* right.
TableSound == BucketExclusive /\ CountExact
=============================================================================
