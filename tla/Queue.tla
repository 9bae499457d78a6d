------------------------------- MODULE Queue --------------------------------
(***************************************************************************)
(* The thread-safe bounded queue of queue/queue.c and queue/queue.h: a     *)
(* ring of pointers guarded by one mutex and two condition variables, and  *)
(* the per-producer cache that enqueues in batches.                        *)
(*                                                                         *)
(* Everything between two releases of the mutex that touches the ring is   *)
(* broken into one step per loop iteration of the code; pthread_cond_wait  *)
(* releases the mutex and enters the wait set in one step, and a thread    *)
(* that has left the wait set must take the mutex again before it re-tests *)
(* its condition.                                                          *)
(***************************************************************************)
EXTENDS Integers, Sequences, FiniteSets

CONSTANTS Producers, Consumers,
          CachedProducers, \* the producers that enqueue through a queue_cache
          BufSiz,          \* queue->bufsiz: slots of the ring, one stays free
          CacheCapacity,   \* queue_cache->capacity
          DeqSizes,        \* the sz arguments consumers pass
          MaxItems,        \* bound: items each producer submits
          NOBODY, NULL

Callers == Producers \cup Consumers
Item == Producers \X (1 .. MaxItems)

\* A ring of one slot is full and empty at once and blocks both sides for
\* ever, so bufsiz is at least 2.
ASSUME QueueAssumption ==
  /\ BufSiz \in Nat /\ BufSiz >= 2
  /\ CacheCapacity \in Nat /\ CacheCapacity >= 1
  /\ DeqSizes \subseteq Nat \ {0}
  /\ MaxItems \in Nat
  /\ Producers \cap Consumers = {}
  /\ CachedProducers \subseteq Producers
  /\ NOBODY \notin Callers
  /\ NULL \notin Item

VARIABLES
  buf, start, end,  \* the ring
  qMtx,             \* the holder of queue->mtx, or NOBODY
  full, empty,      \* the wait sets of the condition variables
  qPc,              \* where each thread is
  in,               \* producer: what is left of its batch, in[i..sz-1]
  cache,            \* producer: its queue_cache
  made,             \* producer: how many items it has submitted
  room,             \* consumer: sz - i, how many items it may still take
  timed,            \* consumer: whether the call is queue_timeddeq_many
  wasFull,          \* consumer: was_full
  taken             \* history: the items handed to consumers, in order

ring == <<buf, start, end>>
queueVars == <<buf, start, end, qMtx, full, empty, qPc, in, cache, made, room,
               timed, wasFull, taken>>

-----------------------------------------------------------------------------
(* Ring arithmetic.                                                        *)

Inc_nowrap(k) == IF k + 1 > BufSiz THEN 0 ELSE k + 1   \* mutant
Inc(k) == IF k + 1 >= BufSiz THEN 0 ELSE k + 1

queue_is_empty == start = end
queue_is_full_nowrap == start = end + 1   \* mutant
queue_is_full == start = Inc(end)

Count == IF end >= start THEN end - start ELSE BufSiz + end - start
Slot(k) == IF start + k - 1 >= BufSiz THEN start + k - 1 - BufSiz
                                      ELSE start + k - 1
\* What the ring holds, oldest first.
Content == [k \in 1 .. Count |-> buf[Slot(k)]]

-----------------------------------------------------------------------------
queue_init ==
  /\ buf \in [0 .. BufSiz - 1 -> {NULL}]
  /\ start = 0 /\ end = 0
  /\ qMtx = NOBODY /\ full = {} /\ empty = {}

QueueInit ==
  /\ queue_init
  /\ qPc = [t \in Callers |-> "idle"]
  /\ in = [p \in Producers |-> << >>]
  /\ cache = [p \in Producers |-> << >>]
  /\ made = [p \in Producers |-> 0]
  /\ room = [c \in Consumers |-> 0]
  /\ timed = [c \in Consumers |-> FALSE]
  /\ wasFull = [c \in Consumers |-> FALSE]
  /\ taken = << >>

-----------------------------------------------------------------------------
(* Producers.                                                              *)

NextItem(p) == <<p, made[p] + 1>>

\* The call of an enqueue function: the thread goes for the mutex.
Submit(p, batch, cached, n) ==
  /\ qPc[p] = "idle"
  /\ made[p] + n <= MaxItems
  /\ qPc' = [qPc EXCEPT ![p] = "lock"]
  /\ in' = [in EXCEPT ![p] = batch]
  /\ cache' = [cache EXCEPT ![p] = cached]
  /\ made' = [made EXCEPT ![p] = @ + n]
  /\ UNCHANGED <<ring, qMtx, full, empty, room, timed, wasFull, taken>>

queue_enq_one(p) ==
  /\ p \notin CachedProducers
  /\ Submit(p, <<NextItem(p)>>, << >>, 1)

queue_enq_many(p, n) ==
  /\ p \notin CachedProducers
  /\ Submit(p, [i \in 1 .. n |-> <<p, made[p] + i>>], << >>, n)

\* The cache belongs to its thread, so emptying it can be shown together with
\* handing its contents to queue_enq_many.
queue_cache_flush(p) ==
  /\ p \in CachedProducers
  /\ Submit(p, cache[p], << >>, 0)

CacheFull(p) == Len(cache[p]) >= CacheCapacity

queue_cache_enq_one(p) ==
  /\ p \in CachedProducers
  /\ \/ /\ CacheFull(p)
        /\ Submit(p, cache[p], <<NextItem(p)>>, 1)
     \/ /\ ~CacheFull(p)
        /\ qPc[p] = "idle"
        /\ made[p] < MaxItems
        /\ cache' = [cache EXCEPT ![p] = Append(@, NextItem(p))]
        /\ made' = [made EXCEPT ![p] = @ + 1]
        /\ UNCHANGED <<ring, qMtx, full, empty, qPc, in, room, timed, wasFull,
                       taken>>

\* pthread_mutex_lock, and the return of pthread_cond_wait with the mutex.
Acquire(t) ==
  /\ qPc[t] = "lock"
  /\ t \notin full \cup empty
  /\ qMtx = NOBODY
  /\ qMtx' = t
  /\ qPc' = [qPc EXCEPT ![t] = IF t \in Producers THEN "put" ELSE "check"]
  /\ UNCHANGED <<ring, full, empty, in, cache, made, room, timed, wasFull,
                 taken>>

EnqWait(p) ==
  /\ qPc[p] = "put" /\ in[p] # << >>
  /\ queue_is_full
  /\ full' = full \cup {p}
  /\ qMtx' = NOBODY
  /\ qPc' = [qPc EXCEPT ![p] = "lock"]
  /\ UNCHANGED <<ring, empty, in, cache, made, room, timed, wasFull, taken>>

EnqPut_waking(p, sleepers) ==
  /\ qPc[p] = "put" /\ in[p] # << >>
  /\ ~queue_is_full
  /\ buf' = [buf EXCEPT ![end] = Head(in[p])]
  /\ end' = Inc(end)
  /\ empty' = IF queue_is_empty THEN sleepers ELSE empty
  /\ in' = [in EXCEPT ![p] = Tail(@)]
  /\ UNCHANGED <<start, qMtx, full, qPc, cache, made, room, timed, wasFull,
                 taken>>

\* Mutants: pthread_cond_signal in place of the broadcast, and neither.
EnqPut_signal(p) ==
  EnqPut_waking(p, IF empty = {} THEN {} ELSE empty \ {CHOOSE c \in empty : TRUE})
EnqPut_silent(p) == EnqPut_waking(p, empty)

EnqPut(p) == EnqPut_waking(p, {})   \* pthread_cond_broadcast

EnqReturn(p) ==
  /\ qPc[p] = "put" /\ in[p] = << >>
  /\ qMtx' = NOBODY
  /\ qPc' = [qPc EXCEPT ![p] = "idle"]
  /\ UNCHANGED <<ring, full, empty, in, cache, made, room, timed, wasFull,
                 taken>>

-----------------------------------------------------------------------------
(* Consumers.                                                              *)

Request(c, n, limited) ==
  /\ qPc[c] = "idle"
  /\ qPc' = [qPc EXCEPT ![c] = "lock"]
  /\ room' = [room EXCEPT ![c] = n]
  /\ timed' = [timed EXCEPT ![c] = limited]
  /\ UNCHANGED <<ring, qMtx, full, empty, in, cache, made, wasFull, taken>>

queue_deq_one(c) == Request(c, 1, FALSE)
queue_deq_many(c, n) == Request(c, n, FALSE)
queue_timeddeq_many(c, n) == Request(c, n, TRUE)

DeqWait(c) ==
  /\ qPc[c] = "check"
  /\ queue_is_empty
  /\ empty' = empty \cup {c}
  /\ qMtx' = NOBODY
  /\ qPc' = [qPc EXCEPT ![c] = "lock"]
  /\ UNCHANGED <<ring, full, in, cache, made, room, timed, wasFull, taken>>

DeqStart(c) ==
  /\ qPc[c] = "check"
  /\ ~queue_is_empty
  /\ wasFull' = [wasFull EXCEPT ![c] = queue_is_full]
  /\ qPc' = [qPc EXCEPT ![c] = "drain"]
  /\ UNCHANGED <<ring, qMtx, full, empty, in, cache, made, room, timed, taken>>

DeqTake_early(c) ==   \* mutant: start moves before the slot is read
  /\ qPc[c] = "drain"
  /\ ~queue_is_empty /\ room[c] > 0
  /\ start' = Inc(start)
  /\ taken' = Append(taken, buf[start'])
  /\ buf' = [buf EXCEPT ![start'] = NULL]
  /\ room' = [room EXCEPT ![c] = @ - 1]
  /\ UNCHANGED <<end, qMtx, full, empty, qPc, in, cache, made, timed, wasFull>>

DeqTake(c) ==
  /\ qPc[c] = "drain"
  /\ ~queue_is_empty /\ room[c] > 0
  /\ taken' = Append(taken, buf[start])
  /\ buf' = [buf EXCEPT ![start] = NULL]
  /\ start' = Inc(start)
  /\ room' = [room EXCEPT ![c] = @ - 1]
  /\ UNCHANGED <<end, qMtx, full, empty, qPc, in, cache, made, timed, wasFull>>

DeqReturn_waking(c, sleepers) ==
  /\ qPc[c] = "drain"
  /\ queue_is_empty \/ room[c] = 0
  /\ full' = IF wasFull[c] THEN sleepers ELSE full
  /\ qMtx' = NOBODY
  /\ qPc' = [qPc EXCEPT ![c] = "idle"]
  /\ UNCHANGED <<ring, empty, in, cache, made, room, timed, wasFull, taken>>

DeqReturn_silent(c) == DeqReturn_waking(c, full)   \* mutant
DeqReturn(c) == DeqReturn_waking(c, {})   \* pthread_cond_broadcast

-----------------------------------------------------------------------------
(* What the condition variables may do on their own.                       *)

\* A return from pthread_cond_wait that nobody asked for.
SpuriousWakeup(t) ==
  /\ t \in full \cup empty
  /\ full' = full \ {t}
  /\ empty' = empty \ {t}
  /\ UNCHANGED <<ring, qMtx, qPc, in, cache, made, room, timed, wasFull, taken>>

\* pthread_cond_timedwait gives up: the thread still has to get the mutex.
TimeOut(c) ==
  /\ c \in empty /\ timed[c]
  /\ empty' = empty \ {c}
  /\ qPc' = [qPc EXCEPT ![c] = "timedout"]
  /\ UNCHANGED <<ring, qMtx, full, in, cache, made, room, timed, wasFull, taken>>


\* ETIMEDOUT returns 0 without looking at the ring again.
TimedOutReturn(c) ==
  /\ qPc[c] = "timedout"
  /\ qMtx = NOBODY
  /\ qPc' = [qPc EXCEPT ![c] = "idle"]
  /\ UNCHANGED <<ring, qMtx, full, empty, in, cache, made, room, timed, wasFull,
                 taken>>

-----------------------------------------------------------------------------
ProducerStep(p) == EnqWait(p) \/ EnqPut(p) \/ EnqReturn(p)
ConsumerStep(c) == DeqWait(c) \/ DeqStart(c) \/ DeqTake(c) \/ DeqReturn(c)

ProducerCall(p) ==
  \/ queue_enq_one(p)
  \/ \E n \in 1 .. MaxItems : queue_enq_many(p, n)
  \/ queue_cache_flush(p)
  \/ queue_cache_enq_one(p)

ConsumerCall(c) ==
  \/ queue_deq_one(c)
  \/ \E n \in DeqSizes : queue_deq_many(c, n) \/ queue_timeddeq_many(c, n)

QueueNext ==
  \/ \E p \in Producers : ProducerCall(p) \/ ProducerStep(p)
  \/ \E c \in Consumers : \/ ConsumerCall(c) \/ ConsumerStep(c)
                          \/ TimeOut(c) \/ TimedOutReturn(c)
  \/ \E t \in Callers : Acquire(t) \/ SpuriousWakeup(t)

QueueSpec == QueueInit /\ [][QueueNext]_queueVars
\* A thread inside the queue code keeps running; pthread mutexes are assumed
\* not to starve a thread for ever; consumers loop on dequeue calls as those
\* of queueperf.c do, and an absolute deadline passes.
Fairness ==
  /\ \A p \in Producers : WF_queueVars(ProducerStep(p))
  /\ \A c \in Consumers : /\ WF_queueVars(ConsumerStep(c) \/ ConsumerCall(c))
                          /\ SF_queueVars(TimeOut(c))
                          /\ SF_queueVars(TimedOutReturn(c))
  /\ \A t \in Callers : SF_queueVars(Acquire(t))

FairQueueSpec == QueueSpec /\ Fairness

-----------------------------------------------------------------------------
(* Properties.                                                             *)

QueuePlaces == {"idle", "lock", "put", "check", "drain", "timedout"}

\* Every variable keeps its type; a slot outside the ring contents is NULL or
\* unwritten and never an item.
QueueTypeOK ==
  /\ buf \in [0 .. BufSiz - 1 -> Item \cup {NULL}]
  /\ start \in 0 .. BufSiz - 1 /\ end \in 0 .. BufSiz - 1
  /\ qMtx \in Callers \cup {NOBODY}
  /\ full \subseteq Producers /\ empty \subseteq Consumers
  /\ qPc \in [Callers -> QueuePlaces]
  /\ in \in [Producers -> Seq(Item)]
  /\ cache \in [Producers -> Seq(Item)]
  /\ made \in [Producers -> 0 .. MaxItems]
  /\ room \in [Consumers -> Nat]
  /\ timed \in [Consumers -> BOOLEAN]
  /\ wasFull \in [Consumers -> BOOLEAN]
  /\ taken \in Seq(Item)

\* queue.c takes queue->mtx before it touches the ring and gives it up only
\* on return or in pthread_cond_wait: whoever is between the two is the holder.
MutexDiscipline ==
  \A t \in Callers : qPc[t] \in {"put", "check", "drain"} <=> qMtx = t

\* queue.c broadcasts only when the ring stops being full or empty.  That is
\* enough: a thread still asleep on a condition variable is right to be so, or
\* the consumer that will wake it is about to (queue.c:79-85, 190-196).
NoLostWakeup ==
  /\ empty # {} => queue_is_empty
  /\ full # {} => \/ queue_is_full
                  \/ \E c \in Consumers : qPc[c] = "drain" /\ wasFull[c]

\* The items of p in s are the first e items that it submitted, in that order.
InOrder(s, p, e) ==
  /\ \A i, j \in 1 .. Len(s), m, n \in 1 .. MaxItems :
       i < j /\ s[i] = <<p, m>> /\ s[j] = <<p, n>> => m < n
  /\ \A n \in 1 .. MaxItems : n <= e <=> \E i \in 1 .. Len(s) : s[i] = <<p, n>>

\* Of the m items that p has submitted the first are in s, the next are in its
\* batch and the last in its cache.
Accounted(s, p, batch, cached, m) ==
  LET e == m - Len(batch) - Len(cached)
  IN  /\ e >= 0 /\ InOrder(s, p, e)
      /\ \A n \in 1 .. Len(batch) : batch[n] = <<p, e + n>>
      /\ \A n \in 1 .. Len(cached) : cached[n] = <<p, e + Len(batch) + n>>

\* Whatever the interleaving of single, batched and cached calls, the items of
\* one producer reach the consumers in the order of its calls, none lost and
\* none twice: handed out, in the ring, in the batch being enqueued, in the
\* cache.
ProducerOrder ==
  \A p \in Producers : Accounted(taken \o Content, p, in[p], cache[p], made[p])

\* No wakeup is lost, and the items of a producer, through its cache or not,
\* come out in its order.
QueueSafe == NoLostWakeup /\ ProducerOrder

\* The queue implements the bounded first-in first-out channel of Fifo.
Channel == INSTANCE Fifo WITH Capacity <- BufSiz - 1, held <- Content,
                              out <- taken

\* Every step of the queue is a put, a get or no step of that channel.
ImplementsFifo == Channel!FifoSpec

\* While consumers keep dequeuing, no enqueue call blocks for ever.
EnqueueReturns ==
  \A p \in Producers : qPc[p] # "idle" ~> qPc[p] = "idle"

\* An item in the ring is eventually handed to a consumer.
ItemsDelivered ==
  \A x \in Item :
    (\E k \in 1 .. Count : Content[k] = x)
      ~> (\E k \in 1 .. Len(taken) : taken[k] = x)

\* queue_timeddeq_many returns, items or not.
TimedDequeueReturns ==
  \A c \in Consumers : (timed[c] /\ qPc[c] # "idle") ~> qPc[c] = "idle"
=============================================================================
