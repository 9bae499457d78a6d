------------------------------- MODULE Switch -------------------------------
(***************************************************************************)
(* ldpswitch.c: a learning switch.  The hash table of learned addresses    *)
(* has a mutex for every 2^mutex_shift buckets, the list from the oldest   *)
(* to the newest entry has gbl_mtx; with one thread there are no locks.    *)
(* The first thread also times entries out.  A step is what a thread does  *)
(* between two operations on these mutexes; the global mutex of the table  *)
(* is only held for the bookkeeping inside such a step.                    *)
(***************************************************************************)
EXTENDS Integers, Sequences, FiniteSets, SequencesExt

CONSTANTS Worker, Worker0,         \* the threads, and the one with id 0
          NOWHERE,                 \* no port, address or entry; the holder of a free mutex
          Mac, Port, mac_hash,
          mac_bucketcnt, mac_mutex_shift,
          TIMEOUT, MaxTime         \* MaxTime bounds the clock

Entry == [port : Port, time : Nat]

SwitchAssumption ==
  /\ Worker0 \in Worker /\ mac_hash \in [Mac -> Nat]
  /\ mac_bucketcnt \in Nat \ {0} /\ mac_mutex_shift \in Nat /\ TIMEOUT \in Nat /\ MaxTime \in Nat
  /\ NOWHERE \notin Mac /\ NOWHERE \notin Entry

VARIABLES entry,               \* the table: the entry of an address, or NOWHERE
          oldest_to_newest,
          mac_mutexes, gbl_mtx,
          time_now,            \* the clock
          stage,
          job,                 \* of each thread: address, port and time of the call
          last_mac,            \* of each thread: the source that its batch has put last
          seen                 \* the port at which an address was seen last

macTable == <<entry, oldest_to_newest>>
locks == <<mac_mutexes, gbl_mtx>>
switchVars == <<macTable, locks, time_now, stage, job, last_mac, seen>>

num_thrs_many == \E t \in Worker : t # Worker0

MacMutexOf(m) == (mac_hash[m] % mac_bucketcnt) \div 2 ^ mac_mutex_shift
MacMutex == {b \div 2 ^ mac_mutex_shift : b \in 0 .. mac_bucketcnt - 1}

NoJob == [mac |-> NOWHERE, port |-> NOWHERE, time |-> 0, evict |-> NOWHERE]

SwitchInit ==
  /\ entry = [m \in Mac |-> NOWHERE] /\ oldest_to_newest = << >>
  /\ mac_mutexes = [x \in MacMutex |-> NOWHERE] /\ gbl_mtx = NOWHERE
  /\ time_now = 0 /\ stage = [t \in Worker |-> "poll"]
  /\ job = [t \in Worker |-> NoJob] /\ last_mac = [t \in Worker |-> NOWHERE]
  /\ seen = [m \in Mac |-> NOWHERE]

At(t, place) == stage[t] = place
Enter(t, place) == stage' = [stage EXCEPT ![t] = place]

LockBucket(t, m) ==
  IF num_thrs_many
    THEN /\ mac_mutexes[MacMutexOf(m)] = NOWHERE
         /\ mac_mutexes' = [mac_mutexes EXCEPT ![MacMutexOf(m)] = t]
    ELSE UNCHANGED mac_mutexes
UnlockBucket(m) == mac_mutexes' = [mac_mutexes EXCEPT ![MacMutexOf(m)] = NOWHERE]

LockList(t) == IF num_thrs_many THEN gbl_mtx = NOWHERE /\ gbl_mtx' = t ELSE UNCHANGED gbl_mtx
UnlockList == gbl_mtx' = NOWHERE

\* An entry is taken out of the list where it stands.
Without(list, m) == RemoveAt(list, CHOOSE i \in DOMAIN list : list[i] = m)
mac_itemcnt == Cardinality({m \in Mac : entry[m] # NOWHERE})

Tick ==
  /\ time_now < MaxTime /\ time_now' = time_now + 1
  /\ UNCHANGED <<macTable, locks, stage, job, last_mac, seen>>

-----------------------------------------------------------------------------
(* time_out, by the first thread after it has polled.                      *)

TimeOutLock(t) ==
  /\ At(t, "poll") /\ t = Worker0
  /\ LockList(t)
  /\ job' = [job EXCEPT ![t] = [NoJob EXCEPT !.time = time_now]]
  /\ Enter(t, "walk")
  /\ UNCHANGED <<macTable, mac_mutexes, time_now, last_mac, seen>>

Old(t) == oldest_to_newest # << >> /\ entry[Head(oldest_to_newest)].time + TIMEOUT < job[t].time

\* An old entry leaves the list, and then the table under the mutex of its bucket.
TimeOutUnlink(t) ==
  /\ At(t, "walk") /\ Old(t)
  /\ job' = [job EXCEPT ![t].mac = Head(oldest_to_newest)]
  /\ oldest_to_newest' = Tail(oldest_to_newest)
  /\ Enter(t, "delete")
  /\ UNCHANGED <<entry, locks, time_now, last_mac, seen>>

TimeOutDelete(t) ==
  LET m == job[t].mac
  IN  /\ At(t, "delete")
      /\ num_thrs_many => mac_mutexes[MacMutexOf(m)] = NOWHERE
      /\ entry' = [entry EXCEPT ![m] = NOWHERE]
      /\ Enter(t, "walk")
      /\ UNCHANGED <<oldest_to_newest, locks, time_now, job, last_mac, seen>>

TimeOutReturn(t) ==
  /\ At(t, "walk") /\ ~Old(t)
  /\ UnlockList
  /\ Enter(t, "ready")
  /\ UNCHANGED <<macTable, mac_mutexes, time_now, job, last_mac, seen>>

-----------------------------------------------------------------------------
(* The packets of a batch, which came in at one port.                      *)

\* The other threads have nothing to do between two polls.
Poll(t) == At(t, "poll") /\ t # Worker0 /\ Enter(t, "ready")
           /\ UNCHANGED <<macTable, locks, time_now, job, last_mac, seen>>

\* The time is read once, before the packets are.
NextPkts(t, port) ==
  /\ At(t, "ready")
  /\ job' = [job EXCEPT ![t] = [NoJob EXCEPT !.port = port, !.time = time_now]]
  /\ last_mac' = [last_mac EXCEPT ![t] = NOWHERE]
  /\ Enter(t, "packet")
  /\ UNCHANGED <<macTable, locks, time_now, seen>>

BatchEnds(t) ==
  /\ At(t, "packet")
  /\ \E place \in {"ready", "poll"} : Enter(t, place)
  /\ UNCHANGED <<macTable, locks, time_now, job, last_mac, seen>>

\* The source of the next packet is learned, unless the last packet had it too.
Learn(t, src) ==
  /\ At(t, "packet")
  /\ job' = [job EXCEPT ![t].mac = src]
  /\ seen' = [seen EXCEPT ![src] = job[t].port]
  /\ last_mac' = [last_mac EXCEPT ![t] = src]
  /\ Enter(t, IF src = last_mac[t] THEN "get" ELSE "put")
  /\ UNCHANGED <<macTable, locks, time_now>>

\* The port of the destination, NOWHERE if the packet goes to all the others.
Found(dst) == IF entry[dst] = NOWHERE THEN NOWHERE ELSE entry[dst].port

port_get(t, dst) ==
  /\ At(t, "get")
  /\ num_thrs_many => mac_mutexes[MacMutexOf(dst)] = NOWHERE
  /\ Enter(t, "packet")
  /\ UNCHANGED <<macTable, locks, time_now, job, last_mac, seen>>

-----------------------------------------------------------------------------
(* port_put.                                                               *)

PutLock(t) ==
  LET m == job[t].mac
  IN  /\ At(t, "put")
      /\ LockBucket(t, m)
      /\ entry' = [entry EXCEPT ![m] = IF @ = NOWHERE THEN NOWHERE
                                       ELSE [port |-> job[t].port, time |-> job[t].time]]
      /\ Enter(t, IF entry[m] = NOWHERE THEN "add" ELSE "move")
      /\ UNCHANGED <<oldest_to_newest, gbl_mtx, time_now, job, last_mac, seen>>

\* Mutant: the entry stays where it is in the list.
Newest_same(list, m) == IF m \in {list[i] : i \in DOMAIN list} THEN list ELSE Append(list, m)
Newest(list, m) == Append(Without(list, m), m)

PutMove(t) ==
  /\ At(t, "move")
  /\ gbl_mtx = NOWHERE
  /\ oldest_to_newest' = Newest(oldest_to_newest, job[t].mac)
  /\ UnlockBucket(job[t].mac)
  /\ Enter(t, "get")
  /\ UNCHANGED <<entry, gbl_mtx, time_now, job, last_mac, seen>>

\* A full table drops its oldest entry, from the list first.
PutLockList(t) ==
  /\ At(t, "add")
  /\ LockList(t)
  /\ IF mac_itemcnt >= mac_bucketcnt
       THEN /\ oldest_to_newest' = Tail(oldest_to_newest)
            /\ job' = [job EXCEPT ![t].evict = Head(oldest_to_newest)]
            /\ Enter(t, "evict")
       ELSE UNCHANGED <<oldest_to_newest, job>> /\ Enter(t, "malloc")
  /\ UNCHANGED <<entry, mac_mutexes, time_now, last_mac, seen>>

\* An entry under another mutex is deleted with the hash value of the new one,
\* which asks for the mutex that this thread has already.
PutEvict(t) ==
  LET e == job[t].evict
      m == job[t].mac
  IN  /\ At(t, "evict")
      /\ num_thrs_many /\ MacMutexOf(e) # MacMutexOf(m) => mac_mutexes[MacMutexOf(m)] = NOWHERE
      /\ entry' = [entry EXCEPT ![e] = NOWHERE]
      /\ Enter(t, "malloc")
      /\ UNCHANGED <<oldest_to_newest, locks, time_now, job, last_mac, seen>>

PutAdd(t) ==
  LET m == job[t].mac
  IN  /\ At(t, "malloc")
      /\ entry' = [entry EXCEPT ![m] = [port |-> job[t].port, time |-> job[t].time]]
      /\ oldest_to_newest' = Append(oldest_to_newest, m)
      /\ UnlockList /\ UnlockBucket(m)
      /\ Enter(t, "get")
      /\ UNCHANGED <<time_now, job, last_mac, seen>>

\* Without memory the call returns with gbl_mtx locked.
PutNoMemory(t) ==
  /\ At(t, "malloc")
  /\ UnlockBucket(job[t].mac)
  /\ Enter(t, "get")
  /\ UNCHANGED <<macTable, gbl_mtx, time_now, job, last_mac, seen>>

Step(t) ==
  \/ TimeOutLock(t) \/ TimeOutUnlink(t) \/ TimeOutDelete(t) \/ TimeOutReturn(t)
  \/ Poll(t) \/ BatchEnds(t)
  \/ PutLock(t) \/ PutMove(t) \/ PutLockList(t) \/ PutEvict(t) \/ PutAdd(t) \/ PutNoMemory(t)
  \/ \E port \in Port : NextPkts(t, port)
  \/ \E m \in Mac : Learn(t, m) \/ port_get(t, m)

SwitchNext == Tick \/ \E t \in Worker : Step(t)

SwitchSpec == SwitchInit /\ [][SwitchNext]_switchVars

-----------------------------------------------------------------------------
(* Properties.                                                             *)

\* With one thread: between two calls the list has every entry of the table once,
\* from the oldest to the newest, so that time_out may stop at the first that is
\* young enough, and no more entries than buckets.
ListSorted ==
  LET list == oldest_to_newest
  IN  \A t \in Worker : stage[t] \in {"packet", "get", "ready", "poll"} =>
        /\ {list[i] : i \in DOMAIN list} = {m \in Mac : entry[m] # NOWHERE}
        /\ \A i, j \in DOMAIN list : i < j => list[i] # list[j] /\ entry[list[i]].time <= entry[list[j]].time
        /\ Len(list) <= mac_bucketcnt

\* With one thread: every step keeps the list sorted; an address is looked up at
\* the port where it was last seen or not found, and an entry that goes is too
\* old, or is the oldest of a full table.
LookupsFresh ==
  [][ListSorted' /\ \A m \in Mac :
       /\ (\E t \in Worker : stage[t] = "get" /\ stage'[t] = "packet") => Found(m) \in {NOWHERE, seen[m]}
       /\ (entry[m] # NOWHERE /\ entry'[m] = NOWHERE) =>
            \/ entry[m].time + TIMEOUT < job[Worker0].time
            \/ /\ mac_itemcnt = mac_bucketcnt
               /\ \A k \in Mac : entry[k] # NOWHERE => entry[m].time <= entry[k].time]_switchVars

\* The mutex a thread waits for, if any.
Awaits(t) ==
  CASE stage[t] = "put" -> {<<"bucket", MacMutexOf(job[t].mac)>>}
    [] stage[t] = "delete" -> {<<"bucket", MacMutexOf(job[t].mac)>>}
    [] stage[t] = "evict" /\ MacMutexOf(job[t].evict) # MacMutexOf(job[t].mac) ->
         {<<"bucket", MacMutexOf(job[t].mac)>>}
    [] stage[t] \in {"move", "add"} \/ (stage[t] = "poll" /\ t = Worker0) -> {<<"list">>}
    [] OTHER -> {}

Has(t) == {<<"bucket", x>> : x \in {y \in MacMutex : mac_mutexes[y] = t}}
          \cup {<<"list">> : x \in {y \in {gbl_mtx} : y = t}}

\* The usage line of the program starts it with three threads, of which none may
\* wait for a mutex of another that waits for one of its own.
NoMutualWait ==
  \A t, u \in Worker : t # u => Awaits(t) \cap Has(u) = {} \/ Awaits(u) \cap Has(t) = {}
=============================================================================
