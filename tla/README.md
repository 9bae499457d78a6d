# pptk in TLA+

A verification project for PPTK, the packet processing toolkit in `src/`: TLA+
models of its components, model-checked with TLC on small instances, and proofs
checked with TLAPS for every value of the constants. `PROJECT.json` lists, by
machine-readable name, the components, the runs, the source lines behind every
definition, the hazards and the theorems; this file explains them.

## 1. The system

PPTK is a C library with no central process: a program picks parts, and runs
them in its own threads. The parts, what they hold and what is hard about them:

| part | state | operations | hard behaviour |
|---|---|---|---|
| `queue/` | ring of pointers, mutex, two conditions | enq (one, many), deq (plain, cached, timed) | lost wakeups with several producers and consumers, batches cut by a full ring, timeout against broadcast |
| `alloc/` as, ll, rb | local caches per thread, global cache under a mutex | alloc, free, st and mt variants | blocks migrate between threads; caches at their limits; oversized blocks |
| `ipfrag/` ipreass, rfc815, iprbexplicit, iprb815, rfc791, linux, combo, rbcombo | the missing bytes of a datagram (list, list in the buffer, tree, bitmap), packets kept | init, add, complete, reassemble, free | fragments in any order, duplicated, overlapping, disagreeing about the end |
| `tcpreass/` | tree of segments ahead of the stream | init, add, fetch, free | sequence numbers wrap; overlap; trimming |
| `timerlinkheap/`, `timerwheel/`, `timerrb/`, `timeravl/`, `timerskiplist/` | pending timers by expiry time | add, remove, modify, process | links of a heap without an array; a callback that adds or removes timers while the slot is walked |
| `rbtree/`, `avltree/`, `hashlist/`, `hashtable/`, `linkedlist/`, `dynarr/`, `databuf/` | intrusive containers | insert, delete, lookup, resize | rebalancing; striped locks against resize |
| `iphash/` | token buckets per address prefix, refilled in batches by a timer | permitted, increment, batch timer | several threads, refill while a bucket is used |
| `arp/` | entries with queued packets and a timer | put packet, put, get, expiry | a queue at its limit, expiry against resolution |
| `ldp/` | per-interface queues over sockets, pcap files, netmap, DPDK, ODP | open, nextpkts, deallocate, inject, txsync, close | ring slots outstanding with the caller, several queues that share one capture file |
| `mypcap/` | capture files of two formats | write, read | byte orders, blocks of other tools, files that end within a record |
| `iphdr/` | the bytes of a packet | fields, walks over headers and options, checksums, DNS messages | neighbours of a field, lengths that a packet itself claims, words that fields share, compressed names |
| `log/`, `misc/`, `ports/`, `portlist/`, `netmap/`, `tuntap/`, `random/` | rate limits, glue | logging, hashing, handing packets on | rate limiting |

The parts interact through a few interfaces only: packets come from an
allocator (`allocif`), are linked into lists and trees of the reassemblers and
of ARP, expire by timers, and move between threads through `queue`.

## 2. Modules

Each component has a module of its own: its variables, an initial state, one
action per call (or per step between two operations on mutexes, or between two
callbacks, where the code can be entered there), `Next`, `Spec` and its
properties. Definitions keep the names of the functions they model.
`PROJECT.json` gives the source lines of each. An operator under a comment
`Mutant:` is a variant with a plausible mistake; it is not part of any
specification and exists so that each property can be seen to fail.

### Shared between threads

* **Queue** (`queue/queue.c`, `queue.h`): the ring, the mutex, the wait sets of
  `full` and `empty`, and where each thread is. Acquiring the mutex, each put
  and each get is a step; a wait releases the mutex; wakeups may be spurious;
  a timed wait may time out at any time. `Fifo` is what the queue promises: a
  bounded channel. `ImplementsFifo` maps the slots between `start` and `end` to
  it.
* **BlockCache** (`alloc/asalloc.*`, `llalloc.*`): blocks move between malloc,
  callers, local caches and the global cache. The array of asalloc and the list
  of llalloc are both a set of blocks. Filling and halving move one block per
  step under the mutex. **RbAlloc** (`alloc/rballoc.*`) is the same allocator
  over explicit rings with indices and is shown to implement BlockCache.
* **HashTable** (`hashtable/hashtable.h`): striped bucket mutexes and the global
  mutex of the count, with the read and the write of the count as two steps.

### IP and TCP reassembly

* **Reassembly** is the abstract specification: the set of bytes missing and
  the end of the datagram, and what a fragment does to them.
* **IpReass** (`ipreass.c`): hole list and packet list beside each other; a turn
  of a walk over the holes is a step.
  **Rfc815** (`rfc815.c`): holes are descriptors inside the datagram's buffer.
  **Rb815** (`iprb815.c`): the descriptors form a red-black tree inside the
  buffer, with valid bits packed into the links. **RbExplicit**
  (`iprbexplicit.c`): holes as nodes of a tree of their own, with the search as
  nondeterminism (which of several overlapping holes it meets first). All four
  implement Reassembly. **Combo** (`combo.c`) is a composition: an IpReass
  context whose packets are entered into an Rfc815 context once there are many.
  **RbCombo** (`rbcombo.c`) composes RbExplicit and Rb815 in the same way; here
  the first context has freed the packets that changed no hole, and the second
  must not miss them.
* **Rfc791** (`rfc791.c`): the bitmap and the word-wise setting of bits.
  **LinuxFrag** (`linux.c`): the chain of packets with offsets, the count `meat`
  and the completeness test.
* **TcpReass** (`tcpreass/tcprbexplicit.c`): segments ahead of the stream, with
  sequence numbers modulo `Wrap` and comparisons by signed difference. A segment
  that is half of the space of numbers from the end of the stream is taken for
  another one by any TCP; `Near` says that none arrives.

A packet is a record of its first byte, its length and whether more follow;
bytes are positions, so "the right byte is copied" is a statement about
positions.

### Trees and timers

* **BinaryTree** has the links, rotations and reference definitions that
  **RbTree** (`rbtree/`), **AvlTree** (`avltree/`) and **LinkHeap**
  (`timerlinkheap/timerlink.c`) share.
* **TimerWheel** (`timerwheel/`) and **LinkWheel** (`timerlinkwheel.*`, and the
  wheel of trees of `timerrb/` as what it adds): processing is several steps, with
  callbacks in between that may add, modify or remove timers. The wheel of trees
  (`RbSpec`) implements the wheel of heaps (`Spec`).
* **SkipList** (`timerskiplist/`): the levels, the batch of expired timers that
  is cut off before callbacks run, the states STOP, PENDING and RUNNING.

### Packets in and out (LDP)

* **PacketRing** has the ring of receive buffers that two drivers share.
  **SocketQueue** (`ldp.c`) receives batches into it and puts the buffers of
  packets that the host itself sent straight back.
* **PcapIn** (`ldppcap.c`): queues that share the reader of one capture file,
  with its lookahead and its reference count; the buffers grow, and the capacity
  travels with the packet. **PcapOut**: calls that write each packet to the
  files that are open, under their mutexes, where a write may fail and the caller
  tries again.
* **CaptureFile** (`mypcap/`): a writer of either byte order makes a file of the
  old format or of pcapng, other tools add sections, interfaces and blocks, a
  crash cuts the file anywhere, and the reader takes one block a step.
* **Switch** (`ldpswitch.c`): the table of learned addresses and the list from
  the oldest to the newest, with the mutexes of both. A step is what a thread
  does between two operations on these mutexes.

### What packets look like

* **Headers** (`iphdr/iphdr.h`, `dnshdr.h`): each header is a table of fields,
  by first bit and width, with what the functions drop or mask. Setting a field
  is an action on the bits of a header of which nothing is known.
* **HeaderWalk** (`iphdr.h`, `iphdr.c`): the loops over the extension headers of
  IPv6 and over the options of TCP, one turn a step, in packets that may be cut
  and may claim any lengths.
* **Checksum** (`ipcksum.h`, `ipcksum.c`): computing the Internet checksum, and
  the functions that change a field or an option and adjust it word by word.
* **DnsMessage** (`dnshdr.c`): names are compressed while records are put, and
  followed while they are read; `recursive_resolve` follows canonical names. The
  buffer for a name and the one for data are equally large in the model, see §6.

### Driven by the clock

* **RateLimits**: token buckets refilled batch by batch (`iphash/iphash.c`, the
  definitions up to `HashSpec`), and bursts per level of the log, incremented by
  time (`log/log.c`, up to `LogSpec`). The two share nothing but the module. A
  call of the log that increments reads the clock twice, to decide (line 82) and
  to note the time (line 117), and is two steps; the clock runs and is set back
  between any two steps, while `real` counts the time that passes.
* **ArpCache** (`arp/arp.c`, `arp.h`): entries, packets waiting for an address,
  expiry. Putting an address and queueing a packet arm the timer of the entry;
  looking it up does not, so an entry that is only looked up is forgotten.

## 3. Runs

TLC runs on four modules named `MC...`, which only choose instances. Each puts
several components side by side: the variable `part`, chosen initially, says
which component moves; the others stay in their initial states. So a run's
states are the sum of the components' states, and each component has its own
constants. A component whose properties are also proved is extended, so that the
run and the theorem speak of the same definition: Queue, BlockCache, HashTable,
Switch, SocketQueue, PcapIn and PcapOut in MCShared, RateLimits, ArpCache,
LinkWheel and TimerWheel in MCTables, RbExplicit and TcpReass in MCFragments,
IpReass in MCHoles. Definitions of such components have names of their own for
that reason (`QueueSpec`, `TableSpec`, `SwitchSpec`, `SocketSpec`, `CaptureSpec`,
`OutSpec`, `ArpSpec`, `HashSpec`, `LogSpec`, `RbSpec`, `WheelSpec`, `TcpSpec`; in
BlockCache, LinkWheel, RbExplicit and IpReass just `Spec`; `slots`, `next_tick`
and the like in TimerWheel for `timers`, `next_time64`, with the names of the
code in comments). The others are instances with
their own variables. Properties defined in an MC module only say which component
is meant, or conjoin what is said of several. The run `progress` is on MCShared,
`timers` on MCTables, with other parts chosen.

| run | components | what it shows |
|---|---|---|
| `shared` | BlockCache, RbAlloc, Queue, HashTable, SocketQueue, PcapIn, PcapOut, CaptureFile, Switch | each block has one holder, caches fit and hold native blocks only, the global cache changes under its mutex, and the ring allocator implements the block cache; the queue loses no wakeup and keeps each producer's order; buckets are exclusive and the item count exact; packet rings count their buffers and never receive into one of the caller; capture files are read and written in order, and what was written into a file comes out of it up to the cut; with one thread the switch looks up fresh ports and drops only what is due; no deadlock |
| `progress` | Queue, BlockCache | the queue is a FIFO channel without lost wakeups; every enqueue, timed dequeue and allocator call returns; every item put is delivered |
| `holes` | IpReass, Rfc815, Rb815, Combo, RbCombo | holes are exactly the missing bytes, also across the change of method and in ascending order also in the middle of a walk, links are sound, no descriptor destroys data, the copy is the datagram |
| `fragments` | RbExplicit (IPv4, IPv6), Rfc791, LinuxFrag, TcpReass, Headers, HeaderWalk, Checksum, DnsMessage | packets kept suffice, overlap refused exactly under the ipv6 flag, add returns; the bitmap is that of the plain loop; the chain and its count are exact; TCP keeps exactly what it took; fields keep what was set, walks find what is there and end, checksums verify, DNS messages are read back |
| `timers` | TimerWheel, LinkWheel, SkipList | none expires early, none is passed over, and the wheel of trees does what the wheel of heaps does; a stopped timer is forgotten; no pending timer is lost |
| `tables` | RateLimits, ArpCache, TimerWheel, RbTree, AvlTree, LinkHeap | tokens and refills are bounded, and so are the events and the increments of the log, also when the clock is set back; ARP packets have one owner and do not wait for ever, entries are kept until they were neither put nor queued to for the timeout, and then forgotten, however often they are looked up; process returns; trees keep links, order and balance, lookups are exact, the root of the heap is earliest |
| `rfc791_even`, `tcp_useful`, `skiplist_stop_sync`, `rbwheel_malloc`, `rb815_balance`, `switch_threads` | Rfc791 and TcpReass in MCFragments, SkipList and LinkWheel in MCTables, Rb815 in MCHoles, Switch in MCShared | a disagreement of the code with a line of the repository, see section 6 |

### Bounds

* Queue: two producers (one with a cache) and two consumers on three slots, and
  one producer with a batch longer than a ring of two slots. Ring full, ring
  empty, a batch interrupted in the middle and both kinds of sleepers occur.
* Allocators: two threads and four blocks: enough for a full local cache, a
  full global cache and a block under way at once.
* Hash table: two threads, four buckets under two mutexes, two items that
  collide, one beside them under the same mutex, one under the other.
* Reassembly: units of two bytes in place of eight, datagrams of up to four
  units (nine for the tree in the buffer, six for the bitmap), and any
  number of fragments except for IpReass (`MaxPackets`: three, since each is
  kept). Every relation of a fragment to a hole (inside, across either end,
  over it, over two) and every order of ends occurs. A hole descriptor fills a
  unit, as it does in the code.
* Combo and RbCombo: three units, the change after two fragments, four fragments in all, so
  that up to two come after it. Every fragment but the last has whole units, as
  RFC 791 asks: a broken unit that the list accepts would be dropped by the
  buffer. RbCombo gets short fragments, an empty one and the whole datagram.
* Packet rings: four buffers, every batch and every order of returns. Capture
  file: two queues with rings of three on four records of two interfaces, whose
  sizes need the capacity to be doubled and to be more than doubled, and a last
  record that is cut off. Writers: two with two
  packets and two calls each, and one failing write.
* Files: three records or blocks, digits of 16 values in place of 256, cut by up
  to five bytes or by words; packets and names of 0 to 7 bytes, which need every
  padding; decimal and binary resolutions of time.
* Switch: three addresses for a table of two, and two ports; one thread in
  `shared`, two in `switch_threads`.
* TCP: `Wrap` is 48 and the stream starts three before the wrap; the windows
  of the code, scaled, are never reached by the segments except in the abort
  that the code has; `Near` is never false there.
* Header fields: two calls on a header of ones or of zeros, since fields disturb
  each other in pairs; values with their lowest bit and the others set or not.
* Walks: IPv6 chains of up to three extension headers, one type for each way to
  compute a length, and three lengths; TCP options in pairs, after a no-operation or not, so that every
  option occurs at even and odd offsets; cut, exact and longer packets.
* Checksums: two calls on packets of ones and of zeros, both byte
  orders, options at even and odd offsets, and always the value that makes the
  checksum 0. So short a packet is summed in two turns of the folding loop.
* DNS: names of one to three labels that end in each other, one question, two
  answers, a buffer that is large enough and one that is not. Identifiers and data with
  and without bytes that look like pointers.
* Trees: eleven nodes make every case of red-black deletion climb; twelve is
  the least number for an AVL deletion with two rotations; six timers fill
  three levels of the heap.
* Log: two levels, an interval of one, four units of time and two times that the
  clock is set back, to any earlier time: five increments, some of them decided
  on one reading of the clock and noted with an earlier one. ARP: two addresses
  and three packets for lists of two.
* Timers: wheels of two slots of two ticks, times over more than one turn,
  three timers; the skip list has two levels.
* Symmetry is used only in runs without liveness, on threads, blocks and timers
  that no formula tells apart.

### Fairness

Threads that are inside a call keep running (weak fairness of their steps). A
mutex does not starve a waiting thread for ever (strong fairness of acquiring):
POSIX does not promise this, but the kernel's futex queue behaves so, and
without it no call could be shown to return. Consumers keep calling, as in
`queueperf.c`, and deadlines pass. Calls that are one loop (`rb_explicit_
reassctx_add`, `timer_wheel_process`, the walks over headers) run on. In ArpCache time passes and due
timers are processed. No component is assumed to be called by its user except
the queue's consumers.

## 4. Proofs

Eight modules hold theorems. They hold for any number of threads, blocks, items,
addresses, timers, entries and levels, and for any sizes that the assumption of
the component allows. Each follows the same plan: an inductive invariant that is
stronger than the property, one lemma for the initial states, one for each group
of actions, and a last step that puts them together.

* **SharedProofs.** *Queue*. Assumed: `BufSiz` is at least two (a ring of one slot
  is full and empty at once), `CacheCapacity` and batches are positive, producers
  and consumers are different threads, none is `NOBODY`, no item is `NULL`.
  `NoLostWakeup` says that if producers sleep while the ring has room, or
  consumers while it has items, someone is about to wake them. By itself it is
  not inductive: the broadcast of a consumer depends on what it noted before it
  took the first item. The invariant `QueueIInv` adds that a consumer that has taken
  nothing yet knows whether the ring was full (`DrainKnowsFull`), that only
  threads on their way to the mutex sleep (`SleepersWait`), that slots between
  the indices hold items (`RingHoldsItems`) and `MutexDiscipline`. The
  refinement of `Fifo` is proved per step from two lemmas on the content of the
  ring, one for a put and one for a get. `ProducerOrder`, the other half of
  `QueueSafe`, is stated by position: in what was handed out followed by what is
  in the ring, the items of a producer are the first so many, in order; its batch
  has the next and its cache the last. It becomes inductive (`OrderInv`) with one
  fact more, that a producer that is in no call has no batch, so that no call
  overwrites an item.
  *Block cache*. Assumed: finitely many blocks, and half a local
  cache is less than a whole one. `OneHolder`, stated with the set of places
  that hold a block, follows from `Apart` (places are disjoint, pairwise, over
  all threads) and `Complete` (no block is nowhere). `CachesFit` needs `Control`:
  while a block is pending its thread is halving, and afterwards there is room.
  `GlobUnderMutex`, an action property, follows from the same invariant.
* **RbAllocProofs.** The allocator over rings implements BlockCache, as a
  refinement proved step by step. The invariant `RInv` is that of the rings
  (indices in range, the slots from `start` to `end` hold distinct blocks) and
  BlockCache's `IInv` read through the refinement mapping. The lemmas say what
  adding at `end` and taking at `start` do to the set of blocks in a ring, also
  where the index wraps, and that the size which the code computes from the
  indices is the number of blocks.
* **TableProofs.** *Hash table*: threads between lock and unlock own the mutex of
  their bucket (`Owned`), no two have the same item at hand (`Apart`), an item is
  in its bucket exactly from its addition to its deletion (`Placed`), and the
  count lags behind by one only for the holder of the global mutex (`Counted`).
  Only all of it is inductive: that a deletion never finds the count zero rests
  on the item being in its bucket. *ARP cache*: `PacketsOwned` is inductive with
  the types; that a lookup fails, where one found something before, only after the
  address was neither put nor queued to for a timeout (`KeptUntilQuiet`, an action
  property) needs `ArpTimed`, that the time left on the timer and the time since
  the last put or queueing add up to the timeout at least.
  *Token buckets*: tokens spent and left are what was there initially and what
  refills added, at most (`HashBalance`), and the times of the batch timers are
  evenly spread (`HashTimes`). *Log limiter*: the order by severity and the bound
  on events are inductive together; the bound on increments needs `LogPaid`: the
  time that the increments take and what the clock has gained on the last one are
  no more than the time that passed and an interval for each time the clock was
  set back, and a call that has decided on an increment has it paid for already,
  so setting the clock back before it is noted gains one more and not two.
* **WheelProofs.** *Wheel of heaps*: a timer is pending in the slot that the hand
  reaches when it is due (`Placed`), an invariant with quotients and remainders by
  granularity and number of slots, whence `HeapWheelOnTime`. *Wheel of trees*: it
  implements the wheel of heaps as long as the cached next of each slot is its
  leftmost timer (`Earliests`); assumed is memory that is zero, see
  `rbwheel_malloc`. *Wheel of lists*: the difficulty is a slot that is being
  walked. The timers that the loop has passed have one turn more to wait than the
  others with the same count, so the invariant (`WheelInv`) says that there is a
  position `p` which the loop has reached (`Reached`), and that the time of the
  timer at place `k` of slot `i` falls in the tick that the hand reaches after the
  way to the slot and the turns left, one more if `k < p` in the current slot
  (`InTicks`). Adding in front and taking out move the position, the timer that
  the loop keeps for next is never taken out (`Removable`), and only a callback
  can put a timer before the position: that one is late by a turn, which the
  property states exactly (`Grace`).
* **ReassemblyProofs.** RbExplicit for any size of a datagram and any fragments,
  with a search that may meet any overlapping hole first. The invariant says that
  holes are not even adjacent (`Apart`), what a call that is under way has found
  and what is left to do (`Searching`), and that each byte is missing, in a packet
  that is kept, or in the fragment at hand (`Covered`). From it: what is kept
  suffices, with the ipv6 flag exactly overlapping fragments are refused, and
  without it every step is one of Reassembly or none.
  *Rfc791*, for any size of units and words: the three word-wise loops set what
  the plain loop sets (`LoopsArePlain`, about quotients), and a bit is set exactly
  if the last byte of its unit has arrived, which no fragment that starts at a
  whole unit can bring alone (`BitmapInv`). A datagram that is called complete is,
  and one that ends inside a unit is called so.
  *TcpReass*, for any first sequence number, any space of numbers that eight
  divides and any segments shorter than an eighth of it: numbers that wrap are
  turned back into positions by one lemma (`NumDiff`: the signed difference of two
  numbers is that of their positions, if these are near), and the rest is about
  positions. `TcpInv` says that the segments wait, apart, within the window ahead
  of the stream, and that they, with the segment being placed, hold exactly the
  positions taken. From it: `SegmentsExact`, and that no comparison of
  `repair_after_passthrough` aborts (`RepairDefined`, an action property). Shorter
  segments than the window are needed: the stream must not move on so far that a
  waiting segment is out of reach of `seq_cmp`. For the code, 65535 bytes against
  2^29, this holds.

* **FragmentProofs.** IpReass, for any size of a datagram and any fragments, of
  which one may end past the top or be empty. The walks change the list that they
  walk, so the invariant (`IInv`) speaks of every turn: the holes ascend
  (`HolesAscend`, which the early returns of the walk rely on), the holes behind
  the first walk are clipped, those behind the second end before the data
  (`Clipped`, `Passed`), and each byte up to the end is in a hole or in a packet
  that was not ignored (`Covered`). The refinement maps the list in the middle of
  a call to what the walks will have left of it (`StillMissing`): the call takes
  effect when the packet joins its list, and each turn is a stutter. A complete
  datagram is filled by the copies; their lengths do not wrap if no packet starts
  past the end.
* **RingProofs.** *Socket*, for any number of buffers: everything is put in terms
  of the number of increments from `buf_start` to a slot (`Turns`). With `n`
  packets in the caller's hands the ring has its buffers in the slots fewer than
  `num_bufs - n` turns away (`Counted`), which the number of free buffers that the
  code computes follows from. Receiving a batch and returning buffers, in any
  order, are one lemma each; a batch with packets of the host itself is one after
  the other. *Capture file*, for any number of queues, buffers and records: the
  rings are taken apart into memory and capacity. By its memory a queue has the
  ring of the socket (`QueueOk` through `Mem`), and the capacity that travels with
  a packet is the size of its memory. The invariant (`CaptureInv`) adds that
  references are at least as many as open queues (`Living`), that a lookahead
  that is whole was not delivered, and that the buffer of the reader is spoilt only
  at the end of the file (`Ordered`).
* **OutputProofs.** *Switch*, with one thread and any number of addresses, ports
  and buckets: list and table agree but for the entry that is under way between
  them (`InOrder`, with `Leaving` and `Moving`), entries are no newer than the call
  (`Timely`), and what a call has found out under a mutex still holds where it
  relies on it (`Known`); a source that is not learned again, because the packet
  before had it too, has the port of the batch (`PortsKnown`). *Capture files
  written*, for any queues and files, whichever writes fail: the records of a queue
  in a file are numbered by its calls that have passed the file (`Written`), which
  the records of other queues in between do not disturb.

TLC found each of these invariants to hold on small instances as well.

Model-checked only:

* all liveness (`QueueProgress`, `CallsReturn`, `ProcessReturns`, `PacketsLeave`
  and `QuietForgotten` in `NoneWaitsForever`, the ends of calls in `OutcomeExact` and `TreeImplements`,
  `StopSyncReturns`): the prover does not reason about fairness;
* what is computed by recursion or by folding over data, which needs induction
  over data: the trees (`TreesSound`, `Rb815TreeLinked`, `Rb815Implements`), the
  levels of the skip list (`SkipListSound`), checksums, walks over headers, fields
  and DNS messages (`HeadersReadBack`) and capture files (`CapturesReadBack`);
* holes whose links are in the buffer (`Rfc815Implements`, `DatagramIntact`): the
  list is what following the links gives, a recursion; and Combo and RbCombo
  (`ComboImplements`), which hand a context over to such a one;
* of `CompleteIsSound` the half about LinuxFrag: its `meat` is a sum over the
  packets that a filter leaves of the chain, both folds; the half about Rfc791 is
  proved (`BitmapExact`), and so is what `OutcomeExact` says of IPv6 and of TCP;
* the switch with several threads, which can wait for each other for ever
  (`switch_threads`).

## 5. Hazards

`PROJECT.json` lists where this code can go wrong in ways a test would hardly
reach, each with the properties that would notice. The larger groups are: a
condition variable that is signalled only on a transition; blocks that move
between threads; fragments in any order that disagree about the end; a callback
that changes the structure being walked; deletions in trees that go wrong only
later; sequence numbers and indices at their wrap; lengths that a packet, a file
or a message claims about itself.

## 6. Disagreements

Each of these is a run that is expected to violate its property.

* `rfc791_even`: `rfc791ctx_complete` never holds for a datagram whose length
  is a multiple of eight; `rfc791test.c` aborts in that case and uses another
  length.
* `tcp_useful`: the last position of a segment is computed one too high, so the
  stream passes a byte that was not received; the header calls the range useful
  data.
* `skiplist_stop_sync`: called in a callback for a timer of the same batch, it
  waits for a timer that only its own thread can finish; the documentation
  allows the call in callbacks.
* `rbwheel_malloc`: `timerrb_init` leaves `next` unset in memory from malloc.
  `LinkWheel` has this as `Zeroed = FALSE`; everything else about it is checked
  with memory that was never used before.
* `rb815_balance`: a black leaf is removed without repair, so the tree stops
  being a red-black tree; the code aborts on this when built with EXTRA_DEBUG.
  Reassembly stays right in the instances of `holes`; after more deletions a
  repair may find no sibling, where the model stops (`fault`).

* `switch_threads`: `time_out` takes `gbl_mtx` and then a bucket mutex,
  `port_put` takes them the other way round, so that two threads can wait for
  each other; the usage line of the program starts three threads.

Also seen, without a run of its own. In `ldpswitch.c` with several threads, an
entry dropped from a full table is deleted with the hash value of the new one,
which asks for a mutex that the thread has, and `port_put` without memory
returns with `gbl_mtx` locked. In `ldppcap.c` a capture file that ends inside a
record spoils the lookahead, which a queue may still be given after the end of
file was reported (`FileOrder` allows for it), and an interface that fails to
open keeps its reference to the reader. In `linux.c` a last fragment that lies
inside an earlier one completes the datagram by a call that returns
`-EINPROGRESS` (`CompleteIsReported` is therefore checked for pieces that do not
overlap). `timer_skiplist_manage` calls `timer_skiplist_remove` with a timer
that is in no list, against the comment there, without harm to the list.
`ipreass.c` copies only right if no packet starts past the end (`CopiesFill`
says so in its condition).

In the code for headers and files the properties state what holds, and so
where it ends:

* `ipv6_proto_hdr_2` computes the length of a header from the type of the one
  after it: right for chains of headers whose types agree on the length, wrong for
  an authentication header of more than eight bytes that something else follows.
  It never leaves the packet (`WalkExact`).
* `tcp_find_sack_ts_headers` does not end on a SACK or timestamp option of length
  0, which `tcp_parse_options` refuses (`WalkEnds`).
* `tcp_adjust_sack_cksum_update` does not end for an option at an odd offset with
  at least one block. An adjusted or computed UDP checksum may be 0, which means
  that there is none (`ChecksumsVerify`).
* `ipv6_traffic_class` puts both halves in the same place, `pcp_set_opcode` only
  turns bits on, the counts of DNS are returned as eight bits, and
  `ip46_set_payload_len` supposes a header without options (`FieldsKept`).
* `memdns` takes any bytes for a name, also those of the header or of data, and
  may compress a name to bytes that look like a pointer, which `dns_next` does not
  read; `dns_next_an_ask` leaves the offset at the data of a record that is not a
  canonical name, so that the record after it is not read right; the root name
  makes `dns_next` write before its buffer, so no name is the root in the model
  (`MessageReadBack`).
* `dns_next_an_ask` (`dnshdr.c:162`) compares the length of a canonical name with
  `bufsiz`, the size of the buffer for names, and writes it to the buffer for data,
  whose size is `datbufsiz`; `recursive_resolve` passes 8192 and its caller's size.
  DnsMessage has one `BufSize` for both, where the two comparisons are the same; no
  property depends on it, and none is about a buffer for data that is smaller.
* A simple packet block ends the reading of a pcapng file without an error; a
  record of no bytes or with an empty name leaves half a record behind; an
  interface without an offset shifts times by what the memory held
  (`PacketsReadBack`, `TimesKept`).
* `fragment4` uses a packet before it tests whether there was memory for it.

## 7. Not modelled

Callbacks never free the wheel; allocation failures appear where the code goes
on after them (BlockCache) and are left out where the caller is left with
nothing. The optional locks of the wheels are used by nobody in the repository.
Drivers, system calls, hash functions and ciphers are I/O or arithmetic without
state; growing arrays, port lists and linked lists are a few lines per operation
whose effect the models of their users have. `fragment4` makes fragments that are
all among the inputs of the reassemblers. The programs (`main` functions, tools,
tests and the Lua binding) call the parts in loops and add no state of their own;
they are a large share of the lines of `src/`. The list of components in
`PROJECT.json` says this for every part.

## 8. Plan

1. LDP: the netmap driver's rings as far as the code in `src/` sees them.
2. The IPv6 functions of `iphash.c` and the AVL timers, as further instances of
   RateLimits and LinkWheel.
3. Offsets of 16 bits at their wrap in `ipv6_proto_hdr_2`.
4. Wheels with locks.
5. Proofs: the chain of LinuxFrag, once its loop over the packets that a fragment
   covers is one packet a step; the buffer of Rfc815, once the order of its holes is
   a variable beside the links.
