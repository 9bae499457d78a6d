------------------------------ MODULE MCShared ------------------------------
(***************************************************************************)
(* What threads share under mutexes, and the packet queues between them    *)
(* and the network, side by side: a behaviour is one of the component that *)
(* part names, the others stay in their initial state.                     *)
(***************************************************************************)
EXTENDS Queue, BlockCache, HashTable, Switch, SocketQueue, PcapIn, PcapOut, TLC

CONSTANTS p1, p2, x1, x2, x3, x4, q1, q2

\* Threads, blocks and consumers are never told apart.
Symmetry == Permutations(Threads) \cup Permutations(Block) \cup Permutations(Consumers)

VARIABLES
  part,
  rHeap, rUsed, rBig, rGlob, rSt, rLive, rLoc, rPend, rPc, rMtx,                  \* rballoc.c
  phase, is_ng, cBig, cFile, blocks, section, names, written, stop, whole,         \* mypcapng.c
  pos, swap, ns, interfaces, capacity, cRet, read

\* Four buckets under two mutexes: two items in one bucket, one in another bucket
\* of the same mutex, one under the other mutex.
TableHash == x1 :> 1 @@ x2 :> 5 @@ x3 :> 0 @@ x4 :> 3

\* The smallest local rings that work, and rings of two slots behind them.
Ring == INSTANCE RbAlloc WITH LocCap <- 3, GlobCap <- 2, StCap <- 2,
  heap <- rHeap, used <- rUsed, big <- rBig, glob <- rGlob, st <- rSt, live <- rLive,
  loc <- rLoc, pend <- rPend, pc <- rPc, mtx <- rMtx

\* Two queues for two interfaces; the packets outgrow the buffers by less and by
\* more than half, and the file ends inside a fifth record.
IfName == q1 :> x1 @@ q2 :> x2
FourRecords == << [ifname |-> x1, min |-> 1], [ifname |-> x2, min |-> 3],
                  [ifname |-> x2, min |-> 1], [ifname |-> x1, min |-> 2] >>

\* A queue with both files, one that has only the second of them.
TwoFiles == q1 :> {"regular", "ng"} @@ q2 :> {"ng"}

\* Interfaces of which one has a name of four bytes and one has none; time stamps
\* in tenths and tens of microseconds and in a sixteenth of a second.
Cap == INSTANCE CaptureFile WITH
  Packet <- { [data |-> <<7>>, time |-> 305, name |-> <<1>>],
              [data |-> <<7, 8, 9, 1, 2, 3, 4>>, time |-> 65600, name |-> <<2, 3, 4, 5>>],
              [data |-> <<6, 6, 6, 6>>, time |-> 251, name |-> <<1>>],
              [data |-> << >>, time |-> 1, name |-> <<1>>], [data |-> <<5>>, time |-> 1, name |-> << >>] },
  ForeignIdb <- { [name |-> <<1>>, resol |-> 3, offset |-> 4], [name |-> <<1>>, resol |-> 1, offset |-> NULL],
                  [name |-> <<1>>, resol |-> 12, offset |-> 9] },
  Garbage <- {0, 3}, Cuts <- (1 .. 5) \cup {4 * k : k \in 2 .. 9}, MaxBlocks <- 3, JOKER <- x1, big <- cBig, file <- cFile, ret <- cRet

\* The switch has one thread and three addresses for a table of two.
MacHash == x1 :> 0 @@ x2 :> 1 @@ x3 :> 2

ASSUME BlockCacheAssumption /\ HashTableAssumption /\ Ring!RbAllocAssumption
ASSUME PacketRingAssumption /\ PcapInAssumption
ASSUME PcapOutAssumption /\ Cap!CaptureFileAssumption /\ SwitchAssumption

ringVars == <<rHeap, rUsed, rBig, rGlob, rSt, rLive, rLoc, rPend, rPc, rMtx>>
fileVars == <<phase, is_ng, cBig, cFile, blocks, section, names, written, stop, whole,
              pos, swap, ns, interfaces, capacity, cRet, read>>
allVars == <<part, vars, ringVars, queueVars, tableVars, socketVars, captureVars, outVars, fileVars, switchVars>>

AllInit ==
  /\ part \in {"alloc", "rballoc", "queue", "hashtable", "socket", "pcap_in", "pcap_out", "file", "switch"}
  /\ Init /\ Ring!Init /\ QueueInit /\ hash_table_init_impl
  /\ SocketInit /\ CaptureInit /\ OutInit /\ Cap!Init /\ SwitchInit

InAlloc(A) ==
  /\ part = "alloc" /\ A
  /\ UNCHANGED <<part, ringVars, queueVars, tableVars, socketVars, captureVars, outVars, fileVars, switchVars>>
InQueue(A) ==
  /\ part = "queue" /\ A
  /\ UNCHANGED <<part, vars, ringVars, tableVars, socketVars, captureVars, outVars, fileVars, switchVars>>
InSwitch(A) ==
  /\ part = "switch" /\ A
  /\ UNCHANGED <<part, vars, ringVars, queueVars, tableVars, socketVars, captureVars, outVars, fileVars>>

AllNext ==
  \/ InAlloc(Next) \/ InQueue(QueueNext) \/ InSwitch(SwitchNext)
  \/ /\ part = "rballoc" /\ Ring!Next
     /\ UNCHANGED <<part, vars, queueVars, tableVars, socketVars, captureVars, outVars, fileVars, switchVars>>
  \/ /\ UNCHANGED <<part, vars, ringVars, queueVars, switchVars>>
     /\ \/ part = "hashtable" /\ TableNext /\ UNCHANGED <<socketVars, captureVars, outVars, fileVars>>
        \/ part = "socket" /\ SocketNext /\ UNCHANGED <<tableVars, captureVars, outVars, fileVars>>
        \/ part = "pcap_in" /\ CaptureNext /\ UNCHANGED <<tableVars, socketVars, outVars, fileVars>>
        \/ part = "pcap_out" /\ OutNext /\ UNCHANGED <<tableVars, socketVars, captureVars, fileVars>>
        \/ part = "file" /\ Cap!Next /\ UNCHANGED <<tableVars, socketVars, captureVars, outVars>>

AllSpec == AllInit /\ [][AllNext]_allVars

ThreadsInit == part \in {"alloc", "queue"} /\ AllInit

\* The queue and the block caches, whose threads must all get their turn, with
\* the fairness that each component's own specification states.
FairAllSpec ==
  /\ ThreadsInit /\ [][AllNext]_allVars
  /\ \A t \in Threads : /\ WF_allVars(InAlloc(FillStep(t) \/ HalveStep(t)))
                        /\ SF_allVars(InAlloc(Lock(t)))
  /\ \A p \in Producers : WF_allVars(InQueue(ProducerStep(p)))
  /\ \A c \in Consumers : /\ WF_allVars(InQueue(ConsumerStep(c) \/ ConsumerCall(c)))
                          /\ SF_allVars(InQueue(TimeOut(c)))
                          /\ SF_allVars(InQueue(TimedOutReturn(c)))
  /\ \A t \in Callers : SF_allVars(InQueue(Acquire(t)))

\* The switch alone, with any number of threads.
ThreadsSwitchSpec == part = "switch" /\ AllInit /\ [][InSwitch(SwitchNext)]_allVars

-----------------------------------------------------------------------------
(* Properties; those of asalloc.c and llalloc.c, hashtable.h, ldpswitch.c, *)
(* ldp.c and ldppcap.c come with their modules, and so does the safety of  *)
(* queue.c.                                                                *)

\* queue.c: an enqueue call returns while consumers keep taking, a dequeue call
\* with a timeout returns in any case, and what is queued is delivered.
QueueProgress == EnqueueReturns /\ TimedDequeueReturns /\ ItemsDelivered

\* rballoc.c: the ring caches implement the block caches.
ImplementsBlockCache == Ring!ImplementsBlockCache

\* mypcapng.c, mypcap.c: the packets of a capture file of either byte order, cut
\* anywhere, with blocks of other tools, are read back as they were written;
\* they keep their times, up to one offset of the interface.
CapturesReadBack == Cap!PacketsReadBack /\ Cap!TimesKept
=============================================================================
