------------------------------ MODULE MCTables ------------------------------
(***************************************************************************)
(* What is driven by the clock (the log limiter, the token buckets, the    *)
(* ARP cache, the timer wheels and the skip list) and the trees, side by   *)
(* side: a behaviour is one of the component named by part, the others     *)
(* stay in their initial state.  The first two nodes of a tree have equal  *)
(* keys.  The wheels are small, so times reach over a turn and timers with *)
(* and without a turn to go share a slot.                                  *)
(***************************************************************************)
EXTENDS RateLimits, ArpCache, LinkWheel, TimerWheel, TLC

CONSTANT HEAD

\* The timers are never told apart.
Symmetry == Permutations(Timer)

Keys(n) == [k \in 1 .. n |-> IF k = 2 THEN 1 ELSE k]

VARIABLES
  part,
  rbtree, rbOrder,                                                                    \* rbtree.c
  avltree, avlOrder,                                                                  \* avltree.c
  heap, heapSize, expiry, pending,                                                    \* timerlink.c
  list, status, period, sNow, sPc, tim, next_tim, updated, running_tim, sync          \* timerskiplist.c

Skip == INSTANCE SkipList WITH MAX_SKIPLIST_DEPTH <- 2, Ticks <- {1, 2}, MaxTime <- 3,
  now <- sNow, pc <- sPc

\* The slots of the wheel come from malloc, and are not cleared.
Malloc == INSTANCE LinkWheel WITH MaxTime <- 7, Zeroed <- FALSE

\* Eleven nodes: every case of insertion and deletion, with repairs that climb.
Rb == INSTANCE RbTree WITH Node <- 1 .. 11, Key <- Keys(11), NewTag <- FALSE, NIL <- 0,
  tree <- rbtree, order <- rbOrder

\* Twelve: the smallest AVL tree in which a deletion rotates twice on its way up.
Avl == INSTANCE AvlTree WITH Node <- 1 .. 12, Key <- Keys(12), NewTag <- 0, NIL <- 0,
  tree <- avltree, order <- avlOrder

\* Six timers: three levels, and removals that move the last timer up or down.
Heap == INSTANCE LinkHeap WITH Node <- 1 .. 6, Key <- [k \in 1 .. 6 |-> 0], NewTag <- 0, NIL <- 0,
  Time <- 0 .. 1, size <- heapSize, time64 <- expiry

ASSUME LogLimiterAssumption /\ IpHashAssumption /\ ArpCacheAssumption
ASSUME LinkWheelAssumption /\ RbWheelAssumption /\ Malloc!RbWheelAssumption
ASSUME TimerWheelAssumption /\ Skip!SkipListAssumption

clockVars == <<logVars, hashVars, arpVars, wheelVars>>
rbVars == <<rbtree, rbOrder>>
avlVars == <<avltree, avlOrder>>
heapVars == <<heap, heapSize, expiry, pending>>
treeVars == <<rbVars, avlVars, heapVars>>
skipVars == <<list, status, period, sNow, sPc, tim, next_tim, updated, running_tim, sync>>
timerVars == <<rbvars, skipVars>>
allVars == <<part, clockVars, treeVars, timerVars>>

ButRbWheelInit ==
  /\ LogInit /\ ip_hash_init /\ arp_cache_init /\ timer_wheel_init
  /\ Rb!rb_tree_init /\ Avl!avl_tree_init /\ Heap!timer_linkheap_init
  /\ Skip!Init

InArp(A) == part = "arp" /\ A /\ UNCHANGED <<part, logVars, hashVars, wheelVars, treeVars, timerVars>>
InWheel(A) == part = "wheel" /\ A /\ UNCHANGED <<part, logVars, hashVars, arpVars, treeVars, timerVars>>
InRbWheel(A) == part = "rbwheel" /\ A /\ UNCHANGED <<part, clockVars, treeVars, skipVars>>
InSkipList(A) == part = "skiplist" /\ A /\ UNCHANGED <<part, clockVars, treeVars, rbvars>>

AllNext ==
  \/ part = "log" /\ LogNext /\ UNCHANGED <<part, hashVars, arpVars, wheelVars, treeVars, timerVars>>
  \/ part = "iphash" /\ HashNext /\ UNCHANGED <<part, logVars, arpVars, wheelVars, treeVars, timerVars>>
  \/ InArp(ArpNext)
  \/ InWheel(WheelNext)
  \/ part = "rbtree" /\ Rb!Next /\ UNCHANGED <<part, clockVars, avlVars, heapVars, timerVars>>
  \/ part = "avltree" /\ Avl!Next /\ UNCHANGED <<part, clockVars, rbVars, heapVars, timerVars>>
  \/ part = "linkheap" /\ Heap!Next /\ UNCHANGED <<part, clockVars, rbVars, avlVars, timerVars>>
  \/ part = "linkwheel" /\ Next /\ UNCHANGED <<part, next, clockVars, treeVars, skipVars>>
  \/ InRbWheel(RbNext)
  \/ InSkipList(Skip!Next)

AllInit == ButRbWheelInit /\ timer_rbwheel_init

\* Time passes and the timers that are due are processed; a call of
\* timer_wheel_process runs to its end if its callbacks do.
AllFairness ==
  /\ WF_allVars(InArp(ArpTick))
  /\ \A ip \in Ip : WF_allVars(InArp(arp_entry_expiry_fn(ip)))
  /\ WF_allVars(InWheel(WheelProcess))

TablesInit ==
  part \in {"log", "iphash", "arp", "wheel", "rbtree", "avltree", "linkheap"} /\ AllInit

AllSpec == TablesInit /\ [][AllNext]_allVars /\ AllFairness

TimersInit == part \in {"wheel", "linkwheel", "rbwheel", "skiplist"} /\ AllInit

TimersSpec == TimersInit /\ [][AllNext]_allVars

\* Malloc!Wild: next of an empty slot is followed.
MallocSpec ==
  /\ part = "rbwheel" /\ ButRbWheelInit /\ Malloc!timer_rbwheel_init
  /\ [][InRbWheel(Malloc!RbNext \/ Malloc!Wild)]_allVars

\* Callbacks call timer_skiplist_stop_sync; a thread that waits in it tries again
\* and again.
SyncSpec ==
  /\ part = "skiplist" /\ AllInit /\ [][InSkipList(Skip!SyncNext)]_allVars
  /\ WF_allVars(InSkipList(Skip!Retry))

-----------------------------------------------------------------------------
(* Properties; RateBounded of log.c, RateLimited of iphash.c, PacketsOwned *)
(* and NoneWaitsForever of arp.c, WheelOnTime and ProcessReturns of        *)
(* timerwheel.c, HeapWheelOnTime of timerlinkwheel.c and                   *)
(* ImplementsLinkWheel of timerrbwheel.c come with their modules.          *)

\* rbtree.c, avltree.c: after any insertions and deletions the links down and up
\* agree and the tree in order is the sorted list; no red node has a red child
\* and all paths have as many black nodes, or the balance of an AVL node is the
\* difference of the heights of its children and at most one; and the search
\* finds exactly what is in the tree.
\* timerlink.c: the linked heap is a complete tree of the pending timers, and the
\* timer at the root is an earliest one.
TreesSound ==
  /\ Rb!TreeLinked /\ Rb!TreeSorted /\ Rb!TreeBalanced /\ Rb!FindExact
  /\ Avl!TreeLinked /\ Avl!TreeSorted /\ Avl!TreeBalanced
  /\ Heap!HeapComplete /\ Heap!NextIsEarliest

\* timerskiplist.c: the levels are sorted and sublists of each other; a pending
\* timer is listed and one that runs is about to be called: none is lost and
\* none is called twice.  A stopped timer is in no list and not about to run,
\* also when a callback stopped it.
SkipListSound == Skip!ListSound /\ Skip!PendingIsListed /\ Skip!StoppedIsForgotten

\* timerskiplist.h, violated: after timer_skiplist_stop_sync the timer is stopped,
\* also when a callback calls it.
StopSyncReturns == Skip!StopSyncReturns
=============================================================================
