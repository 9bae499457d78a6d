------------------------------ MODULE LinkHeap ------------------------------
(***************************************************************************)
(* timerlink: a binary heap of timers that are linked by pointers instead  *)
(* of lying in an array.  The place of the n-th node is found by walking   *)
(* down from the root, so the heap must stay a complete tree.              *)
(***************************************************************************)
EXTENDS BinaryTree

CONSTANTS Time   \* the expiry times a timer may be given

VARIABLES heap,     \* the links; NIL where the code has NULL
          size,
          time64,   \* of each timer
          pending   \* history: the timers added and not removed

vars == <<heap, size, time64, pending>>

timer_linkheap_init ==
  /\ heap = Empty /\ size = 0
  /\ time64 \in [Node -> {CHOOSE t \in Time : TRUE}] /\ pending = {}

timer_linkheap_parent(i) == (i - 1) \div 2

timer_linkheap_nth(h, n) ==
  LET walk[i \in Nat] ==
        IF i = 0 THEN h.root
        ELSE h.child[IF i % 2 = 0 THEN "right" ELSE "left"][walk[timer_linkheap_parent(i)]]
  IN  walk[n]

timer_linkheap_swap_parentchild(h, parent, child) == Exchange(h, parent, child)
timer_linkheap_swap(h, x, y) == Exchange(h, x, y)

RECURSIVE timer_linkheap_siftdown(_, _, _), timer_linkheap_siftup(_, _, _)

timer_linkheap_siftdown(h, time, link) ==
  LET fc == h.child["left"][link]
      sc == h.child["right"][link]
      minlink == IF sc = NIL \/ time[fc] < time[sc] THEN fc ELSE sc
  IN  IF fc = NIL \/ time[minlink] >= time[link] THEN h
      ELSE timer_linkheap_siftdown(timer_linkheap_swap_parentchild(h, link, minlink), time, link)

timer_linkheap_siftup(h, time, link) ==
  LET parent == h.parent[link]
  IN  IF parent = NIL \/ time[parent] <= time[link] THEN h
      ELSE timer_linkheap_siftup(timer_linkheap_swap_parentchild(h, parent, link), time, link)

\* The choice at the end of timer_linkheap_remove, and all of timer_linkheap_modify.
Sift(h, time, link) ==
  IF h.parent[link] # NIL /\ time[link] < time[h.parent[link]]
  THEN timer_linkheap_siftup(h, time, link) ELSE timer_linkheap_siftdown(h, time, link)

Unlink(h, x) == Forget(Hang(h, h.parent[x], x, NIL), x)

-----------------------------------------------------------------------------
timer_linkheap_add(x, t) ==
  /\ x \notin pending
  /\ LET time == [time64 EXCEPT ![x] = t]
         at == timer_linkheap_nth(heap, timer_linkheap_parent(size))
         d == IF heap.child["left"][at] = NIL THEN "left" ELSE "right"
         h == IF heap.root = NIL THEN [heap EXCEPT !.root = x]
              ELSE [heap EXCEPT !.child[d][at] = x, !.parent[x] = at]
     IN  heap' = timer_linkheap_siftup(h, time, x) /\ time64' = time
  /\ size' = size + 1 /\ pending' = pending \cup {x}

timer_linkheap_remove(x) ==
  /\ x \in pending
  /\ LET last == timer_linkheap_nth(heap, size - 1)
     IN  heap' = IF x = last THEN Unlink(heap, x)
                 ELSE Sift(Unlink(timer_linkheap_swap(heap, x, last), x), time64, last)
  /\ size' = size - 1 /\ pending' = pending \ {x}
  /\ UNCHANGED time64

\* The caller has changed the time of a pending timer.
timer_linkheap_modify(x, t) ==
  /\ x \in pending
  /\ time64' = [time64 EXCEPT ![x] = t]
  /\ heap' = Sift(heap, [time64 EXCEPT ![x] = t], x)
  /\ UNCHANGED <<size, pending>>

Next == \E x \in Node : \/ timer_linkheap_remove(x)
                        \/ \E t \in Time : timer_linkheap_add(x, t) \/ timer_linkheap_modify(x, t)

Spec == timer_linkheap_init /\ [][Next]_vars

-----------------------------------------------------------------------------
(* Properties.                                                             *)

\* The heap stays a complete tree of exactly the pending timers: the n-th place
\* is occupied for every n below size, by different timers, and what lies beyond
\* is empty.  None of the aborts of add, remove and swap can be reached.
HeapComplete ==
  /\ LinksMatch(heap)
  /\ {timer_linkheap_nth(heap, i) : i \in 0 .. size - 1} = pending
  /\ \A i \in 0 .. size - 1, d \in Side :
       LET j == 2 * i + (IF d = "left" THEN 1 ELSE 2)
       IN  heap.child[d][timer_linkheap_nth(heap, i)] = NIL <=> j >= size

\* timer_linkheap_next_expiry_timer, the root, is an earliest pending timer, after
\* any mixture of additions, removals from the middle and changes of time.
NextIsEarliest ==
  /\ heap.root = NIL <=> pending = {}
  /\ \A x \in pending : time64[heap.root] <= time64[x]
=============================================================================
