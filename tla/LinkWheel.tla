------------------------------ MODULE LinkWheel ------------------------------
(***************************************************************************)
(* timerlinkwheel and timerrbwheel: the wheel of TimerWheel with a heap or *)
(* a tree of timers in each slot, in place of a list and a count of turns. *)
(* A slot is emptied of the timers earlier than the end of its tick, so a  *)
(* timer that a callback adds to the slot at hand still expires in time.   *)
(* A slot is modelled by what LinkHeap shows of it: a set of timers of     *)
(* which an earliest can be had.                                           *)
(*                                                                         *)
(* First the wheel of heaps; then the wheel of trees as what it adds.      *)
(***************************************************************************)
EXTENDS Integers

CONSTANTS Timer, Size, Granularity,
          Start, MaxTime   \* the time the wheel starts at; times are bounded by MaxTime

LinkWheelAssumption ==
  /\ Size \in Nat \ {0} /\ Granularity \in Nat \ {0}
  /\ Start \in 0 .. MaxTime /\ MaxTime \in Nat

VARIABLES timers,            \* the timers in each slot
          time64, idx,       \* of each timer
          curidx, next_time64,
          pc, curtime64,     \* the call of timer_linkwheel_process in progress
          due                \* history: time64 of each timer, or the tick it was added before

wheel == <<timers, time64, idx, due>>
clock == <<curidx, next_time64, curtime64>>
vars == <<wheel, clock, pc>>

Slot == 0 .. Size - 1
Time == 0 .. MaxTime
Pending == UNION {timers[i] : i \in Slot}

timer_linkwheel_init ==
  /\ timers = [i \in Slot |-> {}]
  /\ time64 = [x \in Timer |-> 0] /\ idx = [x \in Timer |-> 0] /\ due = [x \in Timer |-> 0]
  /\ curidx = 0 /\ next_time64 = Start
  /\ pc = "idle" /\ curtime64 = 0

-----------------------------------------------------------------------------
\* The number of slots from the current one; never negative.
\* Mutant: rounded up.
Diff_up(t) == IF t < next_time64 THEN 0 ELSE (t - next_time64 + Granularity - 1) \div Granularity
Diff(t) == IF t < next_time64 THEN 0 ELSE (t - next_time64) \div Granularity

\* Callers call from outside or from a callback.
Calling == pc \in {"idle", "callback"}

Insert(x, t, slots) ==
  LET i == (curidx + Diff(t)) % Size
  IN  /\ time64' = [time64 EXCEPT ![x] = t]
      /\ idx' = [idx EXCEPT ![x] = i]
      /\ timers' = [slots EXCEPT ![i] = @ \cup {x}]
      /\ due' = [due EXCEPT ![x] = IF t < next_time64 THEN next_time64 ELSE t]
      /\ UNCHANGED <<clock, pc>>

timer_linkwheel_add(x, t) == Calling /\ x \notin Pending /\ Insert(x, t, timers)

Without(x) == [timers EXCEPT ![idx[x]] = @ \ {x}]

\* The caller has set the timer's new time, by which the heap of its slot is
\* put in order when the timer leaves it.
timer_linkwheel_modify(x, t) == Calling /\ x \in Pending /\ Insert(x, t, Without(x))

timer_linkwheel_remove(x) ==
  /\ Calling /\ x \in Pending
  /\ timers' = Without(x)
  /\ UNCHANGED <<time64, idx, due, clock, pc>>

-----------------------------------------------------------------------------
(* timer_linkwheel_process.                                                *)

timer_linkwheel_process(t) ==
  /\ pc = "idle" /\ t >= next_time64
  /\ curtime64' = t /\ pc' = "slot"
  /\ UNCHANGED <<wheel, curidx, next_time64>>

\* The timers of the slot whose time is before the end of the tick.
Ripe == {x \in timers[curidx] : time64[x] < next_time64 + Granularity}

\* An earliest timer of the slot leaves it and its function is called.
Expire(x) ==
  /\ pc = "slot" /\ x \in Ripe
  /\ \A y \in timers[curidx] : time64[x] <= time64[y]
  /\ timers' = [timers EXCEPT ![curidx] = @ \ {x}]
  /\ pc' = "callback"
  /\ UNCHANGED <<time64, idx, due, clock>>

Return == pc = "callback" /\ pc' = "slot" /\ UNCHANGED <<wheel, clock>>

EndSlot ==
  /\ pc = "slot" /\ Ripe = {}
  /\ next_time64' = next_time64 + Granularity
  /\ curidx' = IF curidx + 1 >= Size THEN 0 ELSE curidx + 1
  /\ pc' = IF curtime64 >= next_time64' THEN "slot" ELSE "idle"
  /\ UNCHANGED <<wheel, curtime64>>

Process == Return \/ EndSlot \/ \E x \in Timer : Expire(x)

Next ==
  \/ Process
  \/ \E t \in Time : timer_linkwheel_process(t)
  \/ \E x \in Timer : timer_linkwheel_remove(x)
  \/ \E x \in Timer, t \in Time : timer_linkwheel_add(x, t) \/ timer_linkwheel_modify(x, t)

Spec == timer_linkwheel_init /\ [][Next]_vars

-----------------------------------------------------------------------------
(* Properties of the wheel of heaps.                                       *)

\* The slot in idx, where timer_linkwheel_remove looks for a timer, is the
\* one that holds it.
InItsSlot == \A i \in Slot : \A x \in timers[i] : idx[x] = i

\* A timer expires in the tick that its time falls in and not in an earlier
\* one, however many turns away it was added.
NeverEarly == [][\A x \in Timer : Expire(x) => due[x] < next_time64 + Granularity]_vars

\* The wheel does not pass the tick of a waiting timer, not even of one that a
\* callback adds to the slot at hand.
NoneOverdue == \A x \in Pending : next_time64 <= due[x]

\* A waiting timer is in one slot, where remove looks for it, expires in the
\* tick its time falls in, not in an earlier one, and is not passed over; no timer
\* waits a turn too long.
HeapWheelOnTime == [](InItsSlot /\ NoneOverdue) /\ NeverEarly

-----------------------------------------------------------------------------
(* timerrbwheel: a timerrb in each slot, a red-black tree that keeps its   *)
(* earliest timer at hand in next.                                         *)
(*                                                                         *)
(* timerrb_init leaves next as it is, and the slots of a wheel come from   *)
(* malloc: before its first timer the next of a slot holds what the memory *)
(* held.  With Zeroed that is NULL.                                        *)

CONSTANTS NIL, Garbage,
          Zeroed       \* malloc returned memory that was never used

RbWheelAssumption ==
  /\ Zeroed \in BOOLEAN
  /\ NIL \notin Timer /\ Garbage \notin Timer /\ NIL # Garbage

VARIABLE next          \* next of the timerrb of each slot

rbvars == <<vars, next>>

timer_rbwheel_init ==
  /\ timer_linkwheel_init
  /\ next \in [Slot -> IF Zeroed THEN {NIL} ELSE {NIL, Garbage}]

\* rb_tree_leftmost: an earliest timer of a slot, of equal ones any.
Leftmost(slot, time, x) ==
  IF slot = {} THEN x = NIL ELSE x \in slot /\ \A y \in slot : time[x] <= time[y]

\* Of the slots where a timer comes or goes.
\* Mutant: only of the last of them, where the timer is added.
timerrb_update_next_added(slots) ==
  LET i == CHOOSE i \in slots : slots = {i} \/ timers'[i] \ timers[i] # {}
  IN  \E x \in Timer \cup {NIL} : Leftmost(timers'[i], time64', x) /\ next' = [next EXCEPT ![i] = x]
timerrb_update_next(slots) ==
  \E f \in [Slot -> Timer \cup {NIL, Garbage}] :
    /\ next' = f
    /\ \A i \in Slot : IF i \in slots THEN Leftmost(timers'[i], time64', f[i]) ELSE f[i] = next[i]

timer_rbwheel_add(x, t) == timer_linkwheel_add(x, t) /\ timerrb_update_next({idx'[x]})
timer_rbwheel_modify(x, t) == timer_linkwheel_modify(x, t) /\ timerrb_update_next({idx[x], idx'[x]})
timer_rbwheel_remove(x) == timer_linkwheel_remove(x) /\ timerrb_update_next({idx[x]})

timer_rbwheel_process(t) == timer_linkwheel_process(t) /\ UNCHANGED next

\* timerrb_next_expiry_timer of the slot at hand.
Earliest == next[curidx]

RbExpire ==
  /\ pc = "slot" /\ Earliest \in Timer
  /\ time64[Earliest] < next_time64 + Granularity
  /\ timers' = [timers EXCEPT ![curidx] = @ \ {Earliest}]
  /\ pc' = "callback"
  /\ UNCHANGED <<time64, idx, due, clock>>
  /\ timerrb_update_next({curidx})

RbReturn == Return /\ UNCHANGED next

RbEndSlot ==
  /\ pc = "slot"
  /\ Earliest \in Timer => time64[Earliest] >= next_time64 + Granularity
  /\ Earliest # Garbage
  /\ next_time64' = next_time64 + Granularity
  /\ curidx' = IF curidx + 1 >= Size THEN 0 ELSE curidx + 1
  /\ pc' = IF curtime64 >= next_time64' THEN "slot" ELSE "idle"
  /\ UNCHANGED <<wheel, curtime64, next>>

\* What is not a pointer to a timer is used as one.
Wild ==
  /\ pc = "slot" /\ Earliest = Garbage
  /\ pc' = "wild"
  /\ UNCHANGED <<wheel, clock, next>>

RbNext ==
  \/ RbExpire \/ RbReturn \/ RbEndSlot
  \/ \E t \in Time : timer_rbwheel_process(t)
  \/ \E x \in Timer : timer_rbwheel_remove(x)
  \/ \E x \in Timer, t \in Time : timer_rbwheel_add(x, t) \/ timer_rbwheel_modify(x, t)

RbSpec == timer_rbwheel_init /\ [][RbNext]_rbvars

\* On memory as malloc may return it.
WildSpec == timer_rbwheel_init /\ [][RbNext \/ Wild]_rbvars

-----------------------------------------------------------------------------
(* Properties of the wheel of trees.                                       *)

\* The cached next makes no difference: on memory that is zero the wheel of
\* red-black trees does what the wheel of heaps does, timer by timer.
ImplementsLinkWheel == Spec

\* A slot that no timer was added to has no next timer, as the test for NULL
\* in timerrb_next_expiry_time has it.
EmptyHasNoNext == pc # "wild"
=============================================================================
