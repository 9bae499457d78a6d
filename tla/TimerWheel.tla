----------------------------- MODULE TimerWheel -----------------------------
(***************************************************************************)
(* timerwheel: a wheel of size slots, granularity apart.  A timer further  *)
(* away than one turn counts the turns that are left.  While a slot is     *)
(* walked the callbacks of expired timers may add and remove timers, in    *)
(* the slot that is walked too.                                            *)
(*                                                                         *)
(* One thread, without locks, as every user in the repository has it.      *)
(***************************************************************************)
EXTENDS Integers, Sequences, SequencesExt

CONSTANTS Task,               \* the timers (struct timer_wheel_task)
          NoTask,
          size, granularity,
          start, MaxTick      \* the time the wheel starts at; times are bounded by MaxTick

TimerWheelAssumption ==
  /\ size \in Nat \ {0} /\ granularity \in Nat \ {0}
  /\ start \in 0 .. MaxTick /\ MaxTick \in Nat
  /\ NoTask \notin Task

VARIABLES slots,              \* the list of each slot (timers)
          rotation_count, slot_idx,   \* of each timer (idx)
          curslot, next_tick, \* curidx and next_time64
          walk, until,        \* the call of timer_wheel_process in progress, and its curtime64
          node, tmp,          \* the loop over the slot: this timer and the next
          wanted,             \* history: time64 of each timer, or the tick it was added before
          late                \* history: timers added to the slot being walked

lists == <<slots, rotation_count, slot_idx, wanted, late>>
hand == <<curslot, next_tick, until>>
wheelVars == <<lists, hand, walk, node, tmp>>

Slots == 0 .. size - 1
Moment == 0 .. MaxTick
Waiting == {x \in Task : \E i \in Slots : x \in ToSet(slots[i])}

timer_wheel_init ==
  /\ slots = [i \in Slots |-> << >>]
  /\ rotation_count = [x \in Task |-> 0] /\ slot_idx = [x \in Task |-> 0]
  /\ wanted = [x \in Task |-> 0] /\ late = {}
  /\ curslot = 0 /\ next_tick = start
  /\ walk = "idle" /\ until = 0 /\ node = NoTask /\ tmp = NoTask

-----------------------------------------------------------------------------
\* The number of slots from the current one; never negative.
SlotsAway(t) == IF t < next_tick THEN 0 ELSE (t - next_tick) \div granularity

\* Mutant: a timer exactly one turn away needs no turn.
Rotations_short(diff) == IF diff = 0 THEN 0 ELSE (diff - 1) \div size
Rotations(diff) == diff \div size

\* Mutant: at the end of the list, where a walk still comes by.
hash_list_add_head_tail(x, list) == Append(list, x)
hash_list_add_head(x, list) == <<x>> \o list

\* Where a timer is in a list.
Place(x, list) == CHOOSE k \in DOMAIN list : list[k] = x

hash_list_delete(x) == [slots EXCEPT ![slot_idx[x]] = RemoveAt(@, Place(x, @))]

\* Callers call from outside or from a callback.
MayCall == walk \in {"idle", "callback"}

Schedule(x, t, into) ==
  LET diff == SlotsAway(t)
      i == (curslot + diff) % size
  IN  /\ slot_idx' = [slot_idx EXCEPT ![x] = i]
      /\ rotation_count' = [rotation_count EXCEPT ![x] = Rotations(diff)]
      /\ slots' = [into EXCEPT ![i] = hash_list_add_head(x, @)]
      /\ wanted' = [wanted EXCEPT ![x] = IF t < next_tick THEN next_tick ELSE t]
      /\ late' = IF walk = "callback" /\ i = curslot THEN late \cup {x} ELSE late \ {x}
      /\ UNCHANGED <<hand, walk, node, tmp>>

timer_wheel_add(x, t) == MayCall /\ x \notin Waiting /\ Schedule(x, t, slots)

\* A callback must not take out the timer that the loop is to visit next:
\* the loop would go on from a node that is in no list.
Removable(x) == MayCall /\ x \in Waiting /\ x # tmp

timer_wheel_modify(x, t) == Removable(x) /\ Schedule(x, t, hash_list_delete(x))

TakeOut(x) ==
  /\ slots' = hash_list_delete(x)
  /\ wanted' = [wanted EXCEPT ![x] = 0] /\ late' = late \ {x}
  /\ UNCHANGED <<rotation_count, slot_idx>>

timer_wheel_remove(x) == Removable(x) /\ TakeOut(x) /\ UNCHANGED <<hand, walk, node, tmp>>

-----------------------------------------------------------------------------
(* timer_wheel_process.                                                    *)

First(i) == IF slots[i] = << >> THEN NoTask ELSE Head(slots[i])

\* The timer after x in the current slot.
After(x) ==
  LET list == slots[curslot]
      k == Place(x, list)
  IN  IF k = Len(list) THEN NoTask ELSE list[k + 1]

timer_wheel_process(t) ==
  /\ walk = "idle" /\ t >= next_tick
  /\ until' = t
  /\ walk' = "slot" /\ node' = First(curslot)
  /\ UNCHANGED <<lists, curslot, next_tick, tmp>>

InSlot == walk = "slot" /\ node # NoTask

Count ==
  /\ InSlot /\ rotation_count[node] > 0
  /\ rotation_count' = [rotation_count EXCEPT ![node] = @ - 1]
  /\ node' = After(node)
  /\ UNCHANGED <<slots, slot_idx, wanted, late, hand, walk, tmp>>

\* The timer leaves its slot and its function is called.
Fire ==
  /\ InSlot /\ rotation_count[node] = 0
  /\ TakeOut(node)
  /\ tmp' = After(node)
  /\ walk' = "callback"
  /\ UNCHANGED <<hand, node>>

FnReturns ==
  /\ walk = "callback"
  /\ node' = tmp /\ tmp' = NoTask /\ walk' = "slot"
  /\ UNCHANGED <<lists, hand>>

Inc(i) == IF i + 1 >= size THEN 0 ELSE i + 1

NextSlot ==
  /\ walk = "slot" /\ node = NoTask
  /\ next_tick' = next_tick + granularity
  /\ curslot' = Inc(curslot)
  /\ IF until >= next_tick' THEN walk' = "slot" /\ node' = First(curslot')
                            ELSE walk' = "idle" /\ node' = NoTask
  /\ UNCHANGED <<lists, until, tmp>>

WheelProcess == Count \/ Fire \/ FnReturns \/ NextSlot

WheelNext ==
  \/ WheelProcess
  \/ \E t \in Moment : timer_wheel_process(t)
  \/ \E x \in Task : timer_wheel_remove(x)
  \/ \E x \in Task, t \in Moment : timer_wheel_add(x, t) \/ timer_wheel_modify(x, t)

WheelSpec == timer_wheel_init /\ [][WheelNext]_wheelVars

\* A call of process runs to its end if its callbacks do.
WheelFairSpec == WheelSpec /\ WF_wheelVars(WheelProcess)

-----------------------------------------------------------------------------
(* Properties.                                                             *)

\* A waiting timer is in one place only, the one that timer_wheel_remove looks at.
InOnePlace == \A i \in Slots :
  /\ \A x \in ToSet(slots[i]) : slot_idx[x] = i
  /\ IsInjective(slots[i])

\* A timer that a callback adds to the slot being walked has missed this turn.
Grace(x) == IF x \in late THEN size * granularity ELSE 0

\* No timer is left behind: the wheel does not pass the tick of a waiting timer.
NonePassed == \A x \in Waiting : next_tick <= wanted[x] + Grace(x)

\* A timer expires in the tick that its time falls in and not in an earlier
\* one, however many turns away it was added; a timer added by a callback to
\* the slot being walked expires exactly one turn after its tick.
NotEarly == [][Fire => wanted[node] + Grace(node) < next_tick + granularity]_wheelVars

\* A waiting timer is in one place, where remove looks for it; it expires in
\* the tick its time falls in, not in an earlier one, and is not passed over; one
\* that a callback adds to the slot at hand waits one turn.
WheelOnTime == [](InOnePlace /\ NonePassed) /\ NotEarly

\* The loop over the slots ends, whatever the callbacks add.
ProcessReturns == (walk # "idle") ~> (walk = "idle")
=============================================================================
