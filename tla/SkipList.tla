------------------------------ MODULE SkipList ------------------------------
(***************************************************************************)
(* timerskiplist: the timers of one thread in a skip list ordered by time. *)
(* timer_skiplist_manage cuts the expired timers off the list and calls    *)
(* their functions one by one; a function may reset or stop any timer,     *)
(* its own and those that wait in the same batch.                          *)
(*                                                                         *)
(* The list is a record of the pointers and of what the library caches:    *)
(*   next  - sl_next of each timer and of pending_head, by level           *)
(*   time  - time64 of each, for pending_head the cached first time        *)
(*   depth - curr_skiplist_depth                                           *)
(* Pointers of a level that a timer is not on keep what they held.         *)
(***************************************************************************)
EXTENDS Integers, Sequences, FiniteSets, SequencesExt

CONSTANTS Timer, HEAD, NIL,
          MAX_SKIPLIST_DEPTH,
          Ticks,       \* the ticks and periods that callers choose from
          MaxTime      \* bound: the clock and the times of timers

SkipListAssumption ==
  /\ MAX_SKIPLIST_DEPTH \in Nat \ {0} /\ MaxTime \in Nat
  /\ Ticks \subseteq 1 .. MaxTime
  /\ HEAD \notin Timer /\ NIL \notin Timer /\ HEAD # NIL

VARIABLES list, status, period,
          now,                        \* what gettime64 returned last
          pc,                         \* "idle", "run" (between two callbacks) or "callback"
          tim, next_tim,              \* the loop over the expired timers
          updated, running_tim,
          sync                        \* the timer that timer_skiplist_stop_sync waits for, or NIL

control == <<pc, tim, next_tim, running_tim, sync>>
vars == <<list, status, period, now, control, updated>>

Node == Timer \cup {HEAD}
Level == 0 .. MAX_SKIPLIST_DEPTH - 1

timer_skiplist_subsystem_init ==
  /\ list = [next |-> [n \in Node |-> [l \in Level |-> NIL]], time |-> [n \in Node |-> 0], depth |-> 0]
  /\ updated = FALSE /\ running_tim = NIL

Init ==
  /\ timer_skiplist_subsystem_init
  /\ status = [x \in Timer |-> "STOP"]     \* timer_skiplist_init of each
  /\ period = [x \in Timer |-> 0]
  /\ now = 1 /\ pc = "idle" /\ tim = NIL /\ next_tim = NIL /\ sync = NIL

-----------------------------------------------------------------------------
(* The list.                                                               *)

\* The node of level l that is reached from n over the timers in pass.
RECURSIVE Advance(_, _, _, _)
Advance(s, n, l, pass) ==
  LET x == s.next[n][l] IN IF x \in pass THEN Advance(s, x, l, pass) ELSE n

Until(s, time_val) == {x \in Timer : s.time[x] <= time_val}

timer_get_prev_entries(s, time_val) ==
  LET prev[l \in 0 .. s.depth] ==
        IF l = s.depth THEN HEAD
        ELSE Advance(s, prev[l + 1], l, Until(s, time_val))
  IN  prev

\* Mutant: the timers of the same time are not passed one by one.
prev_entries_first(s, x) == timer_get_prev_entries(s, s.time[x] - 1)
timer_get_prev_entries_for_node(s, x) ==
  LET prev == timer_get_prev_entries(s, s.time[x] - 1)
  IN  [l \in 0 .. s.depth - 1 |-> Advance(s, prev[l], l, Until(s, s.time[x]) \ {x})]

\* The cached time of the first timer.
First(s) == s.next[HEAD][0]
Cached(s) == IF First(s) = NIL THEN 0 ELSE s.time[First(s)]

\* The levels that timer_get_skiplist_level may draw.
Levels(depth) == 0 .. (IF depth >= MAX_SKIPLIST_DEPTH THEN MAX_SKIPLIST_DEPTH - 1 ELSE depth)

timer_skiplist_add(s, x, level) ==
  LET prev == timer_get_prev_entries(s, s.time[x])
      linked == [n \in Node |-> [l \in Level |->
                  IF l > level THEN s.next[n][l]
                  ELSE IF n = x THEN s.next[prev[l]][l]
                  ELSE IF n = prev[l] THEN x ELSE s.next[n][l]]]
      t == [s EXCEPT !.next = linked, !.depth = IF level = @ THEN @ + 1 ELSE @]
  IN  [t EXCEPT !.time[HEAD] = t.time[First(t)]]

\* The depth after the levels that have become empty, from the top.
Shrunk(next, depth) ==
  CHOOSE d \in 0 .. depth :
    /\ \A l \in d .. depth - 1 : next[HEAD][l] = NIL
    /\ d > 0 => next[HEAD][d - 1] # NIL

timer_skiplist_remove(s, x) ==
  LET prev == timer_get_prev_entries_for_node(s, x)
      after == s.next[x][0]
      first == IF x # First(s) THEN s.time[HEAD] ELSE IF after = NIL THEN 0 ELSE s.time[after]
      next == [n \in Node |-> [l \in Level |->
                IF l < s.depth /\ n = prev[l] /\ s.next[n][l] = x THEN s.next[x][l] ELSE s.next[n][l]]]
  IN  [next |-> next, time |-> [s.time EXCEPT ![HEAD] = first], depth |-> Shrunk(next, s.depth)]

\* The first part of timer_skiplist_manage: cut the list after time_val.
Cut(s, time_val) ==
  LET prev == timer_get_prev_entries(s, time_val)
      cut == {l \in 0 .. s.depth - 1 : prev[l] # HEAD}
      next == [n \in Node |-> [l \in Level |->
                IF l \in cut /\ n = HEAD THEN s.next[prev[l]][l]
                ELSE IF l \in cut /\ n = prev[l] THEN NIL ELSE s.next[n][l]]]
      gone == {l \in cut : next[HEAD][l] = NIL}
      t == [s EXCEPT !.next = next, !.depth = @ - Cardinality(gone)]
  IN  [t EXCEPT !.time[HEAD] = Cached(t)]

\* The timers that follow n on level l.
RECURSIVE Follow(_, _, _)
Follow(s, n, l) == IF s.next[n][l] = NIL THEN << >> ELSE <<s.next[n][l]>> \o Follow(s, s.next[n][l], l)

Listed(l) == ToSet(Follow(list, HEAD, l))

-----------------------------------------------------------------------------
(* The calls of a user, from outside or from a callback.                   *)

Calling == pc \in {"idle", "callback"} /\ sync = NIL

\* timer_set_config_state succeeds.
Configurable(x) == status[x] = "RUNNING" => x = running_tim

\* timer_set_config_state found the timer running: manage need not look at it again.
Note(x) == updated' = (updated \/ status[x] = "RUNNING")

\* The list without x if x is in it.
Off(s, x) == IF status[x] = "PENDING" THEN timer_skiplist_remove(s, x) ELSE s

\* __timer_skiplist_reset of a timer whose status is PENDING or not.
Reset(x, t, p, off) ==
  /\ t <= MaxTime
  /\ \E level \in Levels(off.depth) : list' = timer_skiplist_add([off EXCEPT !.time[x] = t], x, level)
  /\ period' = [period EXCEPT ![x] = p]

timer_skiplist_reset(x, ticks, periodical) ==
  /\ Calling
  /\ \E t \in now .. MaxTime :
       /\ now' = t
       /\ IF Configurable(x)
          THEN /\ Reset(x, t + ticks, IF periodical THEN ticks ELSE 0, Off(list, x))
               /\ Note(x)
               /\ status' = [status EXCEPT ![x] = "PENDING"]
          ELSE UNCHANGED <<list, period, updated, status>>
  /\ UNCHANGED control

Stop(x) ==
  /\ Configurable(x)
  /\ list' = Off(list, x)
  /\ Note(x)
  /\ status' = [status EXCEPT ![x] = "STOP"]
  /\ UNCHANGED <<period, now, pc, tim, next_tim, running_tim>>

timer_skiplist_stop(x) == Calling /\ Stop(x) /\ UNCHANGED sync

\* A timer that cannot be stopped at once; the loop ends when it can.
timer_skiplist_stop_sync(x) ==
  /\ Calling /\ ~Configurable(x)
  /\ sync' = x
  /\ UNCHANGED <<list, status, period, now, pc, tim, next_tim, running_tim, updated>>

Retry == sync # NIL /\ Stop(sync) /\ sync' = NIL

-----------------------------------------------------------------------------
(* timer_skiplist_manage.                                                  *)

\* Relinks the expired timers to those that are set to run.
Batch(s, runs) ==
  [s EXCEPT !.next = [n \in Node |->
     IF \E k \in DOMAIN runs : runs[k] = n
     THEN LET k == CHOOSE k \in DOMAIN runs : runs[k] = n
          IN  [s.next[n] EXCEPT ![0] = IF k = Len(runs) THEN NIL ELSE runs[k + 1]]
     ELSE s.next[n]]]

timer_skiplist_manage ==
  /\ pc = "idle" /\ First(list) # NIL
  /\ \E t \in now .. MaxTime :
       /\ now' = t
       /\ IF list.time[First(list)] > t
          THEN UNCHANGED <<list, status, control, updated>>
          ELSE LET s == Cut(list, t)
                   expired == <<First(list)>> \o Follow(s, First(list), 0)
                   runs == SelectSeq(expired, LAMBDA x : status[x] = "PENDING")
               IN  /\ list' = Batch(s, runs)
                   /\ status' = [x \in Timer |-> IF x \in ToSet(runs) THEN "RUNNING" ELSE status[x]]
                   /\ tim' = IF runs = << >> THEN NIL ELSE runs[1]
                   /\ pc' = "run"
                   /\ UNCHANGED <<next_tim, running_tim, updated, sync>>
  /\ UNCHANGED period

\* The function of the next expired timer is called.
Call ==
  /\ pc = "run" /\ tim # NIL
  /\ next_tim' = list.next[tim][0]
  /\ updated' = FALSE /\ running_tim' = tim
  /\ pc' = "callback"
  /\ UNCHANGED <<list, status, period, now, tim, sync>>

\* It has returned.
Return ==
  /\ pc = "callback" /\ sync = NIL
  /\ pc' = "run" /\ tim' = next_tim /\ next_tim' = NIL
  /\ UNCHANGED <<now, running_tim, updated, sync>>

\* The function has stopped or reset its own timer.
Updated == Return /\ updated /\ UNCHANGED <<list, status, period>>

Single ==
  /\ Return /\ ~updated /\ period[tim] = 0
  /\ status' = [status EXCEPT ![tim] = "STOP"]
  /\ UNCHANGED <<list, period>>

\* The status is PENDING before the timer is back in the list, so that
\* __timer_skiplist_reset removes a timer that is in none.
Reload ==
  /\ Return /\ ~updated /\ period[tim] # 0
  /\ Reset(tim, list.time[tim] + period[tim], period[tim], timer_skiplist_remove(list, tim))
  /\ status' = [status EXCEPT ![tim] = "PENDING"]

Done ==
  /\ pc = "run" /\ tim = NIL
  /\ running_tim' = NIL /\ pc' = "idle"
  /\ UNCHANGED <<list, status, period, now, tim, next_tim, updated, sync>>

Next ==
  \/ timer_skiplist_manage \/ Call \/ Updated \/ Single \/ Reload \/ Done
  \/ \E x \in Timer : timer_skiplist_stop(x)
  \/ \E x \in Timer, ticks \in Ticks, periodical \in BOOLEAN : timer_skiplist_reset(x, ticks, periodical)

Spec == Init /\ [][Next]_vars

\* With users of timer_skiplist_stop_sync: the thread goes on when it can.
SyncNext == Next \/ Retry \/ \E x \in Timer : timer_skiplist_stop_sync(x)
SyncSpec == Init /\ [][SyncNext]_vars /\ WF_vars(Retry)

-----------------------------------------------------------------------------
(* Properties.                                                             *)

\* On every level the timers are in the order of their times, a level holds
\* timers of the level below only, and the levels in use are the first depth.
ListSound ==
  /\ \A l \in Level : LET s == Follow(list, HEAD, l) IN
       /\ \A i, j \in DOMAIN s : i < j => list.time[s[i]] <= list.time[s[j]]
       /\ l > 0 => ToSet(s) \subseteq Listed(l - 1)
       /\ (s = << >>) = (l >= list.depth)
  /\ list.time[HEAD] = Cached(list)

\* The timers that timer_skiplist_manage has yet to call, in a batch.
Batched == CASE pc = "run" /\ tim # NIL -> {tim} \cup ToSet(Follow(list, tim, 0))
             [] pc = "callback" /\ next_tim # NIL -> {next_tim} \cup ToSet(Follow(list, next_tim, 0))
             [] OTHER -> {}

\* A timer that was stopped, as from its own callback or another one's, is
\* referenced no more by the library: it is in no level of the list and in no
\* batch, and the loop does not touch it after the callback.  Its memory can
\* be freed.
StoppedIsForgotten == \A x \in Timer : status[x] = "STOP" =>
  /\ \A l \in Level : x \notin Listed(l)
  /\ x \notin Batched
  /\ pc = "callback" /\ tim = x => updated

\* A timer that waits is in the list, one that runs is in the batch or is the
\* one whose function was called: none is lost and none is called twice.
PendingIsListed == \A x \in Timer :
  /\ (status[x] = "PENDING") = (x \in Listed(0))
  /\ (status[x] = "RUNNING") = (x \in Batched \/ (pc = "callback" /\ ~updated /\ x = tim))

\* After timer_skiplist_stop_sync, from wherever it is called, the timer is
\* stopped: the loop ends.
StopSyncReturns == (sync # NIL) ~> (sync = NIL)
=============================================================================
