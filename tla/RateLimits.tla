----------------------------- MODULE RateLimits -----------------------------
(***************************************************************************)
(* The two rate limiters.                                                  *)
(*                                                                         *)
(* iphash: a limit on the rate of packets by source network.  A network    *)
(* hashes to an entry with tokens; timers, one for each batch of entries   *)
(* and spread over the period, add tokens.  The three widths of an entry   *)
(* are one array here, and Width is the one that initial_tokens selects.   *)
(* Callers hold the lock that batch_timer_fn takes.                        *)
(*                                                                         *)
(* log: the rate limiter of log_impl_vlog.  Level 0 is the most severe.    *)
(* An event spends from the burst of its own level and of every less       *)
(* severe one; every interval each level gets an increment.  A call runs   *)
(* under a mutex, so it is one action, or two if it increments: it reads   *)
(* the clock twice then, and somebody may set the clock in between.        *)
(***************************************************************************)
EXTENDS Integers

CONSTANTS initial_tokens, timer_period, timer_add, hash_size, batch_size,
          Word,        \* 2^32
          MaxNow       \* bound of the clock

timercnt == hash_size \div batch_size
Entry == 0 .. hash_size - 1
Batch == 0 .. timercnt - 1

\* use_tiny, use_small
Width == IF initial_tokens <= 255 THEN 256 ELSE IF initial_tokens <= 65535 THEN 65536 ELSE Word

\* The sizes are powers of 2, or ip_hash_init aborts.  It does not look at the
\* other parameters: the sum of tokens must not wrap.
IpHashAssumption ==
  /\ batch_size \in Nat \ {0} /\ hash_size \in Nat \ {0} /\ hash_size % batch_size = 0
  /\ initial_tokens \in Nat /\ timer_add \in Nat /\ Word \in Nat /\ Word > 65536
  /\ initial_tokens + timer_add < Word
  /\ timer_period \in Nat \ {0} /\ MaxNow \in Nat

VARIABLES tokens,          \* of each entry
          batch_time64,    \* of the timer of each batch
          now,
          spent,           \* history: packets permitted by each entry, less those given back
          refills          \* history: how often each batch was refilled

hashVars == <<tokens, batch_time64, now, spent, refills>>

ip_hash_init ==
  /\ tokens = [e \in Entry |-> initial_tokens]
  /\ now = 0
  /\ batch_time64 = [i \in Batch |-> (timer_period * i) \div timercnt]
  /\ spent = [e \in Entry |-> 0] /\ refills = [i \in Batch |-> 0]

\* ip_permitted and ipv6_permitted of an address that hashes to e; without
\* tokens nothing changes and the packet is not permitted.
ip_permitted(e) ==
  /\ tokens[e] # 0
  /\ tokens' = [tokens EXCEPT ![e] = @ - 1]
  /\ spent' = [spent EXCEPT ![e] = @ + 1]
  /\ UNCHANGED <<batch_time64, now, refills>>

\* ip_increment_one and ipv6_increment_one: the token of a packet is given back.
ip_increment_one(e) ==
  /\ tokens[e] < initial_tokens
  /\ tokens' = [tokens EXCEPT ![e] = @ + 1]
  /\ spent' = [spent EXCEPT ![e] = @ - 1]
  /\ UNCHANGED <<batch_time64, now, refills>>

Refilled(t) ==
  LET sum == (t + timer_add) % Word
  IN  (IF sum >= initial_tokens THEN initial_tokens ELSE sum) % Width

InBatch(e, i) == batch_size * i <= e /\ e < batch_size * (i + 1)

\* Mutant: the next time is counted from the time of the call.
Rearmed_drift(i) == now + timer_period \div 2
Rearmed(i) == batch_time64[i] + timer_period

\* The thread calls the functions of the timers that are due, earliest first.
Due(i) == batch_time64[i] <= now /\ \A j \in Batch : batch_time64[i] <= batch_time64[j]

batch_timer_fn(i) ==
  /\ Due(i)
  /\ tokens' = [e \in Entry |-> IF InBatch(e, i) THEN Refilled(tokens[e]) ELSE tokens[e]]
  /\ batch_time64' = [batch_time64 EXCEPT ![i] = Rearmed(i)]
  /\ refills' = [refills EXCEPT ![i] = @ + 1]
  /\ UNCHANGED <<now, spent>>

HashTick == now < MaxNow /\ now' = now + 1 /\ UNCHANGED <<tokens, batch_time64, spent, refills>>

HashNext ==
  \/ HashTick
  \/ \E e \in Entry : ip_permitted(e) \/ ip_increment_one(e)
  \/ \E i \in Batch : batch_timer_fn(i)

HashSpec == ip_hash_init /\ [][HashNext]_hashVars

-----------------------------------------------------------------------------
(* Properties.                                                             *)

\* No entry has more tokens than a new one, and what is stored fits its width.
TokensFit ==
  /\ tokens \in [Entry -> 0 .. initial_tokens] /\ initial_tokens < Width
  /\ batch_time64 \in [Batch -> Nat] /\ now \in Nat
  /\ spent \in [Entry -> Int] /\ refills \in [Batch -> Nat]

\* At any time the packets that one entry has let through are the initial
\* tokens and timer_add for each period that has begun, at most.
PermittedBound == \A e \in Entry :
  spent[e] <= initial_tokens + timer_add * (1 + now \div timer_period)

\* No batch falls behind another, however late the timers are processed.
EvenRefills == \A i, j \in Batch : refills[i] <= refills[j] + 1

\* The tokens stay in their range, so the narrow types hold them; in any time an
\* entry permits its burst and what was refilled; and the batches are refilled
\* equally often, give or take one.
RateLimited == TokensFit /\ PermittedBound /\ EvenRefills

-----------------------------------------------------------------------------
(* log: the rate limiter of log_impl_vlog.                                 *)

CONSTANTS LOG_LEVEL_COUNT, Increment, MaxBurst, Interval,
          MaxMissed,   \* events missed are counted up to it
          MaxReal, MaxSetbacks   \* bounds of the time that passes and of the times the clock is set back

LogLimiterAssumption ==
  /\ LOG_LEVEL_COUNT \in Nat \ {0} /\ MaxBurst \in Nat \ {0} /\ Increment \in Nat \ {0}
  /\ Interval \in Nat /\ MaxMissed \in Nat /\ MaxReal \in Nat /\ MaxSetbacks \in Nat

Level == 0 .. LOG_LEVEL_COUNT - 1
NoCall == -1

VARIABLES burst, missed_events, last_time64,
          adding,        \* the level of a call that will increment, or NoCall
          gettime64,     \* the clock
          real,          \* history: the time that has really passed
          setbacks,      \* history: how often the clock was set back
          increments,    \* history: how often the bursts were incremented
          logged         \* history: events of each level logged since the last increment

logClock == <<gettime64, real, setbacks>>
logVars == <<burst, missed_events, last_time64, adding, logClock, increments, logged>>

\* Time is counted from the epoch, which is more than an interval past.
LogInit ==
  /\ burst = [l \in Level |-> 0] /\ missed_events = [l \in Level |-> 0]
  /\ last_time64 = 0 /\ adding = NoCall
  /\ gettime64 = Interval + 1 /\ real = 0 /\ setbacks = 0
  /\ increments = 0 /\ logged = [l \in Level |-> 0]

\* gettime64() - last_time64 is unsigned: a clock that was set back is far ahead.
time_condition == gettime64 < last_time64 \/ gettime64 - last_time64 > Interval

Miss(level) ==
  /\ adding = NoCall /\ burst[level] = 0 /\ ~time_condition
  /\ missed_events' = [missed_events EXCEPT ![level] = IF @ < MaxMissed THEN @ + 1 ELSE @]
  /\ UNCHANGED <<burst, last_time64, adding, logClock, increments, logged>>

Add(b) == IF b + Increment > MaxBurst THEN MaxBurst ELSE b + Increment
Spend(b) == IF b > 0 THEN b - 1 ELSE b

\* An event takes from its level and the less severe ones.
Takes(level, l) == l >= level

\* The bursts after an event, with the increment before it if one is due.
Charged(level, due) == [l \in Level |->
  LET b == IF due THEN Add(burst[l]) ELSE burst[l]
  IN  IF Takes(level, l) THEN Spend(b) ELSE b]

\* An event that is logged without an increment.
Log(level) ==
  /\ adding = NoCall /\ burst[level] > 0 /\ ~time_condition
  /\ burst' = Charged(level, FALSE)
  /\ logged' = [logged EXCEPT ![level] = @ + 1]
  /\ UNCHANGED <<missed_events, last_time64, adding, logClock, increments>>

\* An increment is due: it will be made, whatever the clock says by then.
BeginIncrement(level) ==
  /\ adding = NoCall /\ time_condition
  /\ adding' = level
  /\ UNCHANGED <<burst, missed_events, last_time64, logClock, increments, logged>>

\* Mutant: the time of the increment is not noted.
Stamp_not == last_time64
Stamp == gettime64

\* The increment and the event; the missed events are reported.
LogIncrement ==
  /\ adding # NoCall /\ adding' = NoCall
  /\ last_time64' = Stamp
  /\ burst' = Charged(adding, TRUE)
  /\ missed_events' = [l \in Level |-> 0]
  /\ increments' = increments + 1
  /\ logged' = [l \in Level |-> IF l = adding THEN 1 ELSE 0]
  /\ UNCHANGED logClock

log_impl_vlog(level) == Miss(level) \/ Log(level) \/ BeginIncrement(level)

ClockRuns ==
  /\ real < MaxReal /\ real' = real + 1 /\ gettime64' = gettime64 + 1
  /\ UNCHANGED <<burst, missed_events, last_time64, adding, setbacks, increments, logged>>

ClockSetBack(t) ==
  /\ setbacks < MaxSetbacks /\ t < gettime64
  /\ gettime64' = t /\ setbacks' = setbacks + 1
  /\ UNCHANGED <<burst, missed_events, last_time64, adding, real, increments, logged>>

LogNext ==
  \/ LogIncrement \/ ClockRuns
  \/ \E level \in Level : log_impl_vlog(level)
  \/ \E t \in 0 .. Interval + MaxReal : ClockSetBack(t)

LogSpec == LogInit /\ [][LogNext]_logVars

-----------------------------------------------------------------------------
(* Properties.                                                             *)

\* No burst exceeds the configured maximum, however long nothing is logged.
LogTypeOK ==
  /\ burst \in [Level -> 0 .. MaxBurst] /\ missed_events \in [Level -> 0 .. MaxMissed]
  /\ last_time64 \in Nat /\ adding \in Level \cup {NoCall} /\ logged \in [Level -> Nat]
  /\ gettime64 \in Nat /\ real \in Nat /\ setbacks \in Nat /\ increments \in Nat

\* While an event of some level would be logged, so would a more severe one:
\* a flood of less severe events uses up nothing that a severe one needs.
SevereFirst == \A l, m \in Level : l < m => burst[l] >= burst[m]

\* Between two increments a level logs MaxBurst events at most, whatever the other
\* levels log.
BurstBounded == \A l \in Level : logged[l] + burst[l] <= MaxBurst

\* After the first there is one increment at most for more than an interval of the
\* time that really passes, and one for each time that the clock is set back, also
\* in the middle of a call: the unsigned difference lets no other through.
IncrementsBounded == (Interval + 1) * increments <= real + (Interval + 1) * (setbacks + 1)

\* The rate of log_impl_vlog is bounded: MaxBurst events of a level for each
\* increment, increments no more often than time and clock justify, and less
\* severe events are missed first.
RateBounded == SevereFirst /\ BurstBounded /\ IncrementsBounded
=============================================================================
