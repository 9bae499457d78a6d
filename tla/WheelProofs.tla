----------------------------- MODULE WheelProofs -----------------------------
(***************************************************************************)
(* Proofs about the timer wheels: that the wheel of lists and the wheel of *)
(* heaps expire every timer in its tick, and that the wheel of trees does  *)
(* what the wheel of heaps does.  They hold for every number of timers and *)
(* slots, every granularity and every bound of the times.                  *)
(***************************************************************************)
EXTENDS TimerWheel, LinkWheel, SequenceTheorems, TLAPS

-----------------------------------------------------------------------------
(* The wheel of lists.                                                     *)

\* The types; the loop's next timer is kept while a callback runs.
WheelTypeOK ==
  /\ slots \in [Slots -> Seq(Task)]
  /\ rotation_count \in [Task -> Nat] /\ slot_idx \in [Task -> Slots]
  /\ wanted \in [Task -> Nat] /\ late \subseteq Task
  /\ curslot \in Slots /\ next_tick \in Nat
  /\ walk \in {"idle", "slot", "callback"}
  /\ tmp \in Task \cup {NoTask} /\ (walk # "callback" => tmp = NoTask)

\* No timer is in two places.
OnePlace(ls, where) == \A i \in Slots : \A k \in DOMAIN ls[i] :
  /\ where[ls[i][k]] = i
  /\ \A l \in DOMAIN ls[i] : ls[i][k] = ls[i][l] => k = l

\* Position p of the list, or its end.
IsAt(list, p, x) == \/ p = Len(list) + 1 /\ x = NoTask
                    \/ p \in 1 .. Len(list) /\ list[p] = x

\* The timer that the loop goes on with.
Upcoming == IF walk = "slot" THEN node ELSE tmp

\* The loop over the current slot has come to position p; without a loop, none
\* of the slot is done.
Reached(list, p, in, x) == IF in = "idle" THEN p = 1 ELSE IsAt(list, p, x)

\* How many slots the hand has to go.
Distance(i, cur) == IF i >= cur THEN i - cur ELSE i - cur + size

\* Time t falls in the n-th tick from now.
InTick(t, tick, n) == tick + granularity * n <= t /\ t < tick + granularity * n + granularity

\* The hand comes to every timer, after the turns it has to wait, in the tick
\* of its time; the timers that the loop has passed wait a turn more.
TurnsLeft(rot, done) == rot + IF done THEN 1 ELSE 0
Away(i, cur, rot, done) == Distance(i, cur) + size * TurnsLeft(rot, done)
Expected(w, x, la) == w[x] + (IF x \in la THEN size * granularity ELSE 0)
InTicks(ls, rot, w, la, cur, tick, p) == \A i \in Slots : \A k \in DOMAIN ls[i] :
  InTick(Expected(w, ls[i][k], la), tick, Away(i, cur, rot[ls[i][k]], i = cur /\ k < p))

\* The inductive invariant.
WheelInv ==
  /\ WheelTypeOK
  /\ OnePlace(slots, slot_idx)
  /\ \E p \in Nat : /\ Reached(slots[curslot], p, walk, Upcoming)
                    /\ InTicks(slots, rotation_count, wanted, late, curslot, next_tick, p)

-----------------------------------------------------------------------------
\* Removing one element of a sequence.
LEMMA RemoveAtProperties ==
  ASSUME NEW S, NEW s \in Seq(S), NEW i \in 1 .. Len(s)
  PROVE  /\ RemoveAt(s, i) \in Seq(S) /\ Len(RemoveAt(s, i)) = Len(s) - 1
         /\ \A j \in 1 .. Len(s) - 1 : RemoveAt(s, i)[j] = IF j < i THEN s[j] ELSE s[j + 1]
<1> DEFINE a == SubSeq(s, 1, i - 1)
           z == SubSeq(s, i + 1, Len(s))
<1>1. a \in Seq(S) /\ Len(a) = i - 1 /\ \A j \in 1 .. i - 1 : a[j] = s[j] OBVIOUS
<1>2. z \in Seq(S) /\ Len(z) = Len(s) - i /\ \A j \in 1 .. Len(s) - i : z[j] = s[i + j]
  <2>1. \A j \in i + 1 .. Len(s) : s[j] \in S OBVIOUS
  <2> QED BY <2>1, SubSeqProperties
<1> HIDE DEF a, z
<1>3. \A j \in 1 .. Len(a) + Len(z) : (a \o z)[j] = IF j <= Len(a) THEN a[j] ELSE z[j - Len(a)]
  BY <1>1, <1>2, ConcatProperties
<1>4. a \o z \in Seq(S) /\ Len(a \o z) = Len(a) + Len(z) BY <1>1, <1>2, ConcatProperties
<1>5. ASSUME NEW j \in 1 .. Len(s) - 1
      PROVE  (a \o z)[j] = IF j < i THEN s[j] ELSE s[j + 1]
  <2>1. CASE j < i BY <2>1, <1>1, <1>2, <1>3
  <2>2. CASE ~(j < i)
    <3>1. j - (i - 1) \in 1 .. Len(s) - i /\ i + (j - (i - 1)) = j + 1 BY <2>2
    <3>2. j \in 1 .. Len(a) + Len(z) /\ ~(j <= Len(a)) BY <2>2, <1>1, <1>2
    <3>3. (a \o z)[j] = z[j - (i - 1)] BY <3>2, <1>1, <1>3
    <3> QED BY <2>2, <3>1, <3>3, <1>2
  <2> QED BY <2>1, <2>2
<1>6. Len(a \o z) = Len(s) - 1 BY <1>1, <1>2, <1>4
<1> QED BY <1>4, <1>5, <1>6 DEF RemoveAt, a, z

\* Putting one element in front of a sequence.
LEMMA PrependProperties ==
  ASSUME NEW S, NEW s \in Seq(S), NEW e \in S
  PROVE  /\ <<e>> \o s \in Seq(S) /\ Len(<<e>> \o s) = Len(s) + 1
         /\ \A j \in 1 .. Len(s) + 1 : (<<e>> \o s)[j] = IF j = 1 THEN e ELSE s[j - 1]
OBVIOUS

\* The positions of a list.
LEMMA InList ==
  ASSUME NEW list \in Seq(Task), NEW k \in DOMAIN list
  PROVE  k \in 1 .. Len(list) /\ Len(list) \in Nat /\ k \in Nat \ {0} /\ list[k] \in Task
OBVIOUS

\* The timer at a place of a list without repetitions is at that place.
LEMMA PlaceIs ==
  ASSUME NEW list, NEW k \in DOMAIN list,
         \A l \in DOMAIN list : list[k] = list[l] => k = l
  PROVE  Place(list[k], list) = k
BY DEF Place

\* Where in list j the timer at k was before the one at q of list i was taken out.
WasAt(i, q, j, k) == IF j = i /\ k >= q THEN k + 1 ELSE k

\* The lists without the timer at q of list i, and with timer x in front of list i.
TakenFrom(ls, i, q) == [ls EXCEPT ![i] = RemoveAt(@, q)]
PutInto(ls, i, x) == [ls EXCEPT ![i] = hash_list_add_head(x, @)]

\* hash_list_delete, of the lists: the others move up.
LEMMA ListsWithout ==
  ASSUME NEW ls \in [Slots -> Seq(Task)], NEW where, OnePlace(ls, where),
         NEW i \in Slots, NEW q \in DOMAIN ls[i]
  PROVE  LET t == TakenFrom(ls, i, q)
         IN  /\ t \in [Slots -> Seq(Task)] /\ OnePlace(t, where)
             /\ Len(t[i]) = Len(ls[i]) - 1 /\ \A j \in Slots : j # i => t[j] = ls[j]
             /\ \A j \in Slots : \A k \in DOMAIN t[j] :
                  /\ WasAt(i, q, j, k) \in DOMAIN ls[j] /\ t[j][k] = ls[j][WasAt(i, q, j, k)] /\ t[j][k] # ls[i][q]
<1> DEFINE t == TakenFrom(ls, i, q)
           r == RemoveAt(ls[i], q)
<1>1. ls[i] \in Seq(Task) /\ q \in 1 .. Len(ls[i]) /\ Len(ls[i]) \in Nat OBVIOUS
<1>2. /\ r \in Seq(Task) /\ Len(r) = Len(ls[i]) - 1
      /\ \A k \in 1 .. Len(ls[i]) - 1 : r[k] = IF k < q THEN ls[i][k] ELSE ls[i][k + 1]
  BY <1>1, RemoveAtProperties
<1> HIDE DEF r
<1>3. t[i] = r /\ (\A j \in Slots : j # i => t[j] = ls[j]) /\ t \in [Slots -> Seq(Task)]
  BY <1>2 DEF r, TakenFrom
<1> HIDE DEF t
<1>4. DOMAIN r = 1 .. Len(ls[i]) - 1 /\ DOMAIN ls[i] = 1 .. Len(ls[i]) BY <1>1, <1>2
<1>5. ASSUME NEW j \in Slots, NEW k \in DOMAIN t[j]
      PROVE  WasAt(i, q, j, k) \in DOMAIN ls[j] /\ t[j][k] = ls[j][WasAt(i, q, j, k)] /\ t[j][k] # ls[i][q]
  <2>1. CASE j = i
    <3>1. k \in 1 .. Len(ls[i]) - 1 BY <2>1, <1>3, <1>4
    <3>2. WasAt(i, q, j, k) \in 1 .. Len(ls[i]) /\ WasAt(i, q, j, k) # q BY <3>1, <2>1, <1>1 DEF WasAt
    <3>3. r[k] = ls[i][WasAt(i, q, j, k)] BY <3>1, <2>1, <1>1, <1>2 DEF WasAt
    <3>4. ls[i][q] = ls[i][WasAt(i, q, j, k)] => q = WasAt(i, q, j, k) BY <3>2, <1>4 DEF OnePlace
    <3> QED BY <2>1, <3>2, <3>3, <3>4, <1>3, <1>4
  <2>2. CASE j # i
    <3>1. t[j] = ls[j] /\ WasAt(i, q, j, k) = k BY <2>2, <1>3 DEF WasAt
    <3>2. where[ls[j][k]] = j /\ where[ls[i][q]] = i BY <3>1 DEF OnePlace
    <3> QED BY <2>2, <3>1, <3>2
  <2> QED BY <2>1, <2>2
<1>6. OnePlace(t, where)
  <2> SUFFICES ASSUME NEW j \in Slots, NEW k \in DOMAIN t[j]
               PROVE  /\ where[t[j][k]] = j
                      /\ \A l \in DOMAIN t[j] : t[j][k] = t[j][l] => k = l
    BY DEF OnePlace
  <2>1. where[t[j][k]] = j BY <1>5 DEF OnePlace
  <2>2. ASSUME NEW l \in DOMAIN t[j], t[j][k] = t[j][l] PROVE k = l
    <3>1. WasAt(i, q, j, k) = WasAt(i, q, j, l) BY <2>2, <1>5 DEF OnePlace
    <3>2. k \in Int /\ l \in Int BY <1>3
    <3> QED BY <3>1, <3>2, <1>1 DEF WasAt
  <2> QED BY <2>1, <2>2
<1>7. Len(t[i]) = Len(ls[i]) - 1 BY <1>2, <1>3
<1> QED BY <1>3, <1>5, <1>6, <1>7 DEF t

\* Where in list j the timer at k was before one was put in front of list i.
StoodAt(i, j, k) == IF j = i THEN k - 1 ELSE k

\* Timer x is in none of the lists.
Absent(ls, x) == \A j \in Slots : \A k \in DOMAIN ls[j] : ls[j][k] # x

\* The lists t are the lists ls with x in front of list i; the others move down.
IsPut(t, ls, where, i, x) ==
  /\ t \in [Slots -> Seq(Task)] /\ OnePlace(t, [where EXCEPT ![x] = i])
  /\ Len(t[i]) = Len(ls[i]) + 1 /\ t[i][1] = x
  /\ \A j \in Slots : j # i => t[j] = ls[j]
  /\ \A k \in DOMAIN ls[i] : t[i][k + 1] = ls[i][k]
  /\ \A j \in Slots : \A k \in DOMAIN t[j] : ~(j = i /\ k = 1) =>
       /\ StoodAt(i, j, k) \in DOMAIN ls[j] /\ t[j][k] = ls[j][StoodAt(i, j, k)] /\ t[j][k] # x

\* hash_list_add_head, of the lists.
LEMMA ListsWith ==
  ASSUME NEW ls \in [Slots -> Seq(Task)], NEW where \in [Task -> Slots], OnePlace(ls, where),
         NEW i \in Slots, NEW x \in Task, Absent(ls, x)
  PROVE  IsPut(PutInto(ls, i, x), ls, where, i, x)
<1> DEFINE t == PutInto(ls, i, x)
           r == <<x>> \o ls[i]
<1>1. ls[i] \in Seq(Task) /\ Len(ls[i]) \in Nat OBVIOUS
<1>2. /\ r \in Seq(Task) /\ Len(r) = Len(ls[i]) + 1
      /\ \A k \in 1 .. Len(ls[i]) + 1 : r[k] = IF k = 1 THEN x ELSE ls[i][k - 1]
  BY <1>1, PrependProperties
<1> HIDE DEF r
<1>3. t[i] = r /\ (\A j \in Slots : j # i => t[j] = ls[j]) /\ t \in [Slots -> Seq(Task)]
  BY <1>2 DEF r, PutInto, hash_list_add_head
<1> HIDE DEF t
<1>4. DOMAIN r = 1 .. Len(ls[i]) + 1 /\ DOMAIN ls[i] = 1 .. Len(ls[i]) BY <1>1, <1>2
<1>5. ASSUME NEW j \in Slots, NEW k \in DOMAIN t[j], ~(j = i /\ k = 1)
      PROVE  StoodAt(i, j, k) \in DOMAIN ls[j] /\ t[j][k] = ls[j][StoodAt(i, j, k)] /\ t[j][k] # x
  <2>1. CASE j = i
    <3>1. k \in 1 .. Len(ls[i]) + 1 /\ k # 1 BY <2>1, <1>3, <1>4, <1>5
    <3>2. StoodAt(i, j, k) \in 1 .. Len(ls[i]) /\ r[k] = ls[i][StoodAt(i, j, k)] BY <3>1, <2>1, <1>1, <1>2 DEF StoodAt
    <3> QED BY <2>1, <3>2, <1>3, <1>4 DEF Absent
  <2>2. CASE j # i BY <2>2, <1>3 DEF StoodAt, Absent
  <2> QED BY <2>1, <2>2
<1>6. t[i][1] = x /\ Len(t[i]) = Len(ls[i]) + 1 BY <1>1, <1>2, <1>3
<1>7. ASSUME NEW k \in DOMAIN ls[i] PROVE t[i][k + 1] = ls[i][k]
  <2>1. k \in 1 .. Len(ls[i]) BY <1>4
  <2>2. k + 1 \in 1 .. Len(ls[i]) + 1 /\ k + 1 # 1 /\ (k + 1) - 1 = k BY <2>1, <1>1
  <2>3. r[k + 1] = ls[i][(k + 1) - 1] BY <2>2, <1>2
  <2> QED BY <2>2, <2>3, <1>3
<1>8. OnePlace(t, [where EXCEPT ![x] = i])
  <2> DEFINE v == [where EXCEPT ![x] = i]
  <2>0. v[x] = i /\ \A y \in Task : y # x => v[y] = where[y] OBVIOUS
  <2> HIDE DEF v
  <2> SUFFICES ASSUME NEW j \in Slots, NEW k \in DOMAIN t[j]
               PROVE  /\ v[t[j][k]] = j
                      /\ \A l \in DOMAIN t[j] : t[j][k] = t[j][l] => k = l
    BY DEF OnePlace, v
  <2>1. t[j][k] \in Task BY <1>3
  <2>2. v[t[j][k]] = j
    <3>1. CASE j = i /\ k = 1 BY <3>1, <1>6, <2>0
    <3>2. CASE ~(j = i /\ k = 1) BY <3>2, <1>5, <2>0, <2>1 DEF OnePlace
    <3> QED BY <3>1, <3>2
  <2>3. ASSUME NEW l \in DOMAIN t[j], t[j][k] = t[j][l] PROVE k = l
    <3>0. k \in Int /\ l \in Int BY <1>3
    <3>1. CASE j = i /\ (k = 1 \/ l = 1) BY <3>1, <2>3, <1>5, <1>6
    <3>2. CASE ~(j = i /\ (k = 1 \/ l = 1))
      <4>1. StoodAt(i, j, k) = StoodAt(i, j, l) BY <3>2, <2>3, <1>5 DEF OnePlace
      <4> QED BY <4>1, <3>0 DEF StoodAt
    <3> QED BY <3>1, <3>2
  <2> QED BY <2>2, <2>3
<1>9. IsPut(t, ls, where, i, x) BY <1>3, <1>5, <1>6, <1>7, <1>8 DEF IsPut
<1> QED BY <1>9 DEF t

\* Where the loop is after a timer was taken out of the list.
SpotAfter(i, q, cur, p) == IF i = cur /\ q < p THEN p - 1 ELSE p

\* A timer is taken out: the hand comes to the others when it did before.
LEMMA TakenOutTicks ==
  ASSUME NEW ls \in [Slots -> Seq(Task)], NEW where, OnePlace(ls, where),
         NEW i \in Slots, NEW q \in DOMAIN ls[i],
         NEW rot, NEW w, NEW la, NEW cur \in Slots, NEW tick, NEW p \in Nat,
         InTicks(ls, rot, w, la, cur, tick, p)
  PROVE  LET t == TakenFrom(ls, i, q)
         IN  InTicks(t, rot, w, la, cur, tick, SpotAfter(i, q, cur, p))
<1> DEFINE t == TakenFrom(ls, i, q)
           s == SpotAfter(i, q, cur, p)
<1>1. /\ t \in [Slots -> Seq(Task)]
      /\ \A j \in Slots : \A k \in DOMAIN t[j] :
           WasAt(i, q, j, k) \in DOMAIN ls[j] /\ t[j][k] = ls[j][WasAt(i, q, j, k)]
  BY ListsWithout
<1>2. q \in Nat OBVIOUS
<1> HIDE DEF t
<1> SUFFICES ASSUME NEW j \in Slots, NEW k \in DOMAIN t[j]
             PROVE  InTick(Expected(w, t[j][k], la), tick, Away(j, cur, rot[t[j][k]], j = cur /\ k < s))
  BY DEF InTicks, t
<1>3. k \in Nat BY <1>1
<1>4. (j = cur /\ k < s) <=> (j = cur /\ WasAt(i, q, j, k) < p) BY <1>2, <1>3 DEF SpotAfter, WasAt
<1>5. InTick(Expected(w, ls[j][WasAt(i, q, j, k)], la), tick,
             Away(j, cur, rot[ls[j][WasAt(i, q, j, k)]], j = cur /\ WasAt(i, q, j, k) < p))
  BY <1>1 DEF InTicks
<1>6. t[j][k] = ls[j][WasAt(i, q, j, k)] BY <1>1
<1> HIDE DEF s
<1>7. Away(j, cur, rot[t[j][k]], j = cur /\ k < s) = Away(j, cur, rot[ls[j][WasAt(i, q, j, k)]], j = cur /\ WasAt(i, q, j, k) < p)
  BY <1>4, <1>6 DEF Away, TurnsLeft
<1> QED BY <1>5, <1>6, <1>7

\* The loop goes on with the same timer, if it is not the one that was taken out.
LEMMA TakenOutReached ==
  ASSUME NEW ls \in [Slots -> Seq(Task)], NEW where, OnePlace(ls, where),
         NEW i \in Slots, NEW q \in DOMAIN ls[i], NEW cur \in Slots, NEW p \in Nat,
         NEW in, NEW y, y # ls[i][q], NoTask \notin Task, Reached(ls[cur], p, in, y)
  PROVE  LET t == TakenFrom(ls, i, q)
         IN  SpotAfter(i, q, cur, p) \in Nat /\ Reached(t[cur], SpotAfter(i, q, cur, p), in, y)
<1> DEFINE t == TakenFrom(ls, i, q)
           s == SpotAfter(i, q, cur, p)
<1>1. /\ t \in [Slots -> Seq(Task)] /\ Len(t[i]) = Len(ls[i]) - 1
      /\ \A j \in Slots : j # i => t[j] = ls[j]
      /\ \A j \in Slots : \A k \in DOMAIN t[j] :
           WasAt(i, q, j, k) \in DOMAIN ls[j] /\ t[j][k] = ls[j][WasAt(i, q, j, k)]
  BY ListsWithout
<1>2. q \in 1 .. Len(ls[i]) /\ Len(ls[i]) \in Nat OBVIOUS
<1> HIDE DEF t
<1>3. DOMAIN t[i] = 1 .. Len(ls[i]) - 1 BY <1>1
<1>4. s \in Nat BY <1>2 DEF SpotAfter
<1>5. Reached(t[cur], s, in, y)
  <2>1. CASE in = "idle" BY <2>1, <1>2 DEF Reached, SpotAfter
  <2>2. CASE in # "idle" /\ cur # i BY <2>2, <1>1 DEF Reached, SpotAfter
  <2>3. CASE in # "idle" /\ cur = i
    <3>1. IsAt(ls[i], p, y) BY <2>3 DEF Reached
    <3>2. CASE p = Len(ls[i]) + 1 /\ y = NoTask
      <4>1. s = Len(t[i]) + 1 BY <2>3, <3>2, <1>1, <1>2 DEF SpotAfter
      <4> QED BY <2>3, <3>2, <4>1 DEF Reached, IsAt
    <3>3. CASE p \in 1 .. Len(ls[i]) /\ ls[i][p] = y
      <4>1. p # q BY <3>3
      <4>2. s \in 1 .. Len(ls[i]) - 1 /\ (s >= q => s + 1 = p) /\ (s < q => s = p)
        BY <2>3, <3>3, <4>1, <1>2 DEF SpotAfter
      <4>4. WasAt(i, q, i, s) = p BY <4>2, <1>2 DEF WasAt
      <4> HIDE DEF s
      <4>5. t[i][s] = ls[i][WasAt(i, q, i, s)] BY <4>2, <1>1, <1>3
      <4>3. t[i][s] = y BY <4>4, <4>5, <3>3
      <4> QED BY <2>3, <4>2, <4>3, <1>1 DEF Reached, IsAt
    <3> QED BY <3>1, <3>2, <3>3 DEF IsAt
  <2> QED BY <2>1, <2>2, <2>3
<1> QED BY <1>4, <1>5 DEF t

\* hash_list_delete of a waiting timer.
LEMMA DeleteIs ==
  ASSUME WheelTypeOK, OnePlace(slots, slot_idx), NEW i \in Slots, NEW q \in DOMAIN slots[i]
  PROVE  hash_list_delete(slots[i][q]) = TakenFrom(slots, i, q)
<1>1. slot_idx[slots[i][q]] = i BY DEF OnePlace
<1>2. Place(slots[i][q], slots[i]) = q BY PlaceIs DEF OnePlace
<1> QED BY <1>1, <1>2 DEF hash_list_delete, TakenFrom, WheelTypeOK

\* A waiting timer has a place.
LEMMA WaitingPlace ==
  ASSUME NEW x, x \in Waiting
  PROVE  \E i \in Slots : \E q \in DOMAIN slots[i] : slots[i][q] = x
BY DEF Waiting, ToSet

\* How the time of a timer is turned into a slot and a number of turns.
LEMMA SlotOfTime ==
  ASSUME TimerWheelAssumption, NEW cur \in Slots, NEW diff \in Nat
  PROVE  /\ (cur + diff) % size \in Slots /\ Rotations(diff) \in Nat
         /\ Distance((cur + diff) % size, cur) + size * Rotations(diff) = diff
<1>1. size \in Nat \ {0} /\ cur \in 0 .. size - 1 BY DEF TimerWheelAssumption, Slots
<1> DEFINE r == diff % size
           q == diff \div size
           n == cur + diff
           b == n \div size
           e == n % size
<1>2. q \in Nat /\ r \in 0 .. size - 1 /\ diff = size * q + r BY <1>1
<1>3. n \in Nat BY <1>1
<1>4. b \in Nat /\ e \in 0 .. size - 1 /\ n = size * b + e
  <2> HIDE DEF n
  <2> QED BY <1>1, <1>3
<1>5. n = cur + size * q + r BY <1>1, <1>2
<1> HIDE DEF r, q, n, b, e
<1>6. b = q \/ b = q + 1
  <2>1. b < q + 2
    <3>1. CASE b >= q + 2
      <4>1. size * b >= size * (q + 2) BY <1>1, <1>2, <1>4, <3>1
      <4>2. size * (q + 2) = size * q + size + size BY <1>1, <1>2
      <4>3. size * b \in Int /\ size * q \in Int BY <1>1, <1>2, <1>4
      <4> QED BY <1>1, <1>2, <1>4, <1>5, <4>1, <4>2, <4>3
    <3> QED BY <3>1, <1>2, <1>4
  <2>2. b >= q
    <3>1. CASE b + 1 <= q
      <4>1. size * (b + 1) <= size * q BY <1>1, <1>2, <1>4, <3>1
      <4>2. size * (b + 1) = size * b + size BY <1>1, <1>4
      <4>3. size * b \in Int /\ size * q \in Int BY <1>1, <1>2, <1>4
      <4> QED BY <1>1, <1>2, <1>4, <1>5, <4>1, <4>2, <4>3
    <3> QED BY <3>1, <1>2, <1>4
  <2> QED BY <2>1, <2>2, <1>2, <1>4
<1>7. size * q \in Int BY <1>1, <1>2
<1>8. Distance(e, cur) = r
  <2>1. CASE b = q BY <2>1, <1>1, <1>2, <1>4, <1>5, <1>7 DEF Distance
  <2>2. CASE b = q + 1
    <3>1. size * b = size * q + size BY <2>2, <1>1, <1>2
    <3> QED BY <3>1, <1>1, <1>2, <1>4, <1>5, <1>7 DEF Distance
  <2> QED BY <1>6, <2>1, <2>2
<1>9. Distance(e, cur) + size * q = diff BY <1>2, <1>7, <1>8
<1> QED BY <1>2, <1>4, <1>9 DEF Rotations, Slots, q, n, e

\* What InTick says after n more ticks, and of a later time.
LEMMA TickMoves ==
  ASSUME TimerWheelAssumption, NEW t \in Nat, NEW tick \in Nat, NEW n \in Nat
  PROVE  /\ InTick(t, tick, n + 1) => InTick(t, tick + granularity, n)
         /\ InTick(t, tick, n) => InTick(t + size * granularity, tick, n + size)
<1>1. granularity \in Nat /\ size \in Nat BY DEF TimerWheelAssumption
<1>2. granularity * (n + 1) = granularity * n + granularity BY <1>1
<1>3. granularity * (n + size) = granularity * n + size * granularity BY <1>1
<1>4. granularity * n \in Nat /\ size * granularity \in Nat BY <1>1
<1> QED BY <1>1, <1>2, <1>3, <1>4 DEF InTick

\* The slot and the turns that timer_wheel_add computes stand for the tick of the time.
LEMMA TickOfTime ==
  ASSUME TimerWheelAssumption, NEW t \in Nat, NEW tick \in Nat, tick <= t
  PROVE  (t - tick) \div granularity \in Nat /\ InTick(t, tick, (t - tick) \div granularity)
<1>1. granularity \in Nat \ {0} BY DEF TimerWheelAssumption
<1> DEFINE d == t - tick
           n == d \div granularity
           r == d % granularity
<1>2. d \in Nat OBVIOUS
<1>3. n \in Nat /\ r \in 0 .. granularity - 1 /\ d = granularity * n + r
  <2> HIDE DEF d
  <2> QED BY <1>1, <1>2
<1>4. granularity * n \in Int BY <1>1, <1>3
<1>5. t = tick + d OBVIOUS
<1> HIDE DEF d, n, r
<1>6. InTick(t, tick, n) BY <1>1, <1>2, <1>3, <1>4, <1>5 DEF InTick
<1> QED BY <1>3, <1>6 DEF d, n

\* Only what is recorded of the timers in the lists matters.
LEMMA SameTicks ==
  ASSUME NEW ls, NEW rot, NEW w, NEW la, NEW cur, NEW tick, NEW p, NEW w2, NEW la2,
         InTicks(ls, rot, w, la, cur, tick, p),
         \A i \in Slots : \A k \in DOMAIN ls[i] : Expected(w2, ls[i][k], la2) = Expected(w, ls[i][k], la)
  PROVE  InTicks(ls, rot, w2, la2, cur, tick, p)
BY DEF InTicks

\* timer_wheel_add, of the slots: the new timer is in the tick of its time, or,
\* if a callback put it where the loop has been, a turn after that.
LEMMA PutTicks ==
  ASSUME TimerWheelAssumption,
         NEW ls \in [Slots -> Seq(Task)], NEW where \in [Task -> Slots], OnePlace(ls, where),
         NEW rot \in [Task -> Nat], NEW w \in [Task -> Nat], NEW la, NEW cur \in Slots, NEW tick \in Nat, NEW p \in Nat \ {0},
         InTicks(ls, rot, w, la, cur, tick, p),
         NEW x \in Task, Absent(ls, x),
         NEW t \in Nat, NEW n \in Nat, InTick(t, tick, n),
         NEW i, i = (cur + n) % size,
         NEW in \in BOOLEAN, ~in => p = 1,
         NEW rot2, rot2 = [rot EXCEPT ![x] = Rotations(n)],
         NEW w2, w2 = [w EXCEPT ![x] = t],
         NEW la2, la2 = IF in /\ i = cur THEN la \cup {x} ELSE la \ {x},
         NEW p2, p2 = IF in /\ i = cur THEN p + 1 ELSE p
  PROVE  InTicks(PutInto(ls, i, x), rot2, w2, la2, cur, tick, p2)
<1> DEFINE u == PutInto(ls, i, x)
<1>1. /\ i \in Slots /\ Rotations(n) \in Nat
      /\ Distance(i, cur) + size * Rotations(n) = n
  BY SlotOfTime
<1>2. /\ u \in [Slots -> Seq(Task)] /\ u[i][1] = x
      /\ \A j \in Slots : \A k \in DOMAIN u[j] : ~(j = i /\ k = 1) =>
           /\ StoodAt(i, j, k) \in DOMAIN ls[j] /\ u[j][k] = ls[j][StoodAt(i, j, k)] /\ u[j][k] # x
  <2>1. IsPut(u, ls, where, i, x) BY <1>1, ListsWith
  <2> HIDE DEF u
  <2> QED BY <2>1 DEF IsPut
<1> HIDE DEF u
<1>3. size \in Nat /\ granularity \in Nat BY DEF TimerWheelAssumption
<1> SUFFICES ASSUME NEW j \in Slots, NEW k \in DOMAIN u[j]
             PROVE  InTick(Expected(w2, u[j][k], la2), tick, Away(j, cur, rot2[u[j][k]], j = cur /\ k < p2))
  BY DEF InTicks, u
<1>4. k \in Nat \ {0} /\ u[j][k] \in Task
  <2>1. u[j] \in Seq(Task) BY <1>2
  <2> QED BY <2>1, InList
<1>5. CASE j = i /\ k = 1
  <2>1. u[j][k] = x /\ rot2[x] = Rotations(n) /\ w2[x] = t BY <1>5, <1>2
  <2>2. CASE in /\ i = cur
    <3>1. Expected(w2, x, la2) = t + size * granularity BY <2>1, <2>2 DEF Expected
    <3>2. (j = cur /\ k < p2) = TRUE BY <1>5, <2>2
    <3>3. size * (Rotations(n) + 1) = size * Rotations(n) + size BY <1>1, <1>3
    <3>4. Distance(i, cur) \in Int /\ size * Rotations(n) \in Int BY <1>1, <1>3, <2>2 DEF Distance, Slots
    <3>7. Away(i, cur, Rotations(n), TRUE) = Distance(i, cur) + size * (Rotations(n) + 1) BY DEF Away, TurnsLeft
    <3>5. Away(i, cur, Rotations(n), TRUE) = n + size
      <4> DEFINE a == Distance(i, cur)
                 b == size * Rotations(n)
                 c == size * (Rotations(n) + 1)
      <4>1. a + b = n /\ c = b + size /\ a \in Int /\ b \in Int BY <3>3, <3>4, <1>1
      <4> HIDE DEF a, b, c
      <4>2. a + c = n + size BY <4>1, <1>3
      <4> QED BY <4>2, <3>7 DEF a, c
    <3>6. InTick(t + size * granularity, tick, n + size) BY TickMoves
    <3> QED BY <1>5, <2>1, <3>1, <3>2, <3>5, <3>6
  <2>3. CASE ~(in /\ i = cur)
    <3>1. Expected(w2, x, la2) = t BY <2>1, <2>3 DEF Expected
    <3>2. (j = cur /\ k < p2) = FALSE BY <1>5, <2>3
    <3>3. Away(i, cur, Rotations(n), FALSE) = n BY <1>1, <1>3 DEF Away, TurnsLeft
    <3> QED BY <1>5, <2>1, <3>1, <3>2, <3>3
  <2> QED BY <2>2, <2>3
<1>6. CASE ~(j = i /\ k = 1)
  <2> DEFINE s == StoodAt(i, j, k)
             y == ls[j][s]
  <2>1. s \in DOMAIN ls[j] /\ u[j][k] = y /\ y # x
    <3>1. s \in DOMAIN ls[j] /\ u[j][k] = ls[j][s] /\ u[j][k] # x BY <1>6, <1>2
    <3> QED BY <3>1
  <2>2. s \in Nat \ {0}
    <3>1. ls[j] \in Seq(Task) OBVIOUS
    <3> HIDE DEF s
    <3> QED BY <2>1, <3>1, InList
  <2>3. InTick(Expected(w, y, la), tick, Away(j, cur, rot[y], j = cur /\ s < p)) BY <2>1 DEF InTicks
  <2>4. rot2[y] = rot[y] /\ Expected(w2, y, la2) = Expected(w, y, la) BY <2>1, <1>4 DEF Expected
  <2>5. (j = cur /\ s < p) <=> (j = cur /\ k < p2)
    <3>1. s = IF j = i THEN k - 1 ELSE k BY DEF StoodAt
    <3> HIDE DEF s
    <3> QED BY <3>1, <2>2, <1>4
  <2> HIDE DEF s
  <2>6. Away(j, cur, rot[y], j = cur /\ s < p) = Away(j, cur, rot[y], j = cur /\ k < p2)
    BY <2>5 DEF Away, TurnsLeft
  <2> QED BY <2>1, <2>3, <2>4, <2>6
<1> QED BY <1>5, <1>6

\* The loop goes on with the same timer.
LEMMA PutReached ==
  ASSUME NEW ls \in [Slots -> Seq(Task)], NEW where \in [Task -> Slots], OnePlace(ls, where),
         NEW i \in Slots, NEW cur \in Slots, NEW p \in Nat,
         NEW x \in Task, Absent(ls, x),
         NEW in, NEW y, Reached(ls[cur], p, in, y), in \in {"idle", "callback"}
  PROVE  Reached(PutInto(ls, i, x)[cur], IF in = "callback" /\ i = cur THEN p + 1 ELSE p, in, y)
<1> DEFINE u == PutInto(ls, i, x)
<1>1. /\ u \in [Slots -> Seq(Task)] /\ Len(u[i]) = Len(ls[i]) + 1
      /\ \A j \in Slots : j # i => u[j] = ls[j]
      /\ \A k \in DOMAIN ls[i] : u[i][k + 1] = ls[i][k]
  <2>1. IsPut(u, ls, where, i, x) BY ListsWith
  <2> HIDE DEF u
  <2> QED BY <2>1 DEF IsPut
<1> HIDE DEF u
<1>2. Len(ls[i]) \in Nat /\ DOMAIN ls[i] = 1 .. Len(ls[i]) OBVIOUS
<1>3. CASE in = "idle" BY <1>3 DEF Reached
<1>4. CASE in = "callback" /\ i # cur BY <1>4, <1>1 DEF Reached, u
<1>5. CASE in = "callback" /\ i = cur
  <2>1. IsAt(ls[i], p, y) BY <1>5 DEF Reached
  <2>2. IsAt(u[i], p + 1, y)
    <3>1. CASE p = Len(ls[i]) + 1 /\ y = NoTask BY <3>1, <1>1, <1>2 DEF IsAt
    <3>2. CASE p \in 1 .. Len(ls[i]) /\ ls[i][p] = y
      <4>1. u[i][p + 1] = y BY <3>2, <1>1, <1>2
      <4>2. p + 1 \in 1 .. Len(u[i]) BY <3>2, <1>1, <1>2
      <4> QED BY <4>1, <4>2 DEF IsAt
    <3> QED BY <2>1, <3>1, <3>2 DEF IsAt
  <2> QED BY <2>2, <1>5 DEF Reached, u
<1> QED BY <1>3, <1>4, <1>5

\* The hand moves on, to the next slot in the next tick.
LEMMA HandMoves ==
  ASSUME TimerWheelAssumption, NEW ls \in [Slots -> Seq(Task)], NEW rot \in [Task -> Nat],
         NEW w \in [Task -> Nat], NEW la, NEW cur \in Slots, NEW tick \in Nat,
         InTicks(ls, rot, w, la, cur, tick, Len(ls[cur]) + 1)
  PROVE  InTicks(ls, rot, w, la, Inc(cur), tick + granularity, 1)
<1>1. size \in Nat \ {0} /\ granularity \in Nat /\ cur \in 0 .. size - 1 BY DEF TimerWheelAssumption, Slots
<1> SUFFICES ASSUME NEW i \in Slots, NEW k \in DOMAIN ls[i]
             PROVE  InTick(Expected(w, ls[i][k], la), tick + granularity,
                           Away(i, Inc(cur), rot[ls[i][k]], i = Inc(cur) /\ k < 1))
  BY DEF InTicks
<1> DEFINE x == ls[i][k]
           r == rot[x]
           e == Expected(w, x, la)
           n == Distance(i, Inc(cur)) + size * r
<1>2. x \in Task /\ k \in 1 .. Len(ls[i]) /\ Len(ls[i]) \in Nat OBVIOUS
<1>3. r \in Nat /\ e \in Nat
  <2>1. r \in Nat /\ w[x] \in Nat BY <1>2
  <2>2. size * granularity \in Nat BY <1>1
  <2> QED BY <2>1, <2>2 DEF Expected
<1>4. i \in 0 .. size - 1 BY DEF Slots
<1>5. InTick(e, tick, Away(i, cur, r, i = cur /\ k < Len(ls[cur]) + 1)) BY DEF InTicks
<1> HIDE DEF x, r, e
<1>6. size * r \in Nat /\ size * (r + 1) = size * r + size BY <1>1, <1>3
<1>7. Distance(i, Inc(cur)) \in 0 .. size - 1 BY <1>1, <1>4 DEF Distance, Inc
<1>8. n \in Nat BY <1>6, <1>7
<1>9. Away(i, cur, r, i = cur /\ k < Len(ls[cur]) + 1) = n + 1
  <2>1. CASE i = cur
    <3>2. Distance(i, Inc(cur)) = size - 1 BY <2>1, <1>1 DEF Distance, Inc
    <3>3. i = cur /\ k < Len(ls[cur]) + 1 BY <2>1, <1>2
    <3>1. Away(i, cur, r, i = cur /\ k < Len(ls[cur]) + 1) = size * r + size
      BY <3>3, <1>1, <1>6 DEF Away, TurnsLeft, Distance
    <3> QED BY <3>1, <3>2, <3>3, <1>1, <1>6
  <2>2. CASE i # cur
    <3>1. Away(i, cur, r, i = cur /\ k < Len(ls[cur]) + 1) = Distance(i, cur) + size * r
      BY <2>2, <1>3 DEF Away, TurnsLeft
    <3>2. Distance(i, cur) = Distance(i, Inc(cur)) + 1 BY <2>2, <1>1, <1>4 DEF Distance, Inc
    <3> QED BY <3>1, <3>2, <1>6, <1>7
  <2> QED BY <2>1, <2>2
<1>10. Away(i, Inc(cur), r, i = Inc(cur) /\ k < 1) = n BY <1>2, <1>3 DEF Away, TurnsLeft
<1> HIDE DEF n
<1>11. InTick(e, tick + granularity, n) BY <1>3, <1>5, <1>8, <1>9, TickMoves
<1> QED BY <1>10, <1>11 DEF x, r, e

-----------------------------------------------------------------------------
\* The head of a slot's list is at position 1.
LEMMA FirstIsAt ==
  ASSUME NEW i \in Slots, slots \in [Slots -> Seq(Task)]
  PROVE  IsAt(slots[i], 1, First(i))
<1> DEFINE s == slots[i]
<1>1. s \in Seq(Task) /\ Len(s) \in Nat OBVIOUS
<1>2. First(i) = IF s = << >> THEN NoTask ELSE Head(s) BY DEF First
<1> HIDE DEF s
<1>3. CASE s = << >> BY <1>2, <1>3 DEF IsAt, s
<1>4. CASE s # << >>
  <2>1. Head(s) = s[1] /\ 1 \in 1 .. Len(s) BY <1>1, <1>4
  <2> QED BY <2>1, <1>2, <1>4 DEF IsAt, s
<1> QED BY <1>3, <1>4

\* The timer at hand is at the position that the loop has come to.
LEMMA NodeIsAt ==
  ASSUME TimerWheelAssumption, WheelTypeOK, OnePlace(slots, slot_idx), InSlot,
         NEW p \in Nat, Reached(slots[curslot], p, walk, Upcoming)
  PROVE  /\ p \in DOMAIN slots[curslot] /\ slots[curslot][p] = node /\ node \in Task
         /\ Place(node, slots[curslot]) = p
<1>1. slots[curslot] \in Seq(Task) /\ curslot \in Slots BY DEF WheelTypeOK
<1>2. IsAt(slots[curslot], p, node) BY DEF InSlot, Reached, Upcoming
<1>3. p \in 1 .. Len(slots[curslot]) /\ slots[curslot][p] = node BY <1>2 DEF IsAt, InSlot
<1>4. p \in DOMAIN slots[curslot] BY <1>1, <1>3
<1>5. Place(slots[curslot][p], slots[curslot]) = p BY <1>1, <1>4, PlaceIs DEF OnePlace
<1> QED BY <1>1, <1>3, <1>4, <1>5, InList

\* timer_wheel_init.
LEMMA WheelInitInv == ASSUME TimerWheelAssumption, timer_wheel_init PROVE WheelInv
<1>1. size \in Nat \ {0} /\ start \in Nat BY DEF TimerWheelAssumption
<1>2. 0 \in Slots /\ << >> \in Seq(Task) BY <1>1 DEF Slots
<1>3. WheelTypeOK BY <1>1, <1>2 DEF timer_wheel_init, WheelTypeOK
<1>4. \A i \in Slots : DOMAIN slots[i] = {} BY DEF timer_wheel_init
<1>5. OnePlace(slots, slot_idx) BY <1>4 DEF OnePlace
<1>6. Reached(slots[curslot], 1, walk, Upcoming) BY DEF timer_wheel_init, Reached
<1>7. InTicks(slots, rotation_count, wanted, late, curslot, next_tick, 1) BY <1>4 DEF InTicks
<1> QED BY <1>3, <1>5, <1>6, <1>7 DEF WheelInv

\* timer_wheel_process enters the loop over the current slot.
LEMMA ProcessInv ==
  ASSUME TimerWheelAssumption, WheelInv, NEW t \in Moment, timer_wheel_process(t)
  PROVE  WheelInv'
<1> USE DEF timer_wheel_process, lists
<1>1. WheelTypeOK' BY DEF WheelInv, WheelTypeOK
<1>2. OnePlace(slots, slot_idx)' BY DEF WheelInv, OnePlace
<1>3. InTicks(slots, rotation_count, wanted, late, curslot, next_tick, 1)
  BY DEF WheelInv, Reached
<1>4. InTicks(slots, rotation_count, wanted, late, curslot, next_tick, 1)' BY <1>3
<1>5. IsAt(slots[curslot], 1, First(curslot)) BY FirstIsAt DEF WheelInv, WheelTypeOK
<1>6. Reached(slots'[curslot'], 1, walk', Upcoming')
  <2>1. Upcoming' = First(curslot) BY DEF Upcoming
  <2> QED BY <1>5, <2>1 DEF Reached
<1> QED BY <1>1, <1>2, <1>4, <1>6 DEF WheelInv

\* A timer that has a turn left is passed.
LEMMA CountInv ==
  ASSUME TimerWheelAssumption, WheelInv, Count
  PROVE  WheelInv'
<1> PICK p \in Nat : /\ Reached(slots[curslot], p, walk, Upcoming)
                     /\ InTicks(slots, rotation_count, wanted, late, curslot, next_tick, p)
  BY DEF WheelInv
<1>0. WheelTypeOK /\ OnePlace(slots, slot_idx) /\ InSlot BY DEF WheelInv, Count
<1> DEFINE list == slots[curslot]
<1>1. p \in DOMAIN list /\ list[p] = node /\ node \in Task /\ Place(node, list) = p BY <1>0, NodeIsAt
<1>2. list \in Seq(Task) /\ curslot \in Slots BY <1>0 DEF WheelTypeOK
<1>3. p \in 1 .. Len(list) /\ Len(list) \in Nat BY <1>1, <1>2, InList
<1>4. /\ UNCHANGED <<slots, slot_idx, wanted, late, curslot, next_tick, walk, tmp>>
      /\ rotation_count[node] \in Nat \ {0} /\ rotation_count \in [Task -> Nat]
      /\ rotation_count' = [rotation_count EXCEPT ![node] = @ - 1]
  BY <1>0, <1>1 DEF Count, hand, WheelTypeOK
<1>5. WheelTypeOK' BY <1>0, <1>1, <1>4 DEF WheelTypeOK
<1>6. OnePlace(slots, slot_idx)' BY <1>0, <1>4 DEF OnePlace
<1>7. Reached(slots[curslot], p + 1, walk, Upcoming)'
  <2>1. node' = IF p = Len(list) THEN NoTask ELSE list[p + 1] BY <1>1 DEF Count, After
  <2>2. IsAt(list, p + 1, node') BY <2>1, <1>3 DEF IsAt
  <2>3. Upcoming' = node' BY <1>0, <1>4 DEF Upcoming, InSlot
  <2> QED BY <2>2, <2>3, <1>0, <1>4 DEF Reached, InSlot
<1>8. InTicks(slots, rotation_count', wanted, late, curslot, next_tick, p + 1)
  <2> SUFFICES ASSUME NEW j \in Slots, NEW k \in DOMAIN slots[j]
               PROVE  InTick(Expected(wanted, slots[j][k], late), next_tick,
                             Away(j, curslot, rotation_count'[slots[j][k]], j = curslot /\ k < p + 1))
    BY DEF InTicks
  <2> DEFINE x == slots[j][k]
  <2>1. slots[j] \in Seq(Task) BY <1>0 DEF WheelTypeOK
  <2>2. k \in Nat /\ x \in Task BY <2>1, InList
  <2>3. InTick(Expected(wanted, x, late), next_tick, Away(j, curslot, rotation_count[x], j = curslot /\ k < p))
    BY DEF InTicks
  <2>4. (x = node) <=> (j = curslot /\ k = p) BY <1>0, <1>1, <1>2 DEF OnePlace
  <2> HIDE DEF x, list
  <2>5. TurnsLeft(rotation_count'[x], j = curslot /\ k < p + 1) = TurnsLeft(rotation_count[x], j = curslot /\ k < p)
    <3>1. CASE x = node BY <3>1, <2>4, <1>1, <1>3, <1>4 DEF TurnsLeft
    <3>2. CASE x # node
      <4>1. rotation_count'[x] = rotation_count[x] BY <3>2, <2>2, <1>4
      <4>2. (j = curslot /\ k < p + 1) <=> (j = curslot /\ k < p) BY <3>2, <2>2, <2>4, <1>3
      <4> QED BY <4>1, <4>2 DEF TurnsLeft
    <3> QED BY <3>1, <3>2
  <2> QED BY <2>3, <2>5 DEF Away, x
<1>9. InTicks(slots, rotation_count, wanted, late, curslot, next_tick, p + 1)' BY <1>4, <1>8
<1> QED BY <1>5, <1>6, <1>7, <1>9 DEF WheelInv

\* The timer at q of list i is in none of the lists without it.
LEMMA TakenIsAbsent ==
  ASSUME NEW ls \in [Slots -> Seq(Task)], NEW where, OnePlace(ls, where),
         NEW i \in Slots, NEW q \in DOMAIN ls[i]
  PROVE  Absent(TakenFrom(ls, i, q), ls[i][q]) /\ TakenFrom(ls, i, q) \in [Slots -> Seq(Task)]
<1> DEFINE t == TakenFrom(ls, i, q)
<1>1. /\ t \in [Slots -> Seq(Task)]
      /\ \A j \in Slots : \A k \in DOMAIN t[j] : t[j][k] # ls[i][q]
  BY ListsWithout
<1> HIDE DEF t
<1>2. Absent(t, ls[i][q]) BY <1>1 DEF Absent
<1> QED BY <1>1, <1>2 DEF t

\* TakeOut, from a position.
LEMMA TakeOutInv ==
  ASSUME WheelTypeOK, OnePlace(slots, slot_idx), NEW p \in Nat,
         InTicks(slots, rotation_count, wanted, late, curslot, next_tick, p),
         NEW i \in Slots, NEW q \in DOMAIN slots[i], TakeOut(slots[i][q])
  PROVE  /\ slots' = TakenFrom(slots, i, q) /\ slots' \in [Slots -> Seq(Task)]
         /\ wanted' \in [Task -> Nat] /\ late' \subseteq Task
         /\ OnePlace(slots', slot_idx)
         /\ InTicks(slots', rotation_count, wanted', late', curslot, next_tick, SpotAfter(i, q, curslot, p))
<1> DEFINE x == slots[i][q]
           t == TakenFrom(slots, i, q)
<1>1. slots \in [Slots -> Seq(Task)] /\ wanted \in [Task -> Nat] /\ curslot \in Slots /\ late \subseteq Task
  BY DEF WheelTypeOK
<1>2. slots' = t BY DeleteIs DEF TakeOut
<1>3. t \in [Slots -> Seq(Task)] /\ OnePlace(t, slot_idx) BY <1>1, ListsWithout
<1>4. Absent(t, x) BY <1>1, TakenIsAbsent
<1>5. InTicks(t, rotation_count, wanted, late, curslot, next_tick, SpotAfter(i, q, curslot, p)) BY <1>1, TakenOutTicks
<1>6. wanted' = [wanted EXCEPT ![x] = 0] /\ late' = late \ {x} BY DEF TakeOut
<1>7. wanted' \in [Task -> Nat] /\ late' \subseteq Task BY <1>1, <1>6
<1> HIDE DEF x, t
<1>8. \A j \in Slots : \A k \in DOMAIN t[j] : Expected(wanted', t[j][k], late') = Expected(wanted, t[j][k], late)
  <2> TAKE j \in Slots
  <2> TAKE k \in DOMAIN t[j]
  <2>1. t[j][k] # x BY <1>4 DEF Absent
  <2>2. t[j][k] \in Task BY <1>3, InList
  <2> QED BY <2>1, <2>2, <1>1, <1>6 DEF Expected
<1>9. InTicks(t, rotation_count, wanted', late', curslot, next_tick, SpotAfter(i, q, curslot, p))
  <2> DEFINE s == SpotAfter(i, q, curslot, p)
  <2>1. InTicks(t, rotation_count, wanted, late, curslot, next_tick, s) BY <1>5
  <2> HIDE DEF s
  <2>2. InTicks(t, rotation_count, wanted', late', curslot, next_tick, s) BY <2>1, <1>8, SameTicks
  <2> QED BY <2>2 DEF s
<1> QED BY <1>2, <1>3, <1>7, <1>9 DEF t

\* An expired timer leaves its slot.
LEMMA FireInv ==
  ASSUME TimerWheelAssumption, WheelInv, Fire
  PROVE  WheelInv'
<1> PICK p \in Nat : /\ Reached(slots[curslot], p, walk, Upcoming)
                     /\ InTicks(slots, rotation_count, wanted, late, curslot, next_tick, p)
  BY DEF WheelInv
<1>0. WheelTypeOK /\ OnePlace(slots, slot_idx) /\ InSlot BY DEF WheelInv, Fire
<1> DEFINE list == slots[curslot]
<1>1. p \in DOMAIN list /\ list[p] = node /\ node \in Task /\ Place(node, list) = p BY <1>0, NodeIsAt
<1>2. list \in Seq(Task) /\ curslot \in Slots /\ slots \in [Slots -> Seq(Task)] BY <1>0 DEF WheelTypeOK
<1>3. p \in 1 .. Len(list) /\ Len(list) \in Nat BY <1>1, <1>2, InList
<1>4. TakeOut(slots[curslot][p]) BY <1>1 DEF Fire
<1>5. /\ slots' = TakenFrom(slots, curslot, p) /\ slots' \in [Slots -> Seq(Task)]
      /\ wanted' \in [Task -> Nat] /\ late' \subseteq Task
      /\ OnePlace(slots', slot_idx)
      /\ InTicks(slots', rotation_count, wanted', late', curslot, next_tick, SpotAfter(curslot, p, curslot, p))
  BY <1>0, <1>1, <1>2, <1>4, TakeOutInv
<1>6. UNCHANGED <<rotation_count, slot_idx, curslot, next_tick>> /\ walk' = "callback" BY DEF Fire, TakeOut, hand
<1>7. tmp' = IF p = Len(list) THEN NoTask ELSE list[p + 1] BY <1>1 DEF Fire, After
<1>8. tmp' \in Task \cup {NoTask}
  <2>1. p # Len(list) => p + 1 \in DOMAIN list BY <1>2, <1>3
  <2> QED BY <1>2, <1>7, <2>1, InList
<1>9. WheelTypeOK' BY <1>0, <1>5, <1>6, <1>8 DEF WheelTypeOK
<1>10. SpotAfter(curslot, p, curslot, p) = p BY DEF SpotAfter
<1>11. InTicks(slots, rotation_count, wanted, late, curslot, next_tick, p)' BY <1>5, <1>6, <1>10
<1>12. Reached(slots[curslot], p, walk, Upcoming)'
  <2> DEFINE u == slots'[curslot]
  <2>1. u = RemoveAt(list, p) BY <1>2, <1>5 DEF TakenFrom
  <2> HIDE DEF u, list
  <2>2. /\ u \in Seq(Task) /\ Len(u) = Len(list) - 1
        /\ \A j \in 1 .. Len(list) - 1 : u[j] = IF j < p THEN list[j] ELSE list[j + 1]
    BY <2>1, <1>2, <1>3, RemoveAtProperties
  <2>3. IsAt(u, p, tmp') BY <2>2, <1>3, <1>7 DEF IsAt
  <2>4. Upcoming' = tmp' BY <1>6 DEF Upcoming
  <2> QED BY <2>3, <2>4, <1>6 DEF Reached, u
<1> QED BY <1>5, <1>6, <1>9, <1>11, <1>12 DEF WheelInv

\* The callback returns to the loop.
LEMMA FnReturnsInv ==
  ASSUME TimerWheelAssumption, WheelInv, FnReturns
  PROVE  WheelInv'
<1> PICK p \in Nat : /\ Reached(slots[curslot], p, walk, Upcoming)
                     /\ InTicks(slots, rotation_count, wanted, late, curslot, next_tick, p)
  BY DEF WheelInv
<1>1. /\ UNCHANGED <<slots, rotation_count, slot_idx, wanted, late, curslot, next_tick>>
      /\ walk = "callback" /\ walk' = "slot" /\ node' = tmp /\ tmp' = NoTask
  BY DEF FnReturns, lists, hand
<1>2. WheelTypeOK' BY <1>1 DEF WheelInv, WheelTypeOK
<1>3. OnePlace(slots, slot_idx)' BY <1>1 DEF WheelInv
<1>4. InTicks(slots, rotation_count, wanted, late, curslot, next_tick, p)' BY <1>1
<1>5. Upcoming = tmp /\ Upcoming' = tmp BY <1>1 DEF Upcoming
<1>6. Reached(slots[curslot], p, walk, Upcoming)' BY <1>1, <1>5 DEF Reached
<1> QED BY <1>2, <1>3, <1>4, <1>6 DEF WheelInv

\* The end of the slot: the hand moves on.
LEMMA NextSlotInv ==
  ASSUME TimerWheelAssumption, WheelInv, NextSlot
  PROVE  WheelInv'
<1> PICK p \in Nat : /\ Reached(slots[curslot], p, walk, Upcoming)
                     /\ InTicks(slots, rotation_count, wanted, late, curslot, next_tick, p)
  BY DEF WheelInv
<1>0. WheelTypeOK BY DEF WheelInv
<1>1. /\ UNCHANGED <<slots, rotation_count, slot_idx, wanted, late, tmp>>
      /\ walk = "slot" /\ node = NoTask
      /\ next_tick' = next_tick + granularity /\ curslot' = Inc(curslot)
      /\ \/ walk' = "slot" /\ node' = First(curslot')
         \/ walk' = "idle" /\ node' = NoTask
  BY DEF NextSlot, lists
<1>2. size \in Nat \ {0} /\ granularity \in Nat /\ NoTask \notin Task BY DEF TimerWheelAssumption
<1>3. slots \in [Slots -> Seq(Task)] /\ curslot \in Slots /\ slots[curslot] \in Seq(Task) /\ next_tick \in Nat
  BY <1>0 DEF WheelTypeOK
<1>4. p = Len(slots[curslot]) + 1
  <2>1. IsAt(slots[curslot], p, NoTask) BY <1>1 DEF Reached, Upcoming
  <2>2. p \in 1 .. Len(slots[curslot]) => slots[curslot][p] \in Task BY <1>3
  <2> QED BY <2>1, <2>2, <1>2 DEF IsAt
<1>5. curslot' \in Slots BY <1>1, <1>2, <1>3 DEF Inc, Slots
<1>6. WheelTypeOK' BY <1>0, <1>1, <1>2, <1>5 DEF WheelTypeOK
<1>7. OnePlace(slots, slot_idx)' BY <1>1 DEF WheelInv
<1>8. InTicks(slots, rotation_count, wanted, late, Inc(curslot), next_tick + granularity, 1)
  <2>1. InTicks(slots, rotation_count, wanted, late, curslot, next_tick, Len(slots[curslot]) + 1) BY <1>4
  <2> QED BY <1>0, <2>1, HandMoves DEF WheelTypeOK
<1>9. InTicks(slots, rotation_count, wanted, late, curslot, next_tick, 1)' BY <1>1, <1>8
<1>10. Reached(slots[curslot], 1, walk, Upcoming)'
  <2>1. CASE walk' = "idle" BY <2>1 DEF Reached
  <2>2. CASE walk' = "slot" /\ node' = First(curslot')
    <3>1. First(curslot') = First(Inc(curslot)) BY <1>1
    <3>2. IsAt(slots[curslot'], 1, First(curslot')) BY <1>3, <1>5, FirstIsAt
    <3>3. node' = First(curslot') /\ Upcoming' = node' BY <2>2 DEF Upcoming
    <3> QED BY <3>2, <3>3, <2>2, <1>1 DEF Reached
  <2> QED BY <2>1, <2>2, <1>1
<1> QED BY <1>6, <1>7, <1>9, <1>10 DEF WheelInv

\* timer_wheel_remove.
LEMMA RemoveInv ==
  ASSUME TimerWheelAssumption, WheelInv, NEW x \in Task, timer_wheel_remove(x)
  PROVE  WheelInv'
<1> PICK p \in Nat : /\ Reached(slots[curslot], p, walk, Upcoming)
                     /\ InTicks(slots, rotation_count, wanted, late, curslot, next_tick, p)
  BY DEF WheelInv
<1>0. WheelTypeOK /\ OnePlace(slots, slot_idx) BY DEF WheelInv
<1>1. x \in Waiting /\ x # tmp /\ walk # "slot" BY DEF timer_wheel_remove, Removable, MayCall
<1>2. PICK i \in Slots : \E q \in DOMAIN slots[i] : slots[i][q] = x BY <1>1, WaitingPlace
<1>3. PICK q \in DOMAIN slots[i] : slots[i][q] = x BY <1>2
<1>4. TakeOut(slots[i][q]) BY <1>3 DEF timer_wheel_remove
<1>5. /\ slots' = TakenFrom(slots, i, q) /\ slots' \in [Slots -> Seq(Task)]
      /\ wanted' \in [Task -> Nat] /\ late' \subseteq Task
      /\ OnePlace(slots', slot_idx)
      /\ InTicks(slots', rotation_count, wanted', late', curslot, next_tick, SpotAfter(i, q, curslot, p))
  BY <1>0, <1>4, TakeOutInv
<1>6. UNCHANGED <<rotation_count, slot_idx, curslot, next_tick, walk, node, tmp>>
  BY DEF timer_wheel_remove, TakeOut, hand
<1>7. WheelTypeOK' BY <1>0, <1>5, <1>6 DEF WheelTypeOK
<1>8. Upcoming = tmp /\ Upcoming' = tmp BY <1>1, <1>6 DEF Upcoming
<1>9. /\ SpotAfter(i, q, curslot, p) \in Nat
      /\ Reached(TakenFrom(slots, i, q)[curslot], SpotAfter(i, q, curslot, p), walk, tmp)
  <2>1. Reached(slots[curslot], p, walk, tmp) BY <1>8
  <2>2. NoTask \notin Task /\ tmp # slots[i][q] BY <1>1, <1>3 DEF TimerWheelAssumption
  <2> QED BY <1>0, <2>1, <2>2, TakenOutReached DEF WheelTypeOK
<1> QED BY <1>5, <1>6, <1>7, <1>8, <1>9 DEF WheelInv

\* Schedule, into lists that do not hold the timer.
LEMMA ScheduleInv ==
  ASSUME TimerWheelAssumption, WheelTypeOK, MayCall, NEW x \in Task, NEW t \in Moment,
         NEW ls \in [Slots -> Seq(Task)], OnePlace(ls, slot_idx), Absent(ls, x),
         NEW p \in Nat, Reached(ls[curslot], p, walk, tmp),
         InTicks(ls, rotation_count, wanted, late, curslot, next_tick, p),
         Schedule(x, t, ls)
  PROVE  WheelInv'
<1> DEFINE time == IF t < next_tick THEN next_tick ELSE t
           n == SlotsAway(t)
           i == (curslot + n) % size
           p2 == IF walk = "callback" /\ i = curslot THEN p + 1 ELSE p
<1>1. /\ rotation_count \in [Task -> Nat] /\ slot_idx \in [Task -> Slots] /\ wanted \in [Task -> Nat]
      /\ late \subseteq Task /\ curslot \in Slots /\ next_tick \in Nat
  BY DEF WheelTypeOK
<1>2. t \in Nat /\ time \in Nat BY <1>1 DEF TimerWheelAssumption, Moment
<1>3. n \in Nat /\ InTick(time, next_tick, n)
  <2>1. CASE t < next_tick
    <3>1. n = 0 /\ time = next_tick BY <2>1 DEF SlotsAway
    <3>2. granularity \in Nat \ {0} BY DEF TimerWheelAssumption
    <3>3. granularity * 0 = 0 BY <3>2
    <3>4. InTick(next_tick, next_tick, 0) BY <1>1, <3>2, <3>3 DEF InTick
    <3> QED BY <3>1, <3>4
  <2>2. CASE ~(t < next_tick)
    <3>1. n = (t - next_tick) \div granularity /\ time = t BY <2>2 DEF SlotsAway
    <3>2. next_tick <= t BY <2>2, <1>1, <1>2
    <3> QED BY <1>1, <1>2, <3>1, <3>2, TickOfTime
  <2> QED BY <2>1, <2>2
<1>4. /\ slot_idx' = [slot_idx EXCEPT ![x] = i]
      /\ rotation_count' = [rotation_count EXCEPT ![x] = Rotations(n)]
      /\ slots' = PutInto(ls, i, x)
      /\ wanted' = [wanted EXCEPT ![x] = time]
      /\ late' = IF walk = "callback" /\ i = curslot THEN late \cup {x} ELSE late \ {x}
      /\ UNCHANGED <<curslot, next_tick, walk, node, tmp>>
  BY DEF Schedule, PutInto, hand
<1> HIDE DEF time, n
<1>5. i \in Slots /\ Rotations(n) \in Nat BY <1>1, <1>3, SlotOfTime
<1>6. i = (curslot + n) % size OBVIOUS
<1> HIDE DEF i
<1>7. slots' \in [Slots -> Seq(Task)] /\ OnePlace(slots', slot_idx')
  <2>1. IsPut(PutInto(ls, i, x), ls, slot_idx, i, x) BY <1>1, <1>5, ListsWith
  <2> QED BY <2>1, <1>4 DEF IsPut
<1>8. WheelTypeOK' BY <1>1, <1>2, <1>4, <1>5, <1>7 DEF WheelTypeOK
<1>9. walk \in {"idle", "callback"} BY DEF MayCall
<1>10. Upcoming' = tmp BY <1>4, <1>9 DEF Upcoming
<1>11. Reached(slots'[curslot'], p2, walk', Upcoming')
  <2>1. Reached(PutInto(ls, i, x)[curslot], p2, walk, tmp) BY <1>1, <1>5, <1>9, PutReached
  <2> QED BY <2>1, <1>4, <1>10
<1>12. p2 \in Nat /\ p \in Nat \ {0}
  <2>1. Len(ls[curslot]) \in Nat BY <1>1
  <2> QED BY <2>1 DEF Reached, IsAt
<1>13. InTicks(slots', rotation_count', wanted', late', curslot', next_tick', p2)
  <2> DEFINE in == walk = "callback"
  <2>1. in \in BOOLEAN /\ (~in => p = 1) BY <1>9 DEF Reached
  <2>2. p2 = IF in /\ i = curslot THEN p + 1 ELSE p OBVIOUS
  <2>3. late' = IF in /\ i = curslot THEN late \cup {x} ELSE late \ {x} BY <1>4
  <2> HIDE DEF in, p2
  <2>4. InTicks(PutInto(ls, i, x), rotation_count', wanted', late', curslot, next_tick, p2)
    BY <1>1, <1>2, <1>3, <1>4, <1>6, <1>12, <2>1, <2>2, <2>3, PutTicks
  <2> QED BY <2>4, <1>4
<1> QED BY <1>7, <1>8, <1>11, <1>12, <1>13 DEF WheelInv

\* timer_wheel_add.
LEMMA AddInv ==
  ASSUME TimerWheelAssumption, WheelInv, NEW x \in Task, NEW t \in Moment, timer_wheel_add(x, t)
  PROVE  WheelInv'
<1> PICK p \in Nat : /\ Reached(slots[curslot], p, walk, Upcoming)
                     /\ InTicks(slots, rotation_count, wanted, late, curslot, next_tick, p)
  BY DEF WheelInv
<1>1. MayCall /\ x \notin Waiting /\ Schedule(x, t, slots) BY DEF timer_wheel_add
<1>2. Upcoming = tmp BY <1>1 DEF Upcoming, MayCall
<1>3. Absent(slots, x) BY <1>1 DEF Absent, Waiting, ToSet
<1> QED BY <1>1, <1>2, <1>3, ScheduleInv DEF WheelInv, WheelTypeOK

\* timer_wheel_modify.
LEMMA ModifyInv ==
  ASSUME TimerWheelAssumption, WheelInv, NEW x \in Task, NEW t \in Moment, timer_wheel_modify(x, t)
  PROVE  WheelInv'
<1> PICK p \in Nat : /\ Reached(slots[curslot], p, walk, Upcoming)
                     /\ InTicks(slots, rotation_count, wanted, late, curslot, next_tick, p)
  BY DEF WheelInv
<1>0. WheelTypeOK /\ OnePlace(slots, slot_idx) BY DEF WheelInv
<1>1. MayCall /\ x \in Waiting /\ x # tmp /\ Schedule(x, t, hash_list_delete(x))
  BY DEF timer_wheel_modify, Removable
<1>2. PICK i \in Slots : \E q \in DOMAIN slots[i] : slots[i][q] = x BY <1>1, WaitingPlace
<1>3. PICK q \in DOMAIN slots[i] : slots[i][q] = x BY <1>2
<1> DEFINE ls == TakenFrom(slots, i, q)
           s == SpotAfter(i, q, curslot, p)
<1>4. hash_list_delete(x) = ls BY <1>0, <1>3, DeleteIs
<1>5. slots \in [Slots -> Seq(Task)] /\ curslot \in Slots BY <1>0 DEF WheelTypeOK
<1>6. ls \in [Slots -> Seq(Task)] /\ Absent(ls, x) BY <1>0, <1>3, <1>5, TakenIsAbsent
<1>7. OnePlace(ls, slot_idx) BY <1>0, <1>5, ListsWithout
<1>8. InTicks(ls, rotation_count, wanted, late, curslot, next_tick, s) BY <1>0, <1>5, TakenOutTicks
<1>9. s \in Nat /\ Reached(ls[curslot], s, walk, tmp)
  <2>1. Reached(slots[curslot], p, walk, tmp) BY <1>1 DEF Upcoming, MayCall
  <2>2. NoTask \notin Task /\ tmp # slots[i][q] BY <1>1, <1>3 DEF TimerWheelAssumption
  <2> QED BY <1>0, <1>5, <2>1, <2>2, TakenOutReached
<1>10. Schedule(x, t, ls) BY <1>1, <1>4
<1> HIDE DEF ls, s
<1> QED BY <1>0, <1>1, <1>6, <1>7, <1>8, <1>9, <1>10, ScheduleInv

\* Every step keeps the invariant.
LEMMA WheelNextInv == ASSUME TimerWheelAssumption, WheelInv, [WheelNext]_wheelVars PROVE WheelInv'
<1>1. CASE WheelProcess BY <1>1, CountInv, FireInv, FnReturnsInv, NextSlotInv DEF WheelProcess
<1>2. ASSUME NEW t \in Moment, timer_wheel_process(t) PROVE WheelInv' BY <1>2, ProcessInv
<1>3. ASSUME NEW x \in Task, timer_wheel_remove(x) PROVE WheelInv' BY <1>3, RemoveInv
<1>4. ASSUME NEW x \in Task, NEW t \in Moment, timer_wheel_add(x, t) \/ timer_wheel_modify(x, t) PROVE WheelInv'
  BY <1>4, AddInv, ModifyInv
<1>5. CASE UNCHANGED wheelVars
  <2>1. UNCHANGED <<slots, rotation_count, slot_idx, wanted, late, curslot, next_tick, walk, node, tmp>>
    BY <1>5 DEF wheelVars, lists, hand
  <2>2. WheelTypeOK' BY <2>1 DEF WheelInv, WheelTypeOK
  <2>3. Upcoming' = Upcoming BY <2>1 DEF Upcoming
  <2> QED BY <2>1, <2>2, <2>3 DEF WheelInv
<1> QED BY <1>1, <1>2, <1>3, <1>4, <1>5 DEF WheelNext

\* The tick of a waiting timer has not been passed.
LEMMA AwayNotPassed ==
  ASSUME TimerWheelAssumption, WheelInv
  PROVE  InOnePlace /\ NonePassed
<1> PICK p \in Nat : InTicks(slots, rotation_count, wanted, late, curslot, next_tick, p)
  BY DEF WheelInv
<1>0. WheelTypeOK /\ OnePlace(slots, slot_idx) BY DEF WheelInv
<1>1. InOnePlace BY <1>0 DEF InOnePlace, OnePlace, ToSet, IsInjective
<1>2. ASSUME NEW x \in Waiting PROVE next_tick <= wanted[x] + Grace(x)
  <2>1. PICK i \in Slots : \E q \in DOMAIN slots[i] : slots[i][q] = x BY WaitingPlace
  <2>2. PICK q \in DOMAIN slots[i] : slots[i][q] = x BY <2>1
  <2> DEFINE n == Away(i, curslot, rotation_count[x], i = curslot /\ q < p)
             e == wanted[x] + Grace(x)
  <2>3. InTick(e, next_tick, n) BY <2>2 DEF InTicks, Expected, Grace
  <2>4. size \in Nat \ {0} /\ granularity \in Nat /\ x \in Task BY DEF TimerWheelAssumption, Waiting
  <2>5. curslot \in Slots /\ rotation_count[x] \in Nat /\ wanted[x] \in Nat /\ next_tick \in Nat
    BY <1>0, <2>4 DEF WheelTypeOK
  <2>6. n \in Nat
    <3>1. Distance(i, curslot) \in Nat BY <2>4, <2>5 DEF Distance, Slots
    <3>2. TurnsLeft(rotation_count[x], i = curslot /\ q < p) \in Nat BY <2>5 DEF TurnsLeft
    <3>3. size * TurnsLeft(rotation_count[x], i = curslot /\ q < p) \in Nat BY <2>4, <3>2
    <3> QED BY <3>1, <3>3 DEF Away
  <2>7. e \in Nat
    <3>1. size * granularity \in Nat BY <2>4
    <3> QED BY <2>5, <3>1 DEF Grace
  <2> HIDE DEF n, e
  <2>8. granularity * n \in Nat BY <2>4, <2>6
  <2>9. next_tick <= e BY <2>3, <2>5, <2>7, <2>8 DEF InTick
  <2> QED BY <2>9 DEF e
<1> QED BY <1>1, <1>2 DEF NonePassed

\* A timer that expires has its time in the tick at hand.
LEMMA FiresInItsTick ==
  ASSUME TimerWheelAssumption, WheelInv, Fire
  PROVE  wanted[node] + Grace(node) < next_tick + granularity
<1> PICK p \in Nat : /\ Reached(slots[curslot], p, walk, Upcoming)
                     /\ InTicks(slots, rotation_count, wanted, late, curslot, next_tick, p)
  BY DEF WheelInv
<1>0. WheelTypeOK /\ OnePlace(slots, slot_idx) /\ InSlot BY DEF WheelInv, Fire
<1>1. p \in DOMAIN slots[curslot] /\ slots[curslot][p] = node /\ node \in Task BY <1>0, NodeIsAt
<1>2. curslot \in Slots /\ next_tick \in Nat BY <1>0 DEF WheelTypeOK
<1>3. size \in Nat \ {0} /\ granularity \in Nat BY DEF TimerWheelAssumption
<1>4. InTick(wanted[node] + Grace(node), next_tick, Away(curslot, curslot, rotation_count[node], curslot = curslot /\ p < p))
  BY <1>1, <1>2 DEF InTicks, Expected, Grace
<1>5. Away(curslot, curslot, rotation_count[node], curslot = curslot /\ p < p) = 0
  <2>1. Distance(curslot, curslot) = 0 BY <1>2, <1>3 DEF Distance, Slots
  <2>2. TurnsLeft(rotation_count[node], curslot = curslot /\ p < p) = 0 BY DEF TurnsLeft, Fire
  <2> QED BY <2>1, <2>2, <1>3 DEF Away
<1>6. granularity * 0 = 0 BY <1>3
<1> QED BY <1>2, <1>3, <1>4, <1>5, <1>6 DEF InTick

\* The wheel of lists, for every number of slots and granularity and whatever
\* the callbacks add, remove and modify: a waiting timer is in one place, it
\* expires in the tick of its time, and is neither early nor passed over.
THEOREM TimerWheelOnTime == ASSUME TimerWheelAssumption PROVE WheelSpec => WheelOnTime
<1>1. timer_wheel_init => WheelInv BY WheelInitInv
<1>2. WheelInv /\ [WheelNext]_wheelVars => WheelInv' BY WheelNextInv
<1>3. WheelInv => InOnePlace /\ NonePassed BY AwayNotPassed
<1>4. WheelInv /\ [WheelNext]_wheelVars => [Fire => wanted[node] + Grace(node) < next_tick + granularity]_wheelVars
  BY FiresInItsTick
<1> QED BY <1>1, <1>2, <1>3, <1>4, PTL DEF WheelSpec, WheelOnTime, NotEarly

-----------------------------------------------------------------------------
(* The wheels of heaps and of trees.                                       *)

\* The types.
TypeOK ==
  /\ timers \in [Slot -> SUBSET Timer]
  /\ time64 \in [Timer -> Time] /\ idx \in [Timer -> Slot] /\ due \in [Timer -> Nat]
  /\ curidx \in Slot /\ next_time64 \in Nat /\ curtime64 \in Time

\* How many ticks from now a timer is due.
Ticks(x) == (due[x] - next_time64) \div Granularity

\* A timer is in the slot that the hand reaches when it is due; due is its time, unless
\* it was late when it was added.
Placed == \A i \in Slot : \A x \in timers[i] :
  /\ idx[x] = i /\ i = (curidx + Ticks(x)) % Size
  /\ next_time64 <= due[x] /\ time64[x] <= due[x]
  /\ time64[x] # due[x] => due[x] <= next_time64

\* The inductive invariant of the wheels.
IInv == TypeOK /\ Placed

-----------------------------------------------------------------------------
\* Quotient and remainder.
LEMMA DivMod ==
  ASSUME NEW n \in Int, NEW d \in Nat \ {0}
  PROVE  /\ n = d * (n \div d) + (n % d) /\ n % d \in 0 .. d - 1 /\ n \div d \in Int
         /\ (n + d) \div d = (n \div d) + 1
OBVIOUS

\* The number of whole ticks in a time, and one tick later.
LEMMA DivSteps ==
  ASSUME NEW n \in Nat, NEW d \in Nat \ {0}
  PROVE  /\ n \div d \in Nat
         /\ n < d => n \div d = 0
         /\ n \div d # 0 => n >= d
         /\ n >= d => (n - d) \div d = (n \div d) - 1
<1>1. n \div d \in Nat /\ (n < d => n \div d = 0) OBVIOUS
<1> DEFINE m == n - d
<1>2. m \in Int /\ n = m + d OBVIOUS
<1> HIDE DEF m
<1>3. (m + d) \div d = (m \div d) + 1 /\ m \div d \in Int BY <1>2
<1>4. n >= d => (n - d) \div d = (n \div d) - 1 BY <1>2, <1>3 DEF m
<1> QED BY <1>1, <1>4

\* A turn of the wheel does not change the slot.
LEMMA ModShift ==
  ASSUME NEW n \in Int, NEW d \in Nat \ {0}
  PROVE  (n - d) % d = n % d
<1> DEFINE m == n - d
<1>1. m \in Int /\ n = m + d OBVIOUS
<1> HIDE DEF m
<1>2. (m + d) \div d = (m \div d) + 1 /\ m \div d \in Int /\ m % d \in Int BY <1>1
<1>3. m = d * (m \div d) + (m % d) BY <1>1, DivMod
<1>4. m + d = d * ((m + d) \div d) + ((m + d) % d) /\ (m + d) % d \in Int BY <1>1, DivMod
<1>5. d * ((m \div d) + 1) = d * (m \div d) + d BY <1>2
<1>6. (m + d) % d = m % d BY <1>2, <1>3, <1>4, <1>5
<1> QED BY <1>1, <1>6 DEF m

\* timer_linkwheel_init: a new wheel has no timers.
LEMMA InitInv ==
  ASSUME LinkWheelAssumption, timer_linkwheel_init
  PROVE  IInv
BY DEF LinkWheelAssumption, timer_linkwheel_init, IInv, TypeOK, Placed, Slot, Time

\* timer_linkwheel_add and the second half of timer_linkwheel_modify put a
\* timer in the slot that the hand reaches in the tick of its time, and leave
\* the other timers where they are.
LEMMA InsertInv ==
  ASSUME LinkWheelAssumption, IInv, NEW x \in Timer, NEW t \in Time,
         NEW into \in [Slot -> SUBSET Timer],
         \A i \in Slot : into[i] \subseteq timers[i] \ {x},
         Insert(x, t, into)
  PROVE  /\ IInv'
         /\ idx'[x] \in Slot
         /\ timers'[idx'[x]] = into[idx'[x]] \cup {x}
         /\ \A i \in Slot : i # idx'[x] => timers'[i] = into[i]
         /\ \A y \in Timer : y # x => time64'[y] = time64[y]
<1> DEFINE i == (curidx + Diff(t)) % Size
           from == IF t < next_time64 THEN next_time64 ELSE t
<1>0. /\ TypeOK /\ Placed /\ Size \in Nat \ {0} /\ Granularity \in Nat \ {0} /\ t \in Nat
      /\ curidx \in Nat /\ next_time64 \in Nat
  BY DEF IInv, LinkWheelAssumption, Time, TypeOK, Slot
<1>1. Diff(t) = (from - next_time64) \div Granularity /\ Diff(t) \in Nat /\ from \in Nat
  <2>1. CASE t < next_time64 BY <1>0, <2>1, DivSteps DEF Diff
  <2>2. CASE ~(t < next_time64) BY <1>0, <2>2, DivSteps DEF Diff
  <2> QED BY <2>1, <2>2
<1>2. i \in Slot
  <2>1. \A n \in Nat : n % Size \in Slot BY <1>0 DEF Slot
  <2> QED BY <1>0, <1>1, <2>1
<1>3. /\ time64' = [time64 EXCEPT ![x] = t] /\ idx' = [idx EXCEPT ![x] = i]
      /\ timers' = [into EXCEPT ![i] = @ \cup {x}] /\ due' = [due EXCEPT ![x] = from]
      /\ UNCHANGED <<curidx, next_time64, curtime64, pc>>
  BY DEF Insert, clock
<1>4. TypeOK' BY <1>0, <1>1, <1>2, <1>3 DEF TypeOK
<1>5. /\ idx'[x] = i /\ due'[x] = from /\ time64'[x] = t
      /\ timers'[i] = into[i] \cup {x}
      /\ \A j \in Slot : j # i => timers'[j] = into[j]
      /\ \A y \in Timer : y # x => time64'[y] = time64[y] /\ idx'[y] = idx[y] /\ due'[y] = due[y]
  BY <1>0, <1>2, <1>3 DEF TypeOK
<1>6. i = (curidx' + Ticks(x)') % Size BY <1>1, <1>3, <1>5 DEF Ticks
<1> HIDE DEF i
<1>7. \A y \in Timer : y # x => Ticks(y)' = Ticks(y) BY <1>3, <1>5 DEF Ticks
<1>8. ASSUME NEW j \in Slot, NEW y \in timers'[j]
      PROVE  /\ idx'[y] = j /\ j = (curidx' + Ticks(y)') % Size
             /\ next_time64' <= due'[y] /\ time64'[y] <= due'[y]
             /\ time64'[y] # due'[y] => due'[y] <= next_time64'
  <2>1. CASE y = x
    <3>1. j = i BY <1>5, <2>1
    <3> QED BY <1>0, <1>3, <1>5, <1>6, <2>1, <3>1
  <2>2. CASE y # x
    <3>1. y \in timers[j] /\ y \in Timer BY <1>0, <1>5, <2>2 DEF TypeOK
    <3> QED BY <1>0, <1>3, <1>5, <1>7, <2>2, <3>1 DEF Placed
  <2> QED BY <2>1, <2>2
<1>9. Placed' BY <1>8 DEF Placed
<1> QED BY <1>2, <1>4, <1>5, <1>9 DEF IInv

\* Taking timers out of the slots breaks nothing.
LEMMA FewerInv ==
  ASSUME IInv, timers' \in [Slot -> SUBSET Timer], \A i \in Slot : timers'[i] \subseteq timers[i],
         UNCHANGED <<time64, idx, due, curidx, next_time64>>, curtime64' \in Time
  PROVE  IInv'
BY DEF IInv, TypeOK, Placed, Ticks

\* timer_linkwheel_remove looks in the slot where the timer is.
LEMMA WithoutType ==
  ASSUME IInv, NEW x \in Pending
  PROVE  /\ Without(x) \in [Slot -> SUBSET Timer] /\ x \in Timer /\ idx[x] \in Slot
         /\ \A i \in Slot : Without(x)[i] = timers[i] \ {x}
BY DEF IInv, TypeOK, Placed, Pending, Without

\* When the hand goes on to the next slot, every timer is one tick nearer and
\* still in the slot that the hand reaches in its tick: those in the slot left
\* behind are due a turn later, also where the hand wraps.
LEMMA EndSlotInv ==
  ASSUME LinkWheelAssumption, IInv, EndSlot
  PROVE  IInv'
<1>0. /\ TypeOK /\ Placed /\ Size \in Nat \ {0} /\ Granularity \in Nat \ {0}
      /\ curidx \in 0 .. Size - 1 /\ next_time64 \in Nat
  BY DEF IInv, LinkWheelAssumption, TypeOK, Slot
<1>1. /\ next_time64' = next_time64 + Granularity
      /\ curidx' = IF curidx + 1 >= Size THEN 0 ELSE curidx + 1
      /\ UNCHANGED <<timers, time64, idx, due, curtime64>>
      /\ \A x \in timers[curidx] : ~(time64[x] < next_time64 + Granularity)
  BY DEF EndSlot, wheel, Ripe
<1>2. TypeOK' BY <1>0, <1>1 DEF TypeOK, Slot
<1>3. ASSUME NEW i \in Slot, NEW x \in timers[i]
      PROVE  /\ i = (curidx' + Ticks(x)') % Size
             /\ next_time64' <= due[x]
             /\ time64[x] # due[x] => due[x] <= next_time64'
  <2>1. /\ x \in Timer /\ due[x] \in Nat /\ time64[x] \in Nat
        /\ i = (curidx + Ticks(x)) % Size
        /\ next_time64 <= due[x] /\ time64[x] <= due[x]
        /\ time64[x] # due[x] => due[x] <= next_time64
    BY <1>0 DEF TypeOK, Placed, Time
  <2> DEFINE n == due[x] - next_time64
  <2>2. n \in Nat /\ Ticks(x) = n \div Granularity BY <1>0, <2>1 DEF Ticks
  <2>3. Ticks(x) \in Nat BY <1>0, <2>2, DivSteps
  <2>4. n >= Granularity
    <3>1. CASE i = curidx
      <4>1. time64[x] >= next_time64 + Granularity BY <1>0, <1>1, <2>1, <3>1
      <4> QED BY <1>0, <2>1, <4>1
    <3>2. CASE i # curidx
      <4>1. curidx % Size = curidx BY <1>0
      <4>2. Ticks(x) # 0 BY <1>0, <2>1, <3>2, <4>1
      <4> QED BY <1>0, <2>2, <4>2, DivSteps
    <3> QED BY <3>1, <3>2
  <2>5. next_time64' <= due[x] BY <1>0, <1>1, <2>1, <2>4
  <2>6. Ticks(x)' = (n - Granularity) \div Granularity
    <3>1. Ticks(x)' = (due[x] - (next_time64 + Granularity)) \div Granularity BY <1>1 DEF Ticks
    <3>2. due[x] - (next_time64 + Granularity) = n - Granularity BY <1>0, <2>1
    <3> QED BY <3>1, <3>2
  <2>7. Ticks(x)' = Ticks(x) - 1 BY <1>0, <2>2, <2>4, <2>6, DivSteps
  <2>8. i = (curidx' + Ticks(x)') % Size
    <3>1. CASE curidx + 1 >= Size
      <4>1. curidx' + Ticks(x)' = (curidx + Ticks(x)) - Size BY <1>0, <1>1, <2>3, <2>7, <3>1
      <4> DEFINE c == curidx + Ticks(x)
      <4>2. c \in Int /\ c % Size = i BY <1>0, <2>1, <2>3
      <4> HIDE DEF c
      <4>3. (c - Size) % Size = c % Size BY <1>0, <4>2, ModShift
      <4> QED BY <4>1, <4>2, <4>3 DEF c
    <3>2. CASE ~(curidx + 1 >= Size)
      <4>1. curidx' + Ticks(x)' = curidx + Ticks(x) BY <1>0, <1>1, <2>3, <2>7, <3>2
      <4> QED BY <2>1, <4>1
    <3> QED BY <3>1, <3>2
  <2>9. time64[x] # due[x] => due[x] <= next_time64' BY <1>0, <1>1, <2>1
  <2> QED BY <2>5, <2>8, <2>9
<1>4. Placed' BY <1>0, <1>1, <1>3 DEF Placed
<1> QED BY <1>2, <1>4 DEF IInv

\* No call and no step of timer_linkwheel_process breaks the invariant.
LEMMA NextInv ==
  ASSUME LinkWheelAssumption, IInv, [Next]_vars
  PROVE  IInv'
<1> USE DEF wheel, clock
<1>1. CASE EndSlot BY <1>1, EndSlotInv
<1>2. CASE Return BY <1>2, FewerInv DEF Return, IInv, TypeOK
<1>3. ASSUME NEW x \in Timer, Expire(x) PROVE IInv'
  BY <1>3, FewerInv DEF Expire, IInv, TypeOK
<1>4. ASSUME NEW t \in Time, timer_linkwheel_process(t) PROVE IInv'
  BY <1>4, FewerInv DEF timer_linkwheel_process, IInv, TypeOK
<1>5. ASSUME NEW x \in Timer, timer_linkwheel_remove(x) PROVE IInv'
  BY <1>5, FewerInv, WithoutType DEF timer_linkwheel_remove, IInv, TypeOK
<1>6. ASSUME NEW x \in Timer, NEW t \in Time, timer_linkwheel_add(x, t) PROVE IInv'
  BY <1>6, InsertInv DEF timer_linkwheel_add, IInv, TypeOK, Pending
<1>7. ASSUME NEW x \in Timer, NEW t \in Time, timer_linkwheel_modify(x, t) PROVE IInv'
  <2>1. x \in Pending /\ Insert(x, t, Without(x)) BY <1>7 DEF timer_linkwheel_modify
  <2>2. /\ Without(x) \in [Slot -> SUBSET Timer]
        /\ \A i \in Slot : Without(x)[i] \subseteq timers[i] \ {x}
    BY <2>1, WithoutType
  <2> QED BY <2>1, <2>2, InsertInv
<1>8. CASE UNCHANGED vars BY <1>8, FewerInv DEF vars, IInv, TypeOK
<1> QED BY <1>1, <1>2, <1>3, <1>4, <1>5, <1>6, <1>7, <1>8 DEF Next, Process

\* The invariant of the wheel of heaps: a waiting timer is in the slot that the
\* hand reaches when the timer is due, however many turns that takes.
THEOREM LinkWheelInv == ASSUME LinkWheelAssumption PROVE Spec => []IInv
<1>1. timer_linkwheel_init => IInv BY InitInv
<1>2. IInv /\ [Next]_vars => IInv' BY NextInv
<1> QED BY <1>1, <1>2, PTL DEF Spec

\* A waiting timer is in the slot where remove looks for it and the hand has
\* not passed its tick; and it expires in the tick that its time falls in, not
\* in an earlier one.
THEOREM LinkWheelOnTime ==
  ASSUME LinkWheelAssumption
  PROVE  Spec => HeapWheelOnTime
<1>1. IInv => InItsSlot /\ NoneOverdue
  BY DEF IInv, Placed, InItsSlot, NoneOverdue, Pending
<1>2. ASSUME IInv, NEW x \in Timer, Expire(x) PROVE due[x] < next_time64 + Granularity
  BY <1>2 DEF IInv, TypeOK, Placed, Expire, Ripe, Time, LinkWheelAssumption
<1>3. IInv => [\A x \in Timer : Expire(x) => due[x] < next_time64 + Granularity]_vars
  BY <1>2
<1> QED BY <1>1, <1>3, LinkWheelInv, PTL DEF HeapWheelOnTime, NeverEarly

-----------------------------------------------------------------------------
(* The wheel of trees.                                                     *)

\* Next of every slot is its earliest timer.
Earliests == \A i \in Slot : Leftmost(timers[i], time64, next[i])

\* timerrb_update_next: if the cached next of the slots that a call changes is
\* recomputed, every slot's is right again.
LEMMA UpdateNext ==
  ASSUME Earliests, NEW changed, timerrb_update_next(changed),
         \A i \in Slot \ changed :
           timers'[i] = timers[i] /\ \A y \in timers[i] : time64'[y] = time64[y]
  PROVE  Earliests'
<1> SUFFICES ASSUME NEW i \in Slot PROVE Leftmost(timers'[i], time64', next'[i]) BY DEF Earliests
<1>1. CASE i \in changed BY <1>1 DEF timerrb_update_next
<1>2. CASE i \notin changed
  <2>1. next'[i] = next[i] BY <1>2 DEF timerrb_update_next
  <2>2. Leftmost(timers[i], time64, next[i]) BY DEF Earliests
  <2> QED BY <1>2, <2>1, <2>2 DEF Leftmost
<1> QED BY <1>1, <1>2

\* Every step of the wheel of trees, which looks at the cached next only, is a
\* step of the wheel of heaps, and leaves every cached next right.
LEMMA RbStep ==
  ASSUME LinkWheelAssumption, RbWheelAssumption, IInv, Earliests, [RbNext]_rbvars
  PROVE  [Next]_vars /\ Earliests'
<1> USE DEF wheel, clock
<1>0. TypeOK /\ Placed BY DEF IInv
<1>1. CASE RbExpire
  <2> DEFINE x == Earliest
  <2>1. /\ x \in Timer /\ curidx \in Slot /\ Leftmost(timers[curidx], time64, x)
        /\ x # NIL
    BY <1>0, <1>1 DEF RbExpire, TypeOK, Earliests, Earliest, RbWheelAssumption
  <2>2. x \in timers[curidx] /\ \A y \in timers[curidx] : time64[x] <= time64[y]
    BY <2>1 DEF Leftmost
  <2>3. Expire(x) BY <1>1, <2>2 DEF RbExpire, Expire, Ripe
  <2>4. Earliests' BY <1>0, <1>1, UpdateNext DEF RbExpire, TypeOK
  <2> QED BY <2>1, <2>3, <2>4 DEF Next, Process
<1>2. CASE RbReturn
  BY <1>2 DEF RbReturn, Return, Next, Process, Earliests
<1>3. CASE RbEndSlot
  <2> DEFINE x == Earliest
  <2>1. curidx \in Slot /\ Leftmost(timers[curidx], time64, x)
    BY <1>0 DEF TypeOK, Earliests, Earliest
  <2>2. Ripe = {}
    <3>1. CASE timers[curidx] = {} BY <3>1 DEF Ripe
    <3>2. CASE timers[curidx] # {}
      <4>1. x \in timers[curidx] /\ \A y \in timers[curidx] : time64[x] <= time64[y]
        BY <2>1, <3>2 DEF Leftmost
      <4>2. x \in Timer /\ \A y \in timers[curidx] : time64[y] \in Int
        BY <1>0, <2>1, <4>1 DEF TypeOK, Time
      <4>3. time64[x] >= next_time64 + Granularity BY <1>3, <4>2 DEF RbEndSlot
      <4>4. next_time64 + Granularity \in Int BY <1>0 DEF TypeOK, LinkWheelAssumption
      <4> QED BY <4>1, <4>2, <4>3, <4>4 DEF Ripe
    <3> QED BY <3>1, <3>2
  <2>3. EndSlot BY <1>3, <2>2 DEF RbEndSlot, EndSlot
  <2>4. Earliests' BY <1>3 DEF RbEndSlot, Earliests
  <2> QED BY <2>3, <2>4 DEF Next, Process
<1>4. ASSUME NEW t \in Time, timer_rbwheel_process(t) PROVE Next /\ Earliests'
  BY <1>4 DEF timer_rbwheel_process, timer_linkwheel_process, Next, Earliests
<1>5. ASSUME NEW x \in Timer, timer_rbwheel_remove(x) PROVE Next /\ Earliests'
  <2>1. timer_linkwheel_remove(x) /\ timerrb_update_next({idx[x]})
    BY <1>5 DEF timer_rbwheel_remove
  <2>2. timers' = Without(x) /\ time64' = time64 BY <2>1 DEF timer_linkwheel_remove
  <2>3. \A i \in Slot : i # idx[x] => timers'[i] = timers[i] BY <1>0, <2>2 DEF Without, TypeOK
  <2>4. Earliests' BY <2>1, <2>2, <2>3, UpdateNext
  <2> QED BY <2>1, <2>4 DEF Next
<1>6. ASSUME NEW x \in Timer, NEW t \in Time, timer_rbwheel_add(x, t) PROVE Next /\ Earliests'
  <2>1. timer_linkwheel_add(x, t) /\ timerrb_update_next({idx'[x]}) BY <1>6 DEF timer_rbwheel_add
  <2>2. /\ \A i \in Slot : x \notin timers[i] /\ timers[i] \subseteq Timer
        /\ timers \in [Slot -> SUBSET Timer] /\ Insert(x, t, timers)
    BY <1>0, <2>1 DEF timer_linkwheel_add, Pending, TypeOK
  <2>3. /\ \A i \in Slot : i # idx'[x] => timers'[i] = timers[i]
        /\ \A y \in Timer : y # x => time64'[y] = time64[y]
    BY <2>2, InsertInv
  <2>4. Earliests' BY <2>1, <2>2, <2>3, UpdateNext
  <2> QED BY <2>1, <2>4 DEF Next
<1>7. ASSUME NEW x \in Timer, NEW t \in Time, timer_rbwheel_modify(x, t) PROVE Next /\ Earliests'
  <2>1. timer_linkwheel_modify(x, t) /\ timerrb_update_next({idx[x], idx'[x]})
    BY <1>7 DEF timer_rbwheel_modify
  <2>2. /\ Without(x) \in [Slot -> SUBSET Timer] /\ Insert(x, t, Without(x))
        /\ \A i \in Slot : Without(x)[i] = timers[i] \ {x}
    BY <2>1, WithoutType DEF timer_linkwheel_modify
  <2>3. /\ \A i \in Slot : i # idx'[x] => timers'[i] = timers[i] \ {x}
        /\ \A y \in Timer : y # x => time64'[y] = time64[y]
    <3>1. \A i \in Slot : Without(x)[i] \subseteq timers[i] \ {x} BY <2>2
    <3>2. /\ \A i \in Slot : i # idx'[x] => timers'[i] = Without(x)[i]
          /\ \A y \in Timer : y # x => time64'[y] = time64[y]
      BY <2>2, <3>1, InsertInv
    <3> QED BY <2>2, <3>2
  <2>4. \A i \in Slot : i # idx[x] => x \notin timers[i] /\ timers[i] \subseteq Timer
    BY <1>0 DEF Placed, TypeOK
  <2>5. Earliests' BY <2>1, <2>3, <2>4, UpdateNext
  <2> QED BY <2>1, <2>5 DEF Next
<1>8. CASE UNCHANGED rbvars BY <1>8 DEF rbvars, vars, Earliests
<1> QED BY <1>1, <1>2, <1>3, <1>4, <1>5, <1>6, <1>7, <1>8 DEF RbNext

\* On memory that is zero the wheel of trees implements the wheel of heaps: the
\* cached next is never stale, so no timer is passed over, late or early.
THEOREM RbWheelImplements ==
  ASSUME LinkWheelAssumption, RbWheelAssumption, Zeroed
  PROVE  RbSpec => ImplementsLinkWheel
<1>1. timer_rbwheel_init => timer_linkwheel_init /\ IInv /\ Earliests
  <2>1. timer_rbwheel_init => Earliests
    BY DEF timer_rbwheel_init, timer_linkwheel_init, Earliests, Leftmost
  <2> QED BY <2>1, InitInv DEF timer_rbwheel_init
<1>2. IInv /\ Earliests /\ [RbNext]_rbvars => IInv' /\ Earliests' /\ [Next]_vars
  BY RbStep, NextInv
<1> QED BY <1>1, <1>2, PTL DEF RbSpec, ImplementsLinkWheel, Spec
=============================================================================
