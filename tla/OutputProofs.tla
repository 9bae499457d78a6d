---------------------------- MODULE OutputProofs ----------------------------
(***************************************************************************)
(* The switch with one thread, for every number of addresses and ports and *)
(* every size of the MAC table: the list of entries stays in the order of  *)
(* their times, a lookup finds the port that the address was seen at last  *)
(* or nothing, and an entry goes only when it is too old, or the oldest of *)
(* a full table.  The invariant carries what a call has found out under a  *)
(* mutex to the step that relies on it, and the port of a batch to the     *)
(* entry that is skipped because its address came just before.             *)
(*                                                                         *)
(* And the capture files that packets leave to (PcapOut): each file of an  *)
(* out-queue has the first packet of every call, in order and once.        *)
(***************************************************************************)
EXTENDS Switch, PcapOut, FiniteSetTheorems, SequenceTheorems, TLAPS

-----------------------------------------------------------------------------
(* The switch with one thread.                                             *)

\* Where its thread is, and the call it is in.
Here == stage[Worker0]
My == job[Worker0]

InBatch == {"packet", "get", "put", "move", "add", "evict", "malloc"}
InPut == {"put", "move", "add", "evict", "malloc"}

SwitchTypeOK ==
  /\ entry \in [Mac -> Entry \cup {NOWHERE}] /\ oldest_to_newest \in Seq(Mac) /\ time_now \in Nat
  /\ stage \in [Worker -> InBatch \cup {"poll", "walk", "delete", "ready"}]
  /\ job \in [Worker -> [mac : Mac \cup {NOWHERE}, port : Port \cup {NOWHERE}, time : Nat, evict : Mac \cup {NOWHERE}]]
  /\ last_mac \in [Worker -> Mac \cup {NOWHERE}] /\ seen \in [Mac -> Port \cup {NOWHERE}]
  /\ Here \in InBatch => My.port \in Port
  /\ Here \in InPut \cup {"delete"} => My.mac \in Mac
  /\ Here = "evict" => My.evict \in Mac

\* The addresses in the table and in the list, and whether the list has each once.
Kept(e) == {m \in Mac : e[m] # NOWHERE}
Listed(list) == {list[i] : i \in DOMAIN list}
Distinct(list) == \A i, j \in DOMAIN list : list[i] = list[j] => i = j

\* The list goes from the oldest to the newest entry, whatever is to be said of one.
OldFirst(list, e, but) == \A i, j \in DOMAIN list :
  i < j /\ list[i] # but /\ list[j] # but => e[list[i]].time <= e[list[j]].time

\* The entry that has left the list and is about to leave the table.
Leaving == IF Here = "delete" THEN {My.mac} ELSE IF Here = "evict" THEN {My.evict} ELSE {}
\* The entry that is new and still at its old place.
Moving == IF Here = "move" THEN My.mac ELSE NOWHERE

InOrder ==
  /\ Distinct(oldest_to_newest)
  /\ Kept(entry) = Listed(oldest_to_newest) \cup Leaving
  /\ Leaving \cap Listed(oldest_to_newest) = {}
  /\ OldFirst(oldest_to_newest, entry, Moving)
  /\ Len(oldest_to_newest) <= mac_bucketcnt
  /\ Here \in {"malloc", "evict"} => Len(oldest_to_newest) < mac_bucketcnt

\* No entry is newer than the time of the call.
Timely == My.time <= time_now /\ \A m \in Kept(entry) : entry[m].time <= My.time

\* What a call has found out and relies on later.
Known ==
  /\ Here = "delete" => entry[My.mac].time + TIMEOUT < My.time
  /\ Here = "move" => My.mac \in Kept(entry) /\ entry[My.mac].time = My.time
  /\ Here \in {"add", "malloc", "evict"} => entry[My.mac] = NOWHERE
  /\ Here = "evict" => /\ mac_itemcnt = mac_bucketcnt
                       /\ \A k \in Kept(entry) : entry[My.evict].time <= entry[k].time

\* An entry has the port at which its address was seen last, but for the one
\* that is about to be put; and a batch has one port.
PortsKnown ==
  /\ \A m \in Kept(entry) : ~(Here = "put" /\ m = My.mac) => entry[m].port = seen[m]
  /\ Here \in InPut => seen[My.mac] = My.port
  /\ Here \in InBatch /\ last_mac[Worker0] # NOWHERE => seen[last_mac[Worker0]] = My.port

SwitchInv == SwitchTypeOK /\ InOrder /\ Timely /\ Known /\ PortsKnown

\* What Tail leaves, Append adds and Without takes out of a list of distinct addresses.
Rest(new, list) ==
  /\ new \in Seq(Mac) /\ Distinct(new) /\ Len(new) = Len(list) - 1
  /\ Head(list) \in Mac /\ Head(list) \notin Listed(new) /\ Listed(list) = Listed(new) \cup {Head(list)}
LEMMA TailOfList ==
  ASSUME NEW list \in Seq(Mac), list # << >>, Distinct(list)
  PROVE  Rest(Tail(list), list)
<1>1. Tail(list) \in Seq(Mac) /\ Len(Tail(list)) = Len(list) - 1 /\ Head(list) = list[1] /\ 1 \in DOMAIN list
      /\ Len(list) \in Nat /\ DOMAIN list = 1 .. Len(list) /\ DOMAIN Tail(list) = 1 .. Len(list) - 1
  OBVIOUS
<1>2. \A i \in DOMAIN Tail(list) : Tail(list)[i] = list[i + 1] /\ i + 1 \in DOMAIN list
  BY <1>1
<1>3. Distinct(Tail(list))
  <2> SUFFICES ASSUME NEW i \in DOMAIN Tail(list), NEW j \in DOMAIN Tail(list), Tail(list)[i] = Tail(list)[j]
               PROVE  i = j
    BY DEF Distinct
  <2>1. i + 1 = j + 1
    BY <1>2 DEF Distinct
  <2>. QED  BY <2>1, <1>1
<1>4. Head(list) \notin Listed(Tail(list))
  <2> SUFFICES ASSUME NEW i \in DOMAIN Tail(list), Tail(list)[i] = Head(list)
               PROVE  FALSE
    BY DEF Listed
  <2>1. i + 1 = 1
    BY <1>1, <1>2 DEF Distinct
  <2>. QED  BY <2>1, <1>1
<1>5. Listed(list) \subseteq Listed(Tail(list)) \cup {Head(list)}
  <2> SUFFICES ASSUME NEW i \in DOMAIN list, i # 1
               PROVE  list[i] \in Listed(Tail(list))
    BY <1>1 DEF Listed
  <2>1. i - 1 \in DOMAIN Tail(list) /\ (i - 1) + 1 = i
    BY <1>1
  <2>2. Tail(list)[i - 1] = list[i]
    BY <2>1, <1>2
  <2>. QED  BY <2>1, <2>2 DEF Listed
<1>6. Listed(Tail(list)) \cup {Head(list)} \subseteq Listed(list)
  BY <1>1, <1>2 DEF Listed
<1>7. Head(list) \in Mac
  BY <1>1
<1>. QED  BY <1>1, <1>3, <1>4, <1>5, <1>6, <1>7 DEF Rest

LEMMA TailInOrder ==
  ASSUME NEW list \in Seq(Mac), list # << >>, NEW e, NEW but, OldFirst(list, e, but)
  PROVE  OldFirst(Tail(list), e, but)
<1>1. Len(list) \in Nat /\ DOMAIN list = 1 .. Len(list) /\ DOMAIN Tail(list) = 1 .. Len(list) - 1
      /\ \A i \in DOMAIN Tail(list) : Tail(list)[i] = list[i + 1] /\ i + 1 \in DOMAIN list
  OBVIOUS
<1> SUFFICES ASSUME NEW i \in DOMAIN Tail(list), NEW j \in DOMAIN Tail(list), i < j,
                    Tail(list)[i] # but, Tail(list)[j] # but
             PROVE  e[Tail(list)[i]].time <= e[Tail(list)[j]].time
  BY DEF OldFirst
<1>2. i + 1 < j + 1
  BY <1>1
<1>. QED  BY <1>1, <1>2 DEF OldFirst

\* The head of a list in order is the oldest.
LEMMA HeadIsOldest ==
  ASSUME NEW list \in Seq(Mac), list # << >>, NEW e, NOWHERE \notin Mac, OldFirst(list, e, NOWHERE),
         NEW m \in Listed(list), e[m].time \in Nat
  PROVE  e[Head(list)].time <= e[m].time
<1>1. PICK i \in DOMAIN list : m = list[i]
  BY DEF Listed
<1>2. Head(list) = list[1] /\ 1 \in DOMAIN list /\ i \in Nat /\ i >= 1 /\ list[1] \in Mac /\ list[i] \in Mac
  OBVIOUS
<1>3. CASE i = 1
  BY <1>1, <1>2, <1>3
<1>4. CASE 1 < i
  BY <1>1, <1>2, <1>4 DEF OldFirst
<1>. QED  BY <1>2, <1>3, <1>4

Appended(new, list, m) ==
  /\ new \in Seq(Mac) /\ Distinct(new) /\ Len(new) = Len(list) + 1
  /\ Listed(new) = Listed(list) \cup {m}
LEMMA AppendToList ==
  ASSUME NEW list \in Seq(Mac), Distinct(list), NEW m \in Mac, m \notin Listed(list)
  PROVE  Appended(Append(list, m), list, m)
<1> DEFINE new == Append(list, m)
<1>1. new \in Seq(Mac) /\ Len(new) = Len(list) + 1 /\ Len(list) \in Nat
      /\ DOMAIN list = 1 .. Len(list) /\ DOMAIN new = 1 .. Len(list) + 1
      /\ new[Len(list) + 1] = m /\ \A i \in DOMAIN list : new[i] = list[i]
  OBVIOUS
<1> HIDE DEF new
<1>2. \A i \in DOMAIN new : i \in DOMAIN list \/ i = Len(list) + 1
  BY <1>1
<1>3. Distinct(new)
  BY <1>1, <1>2 DEF Distinct, Listed
<1>4. Listed(new) = Listed(list) \cup {m}
  <2>1. Len(list) + 1 \in DOMAIN new /\ DOMAIN list \subseteq DOMAIN new
    BY <1>1
  <2>. QED  BY <2>1, <1>1, <1>2 DEF Listed
<1>. QED  BY <1>1, <1>3, <1>4 DEF Appended, new

LEMMA AppendInOrder ==
  ASSUME NEW list \in Seq(Mac), NEW m \in Mac, NEW e, OldFirst(list, e, NOWHERE), NOWHERE \notin Mac,
         \A x \in Listed(list) : e[x].time <= e[m].time
  PROVE  OldFirst(Append(list, m), e, NOWHERE)
<1> DEFINE new == Append(list, m)
<1>1. Len(list) \in Nat /\ DOMAIN list = 1 .. Len(list) /\ DOMAIN new = 1 .. Len(list) + 1
      /\ new[Len(list) + 1] = m /\ \A i \in DOMAIN list : new[i] = list[i] /\ list[i] \in Mac
  OBVIOUS
<1> SUFFICES ASSUME NEW i \in DOMAIN new, NEW j \in DOMAIN new, i < j
             PROVE  e[new[i]].time <= e[new[j]].time
  BY DEF OldFirst
<1> HIDE DEF new
<1>2. i \in DOMAIN list
  BY <1>1
<1>3. CASE j \in DOMAIN list
  BY <1>1, <1>2, <1>3 DEF OldFirst
<1>4. CASE j = Len(list) + 1
  BY <1>1, <1>2, <1>4 DEF Listed
<1>. QED  BY <1>1, <1>3, <1>4

\* Removing one element of a sequence.
LEMMA RemoveAtProperties ==
  ASSUME NEW S, NEW s \in Seq(S), NEW i \in 1 .. Len(s)
  PROVE  /\ RemoveAt(s, i) \in Seq(S) /\ Len(RemoveAt(s, i)) = Len(s) - 1
         /\ \A j \in 1 .. Len(s) - 1 : RemoveAt(s, i)[j] = IF j < i THEN s[j] ELSE s[j + 1]
<1> DEFINE a == SubSeq(s, 1, i - 1)
           z == SubSeq(s, i + 1, Len(s))
<1>1. a \in Seq(S) /\ Len(a) = i - 1 /\ \A j \in 1 .. i - 1 : a[j] = s[j] OBVIOUS
<1>2. z \in Seq(S) /\ Len(z) = Len(s) - i /\ \A j \in 1 .. Len(s) - i : z[j] = s[i + j]
  <2>1. \A j \in i + 1 .. Len(s) : s[j] \in S OBVIOUS
  <2> QED BY <2>1, SubSeqProperties
<1> HIDE DEF a, z
<1>3. \A j \in 1 .. Len(a) + Len(z) : (a \o z)[j] = IF j <= Len(a) THEN a[j] ELSE z[j - Len(a)]
  BY <1>1, <1>2, ConcatProperties
<1>4. a \o z \in Seq(S) /\ Len(a \o z) = Len(a) + Len(z) BY <1>1, <1>2, ConcatProperties
<1>5. ASSUME NEW j \in 1 .. Len(s) - 1
      PROVE  (a \o z)[j] = IF j < i THEN s[j] ELSE s[j + 1]
  <2>1. CASE j < i BY <2>1, <1>1, <1>2, <1>3
  <2>2. CASE ~(j < i)
    <3>1. j - (i - 1) \in 1 .. Len(s) - i /\ i + (j - (i - 1)) = j + 1 BY <2>2
    <3>2. j \in 1 .. Len(a) + Len(z) /\ ~(j <= Len(a)) BY <2>2, <1>1, <1>2
    <3>3. (a \o z)[j] = z[j - (i - 1)] BY <3>2, <1>1, <1>3
    <3> QED BY <2>2, <3>1, <3>3, <1>2
  <2> QED BY <2>1, <2>2
<1>6. Len(a \o z) = Len(s) - 1 BY <1>1, <1>2, <1>4
<1> QED BY <1>4, <1>5, <1>6 DEF RemoveAt, a, z

TakenOut(new, list, m) ==
  /\ new \in Seq(Mac) /\ Distinct(new) /\ Len(new) = Len(list) - 1
  /\ Listed(new) = Listed(list) \ {m}
LEMMA WithoutOne ==
  ASSUME NEW list \in Seq(Mac), Distinct(list), NEW m \in Listed(list), NOWHERE \notin Mac
  PROVE  /\ TakenOut(Without(list, m), list, m)
         /\ \A e : OldFirst(list, e, m) => OldFirst(Without(list, m), e, NOWHERE)
<1> DEFINE k == CHOOSE i \in DOMAIN list : list[i] = m
           new == Without(list, m)
<1>1. k \in DOMAIN list /\ list[k] = m
  BY DEF Listed
<1>2. Len(list) \in Nat /\ DOMAIN list = 1 .. Len(list) /\ k \in 1 .. Len(list) /\ k \in Nat
      /\ \A i \in DOMAIN list : list[i] \in Mac
  BY <1>1
<1>3. new = RemoveAt(list, k)
  BY DEF Without
<1> HIDE DEF k, new
<1>4. /\ new \in Seq(Mac) /\ Len(new) = Len(list) - 1
      /\ \A i \in 1 .. Len(list) - 1 : new[i] = IF i < k THEN list[i] ELSE list[i + 1]
  BY <1>2, <1>3, RemoveAtProperties
<1> DEFINE at(i) == IF i < k THEN i ELSE i + 1
<1>5. DOMAIN new = 1 .. Len(list) - 1
  BY <1>4, <1>2
<1>6. \A i \in DOMAIN new : at(i) \in DOMAIN list /\ at(i) # k /\ new[i] = list[at(i)]
  BY <1>2, <1>4, <1>5
<1>7. \A i, j \in DOMAIN new : (i < j => at(i) < at(j)) /\ (at(i) = at(j) => i = j)
  BY <1>2, <1>5
<1>8. \A i \in DOMAIN list : i # k => \E j \in DOMAIN new : at(j) = i
  <2> SUFFICES ASSUME NEW i \in DOMAIN list, i # k
               PROVE  \E j \in DOMAIN new : at(j) = i
    OBVIOUS
  <2>1. CASE i < k
    <3>1. i \in DOMAIN new /\ at(i) = i
      BY <2>1, <1>2, <1>5
    <3>. QED  BY <3>1
  <2>2. CASE i > k
    <3>1. i - 1 \in DOMAIN new /\ at(i - 1) = i
      BY <2>2, <1>2, <1>5
    <3>. QED  BY <3>1
  <2>. QED  BY <2>1, <2>2, <1>2
<1> HIDE DEF at
<1>9. Distinct(new)
  BY <1>6, <1>7 DEF Distinct
<1>10. \A i \in DOMAIN new : new[i] # m
  BY <1>1, <1>6 DEF Distinct
<1>11. Listed(new) = Listed(list) \ {m}
  BY <1>1, <1>6, <1>8, <1>10 DEF Listed
<1>12. TakenOut(new, list, m)
  BY <1>4, <1>9, <1>11 DEF TakenOut
<1>13. ASSUME NEW e, OldFirst(list, e, m)
       PROVE  OldFirst(new, e, NOWHERE)
  BY <1>6, <1>7, <1>10, <1>13 DEF OldFirst
<1>. QED  BY <1>12, <1>13 DEF new

\* As many addresses as places.
LEMMA ListedCount ==
  ASSUME NEW list \in Seq(Mac), Distinct(list)
  PROVE  Cardinality(Listed(list)) = Len(list)
<1> DEFINE at == [i \in 1 .. Len(list) |-> list[i]]
<1>1. Len(list) \in Nat /\ DOMAIN list = 1 .. Len(list)
  OBVIOUS
<1>2. at \in Bijection(1 .. Len(list), Listed(list))
  BY <1>1 DEF Bijection, Injection, Surjection, Listed, Distinct, IsInjective
<1>3. IsFiniteSet(1 .. Len(list)) /\ Cardinality(1 .. Len(list)) = Len(list)
  <2>1. Cardinality(1 .. Len(list)) = IF 1 > Len(list) THEN 0 ELSE Len(list) - 1 + 1
    BY <1>1, FS_Interval
  <2>2. IsFiniteSet(1 .. Len(list))
    BY <1>1, FS_Interval
  <2>. QED  BY <2>1, <2>2, <1>1
<1>. QED  BY <1>2, <1>3, FS_Bijection DEF ExistsBijection

-----------------------------------------------------------------------------
\* One thread, so that no mutex is ever locked.
Alone == SwitchAssumption /\ Worker = {Worker0}
LEMMA NoLocks == Alone => ~num_thrs_many
  BY DEF Alone, num_thrs_many

LEMMA EntryFields ==
  ASSUME SwitchTypeOK, Alone, NEW m \in Kept(entry)
  PROVE  m \in Mac /\ entry[m] \in Entry /\ entry[m].time \in Nat /\ entry[m].port \in Port
  BY DEF SwitchTypeOK, Kept, Entry, Alone

LEMMA MyFields ==
  ASSUME SwitchTypeOK, Alone
  PROVE  /\ Worker0 \in Worker /\ Here \in InBatch \cup {"poll", "walk", "delete", "ready"}
         /\ My \in [mac : Mac \cup {NOWHERE}, port : Port \cup {NOWHERE}, time : Nat, evict : Mac \cup {NOWHERE}]
         /\ My.time \in Nat /\ My.mac \in Mac \cup {NOWHERE}
  BY DEF SwitchTypeOK, Alone, SwitchAssumption, Here, My

LEMMA SwitchStarts ==
  ASSUME Alone, SwitchInit
  PROVE  SwitchInv
<1>1. Here = "poll" /\ My = NoJob /\ Kept(entry) = {} /\ Listed(oldest_to_newest) = {} /\ oldest_to_newest = << >>
  BY DEF Alone, SwitchInit, Here, My, Kept, Listed
<1>2. SwitchTypeOK
  BY <1>1 DEF Alone, SwitchAssumption, SwitchInit, SwitchTypeOK, NoJob, InBatch, InPut
<1>3. InOrder
  BY <1>1 DEF InOrder, Distinct, OldFirst, Leaving, Moving, Alone, SwitchAssumption
<1>4. Timely /\ Known /\ PortsKnown
  BY <1>1 DEF Timely, Known, PortsKnown, NoJob, SwitchInit, InBatch, InPut
<1>. QED  BY <1>2, <1>3, <1>4 DEF SwitchInv

\* A step that changes neither table nor list nor what is known of the call.
LEMMA TickStep ==
  ASSUME SwitchInv, Alone, Tick
  PROVE  SwitchInv'
<1>1. Here' = Here /\ My' = My /\ entry' = entry /\ oldest_to_newest' = oldest_to_newest /\ mac_itemcnt' = mac_itemcnt
      /\ last_mac' = last_mac /\ seen' = seen /\ stage' = stage /\ job' = job
  BY DEF Tick, macTable, Here, My, mac_itemcnt
<1>2. SwitchTypeOK'
  BY <1>1 DEF SwitchInv, SwitchTypeOK, Tick
<1>3. InOrder' /\ Known' /\ PortsKnown'
  BY <1>1 DEF SwitchInv, InOrder, Known, PortsKnown, Leaving, Moving
<1>4. Timely'
  BY <1>1, MyFields DEF SwitchInv, Timely, Tick, SwitchTypeOK
<1>. QED  BY <1>2, <1>3, <1>4 DEF SwitchInv

LEMMA TimeOutLockStep ==
  ASSUME SwitchInv, Alone, TimeOutLock(Worker0)
  PROVE  SwitchInv'
<1>1. /\ Here = "poll" /\ Here' = "walk" /\ My' = [NoJob EXCEPT !.time = time_now]
      /\ entry' = entry /\ oldest_to_newest' = oldest_to_newest /\ time_now' = time_now
      /\ last_mac' = last_mac /\ seen' = seen
  BY DEF TimeOutLock, At, Enter, macTable, Here, My, SwitchInv, SwitchTypeOK, Alone, SwitchAssumption
<1>2. SwitchTypeOK'
  BY <1>1 DEF SwitchInv, SwitchTypeOK, TimeOutLock, Enter, NoJob, InBatch, InPut
<1>3. InOrder'
  BY <1>1 DEF SwitchInv, InOrder, Leaving, Moving
<1>4. Known' /\ PortsKnown'
  BY <1>1 DEF SwitchInv, Known, PortsKnown, InBatch, InPut
<1>5. Timely'
  <2>1. My'.time = time_now
    BY <1>1 DEF NoJob
  <2>2. time_now \in Nat /\ \A m \in Kept(entry) : entry[m].time \in Nat
    BY EntryFields DEF SwitchInv, SwitchTypeOK
  <2>. QED  BY <1>1, <2>1, <2>2, MyFields DEF SwitchInv, Timely
<1>. QED  BY <1>2, <1>3, <1>4, <1>5 DEF SwitchInv

LEMMA TimeOutUnlinkStep ==
  ASSUME SwitchInv, Alone, TimeOutUnlink(Worker0)
  PROVE  SwitchInv'
<1> DEFINE list == oldest_to_newest
<1>1. /\ Here = "walk" /\ Here' = "delete" /\ My' = [My EXCEPT !.mac = Head(list)]
      /\ entry' = entry /\ list' = Tail(list) /\ time_now' = time_now
      /\ last_mac' = last_mac /\ seen' = seen /\ list # << >> /\ list \in Seq(Mac)
      /\ entry[Head(list)].time + TIMEOUT < My.time
  BY DEF TimeOutUnlink, Old, At, Enter, Here, My, SwitchInv, SwitchTypeOK, Alone, SwitchAssumption
<1>2. Rest(list', list)
  BY <1>1, TailOfList DEF SwitchInv, InOrder
<1>3. My'.mac = Head(list) /\ My'.time = My.time
  BY <1>1, MyFields DEF SwitchInv
<1>4. SwitchTypeOK'
  BY <1>1, <1>2, <1>3 DEF SwitchInv, SwitchTypeOK, TimeOutUnlink, Enter, InBatch, InPut, Rest
<1>5. Moving = NOWHERE /\ Moving' = NOWHERE /\ Leaving = {} /\ Leaving' = {Head(list)}
  BY <1>1, <1>3 DEF Moving, Leaving
<1>6. OldFirst(list', entry, NOWHERE)
  BY <1>1, <1>5, TailInOrder DEF SwitchInv, InOrder
<1>7. InOrder'
  BY <1>1, <1>2, <1>5, <1>6 DEF SwitchInv, InOrder, Rest, Alone, SwitchAssumption
<1>8. Known' /\ PortsKnown' /\ Timely'
  BY <1>1, <1>3 DEF SwitchInv, Known, PortsKnown, Timely, InBatch, InPut
<1>. QED  BY <1>4, <1>7, <1>8 DEF SwitchInv

\* An entry leaves the table: no other does.
LEMMA Emptied ==
  ASSUME SwitchTypeOK, Alone, NEW x \in Mac
  PROVE  LET new == [entry EXCEPT ![x] = NOWHERE]
         IN  /\ new \in [Mac -> Entry \cup {NOWHERE}] /\ Kept(new) = Kept(entry) \ {x}
             /\ \A m \in Mac : m # x => new[m] = entry[m]
  BY DEF SwitchTypeOK, Kept

LEMMA TimeOutDeleteStep ==
  ASSUME SwitchInv, Alone, TimeOutDelete(Worker0)
  PROVE  SwitchInv'
<1> DEFINE list == oldest_to_newest
<1>1. /\ Here = "delete" /\ Here' = "walk" /\ My' = My /\ entry' = [entry EXCEPT ![My.mac] = NOWHERE]
      /\ list' = list /\ time_now' = time_now /\ last_mac' = last_mac /\ seen' = seen /\ job' = job
  BY DEF TimeOutDelete, At, Enter, Here, My, SwitchInv, SwitchTypeOK, Alone, SwitchAssumption
<1>2. My.mac \in Mac
  BY <1>1 DEF SwitchInv, SwitchTypeOK
<1>3. /\ entry' \in [Mac -> Entry \cup {NOWHERE}] /\ Kept(entry') = Kept(entry) \ {My.mac}
      /\ \A m \in Mac : m # My.mac => entry'[m] = entry[m]
  BY <1>1, <1>2, Emptied DEF SwitchInv
<1>4. SwitchTypeOK'
  BY <1>1, <1>3 DEF SwitchInv, SwitchTypeOK, TimeOutDelete, Enter, InBatch, InPut
<1>5. Moving = NOWHERE /\ Moving' = NOWHERE /\ Leaving = {My.mac} /\ Leaving' = {}
  BY <1>1 DEF Moving, Leaving
<1>6. Kept(entry') = Listed(list) /\ My.mac \notin Listed(list)
  BY <1>3, <1>5 DEF SwitchInv, InOrder
<1>7. OldFirst(list, entry', NOWHERE)
  BY <1>3, <1>5, <1>6 DEF SwitchInv, InOrder, OldFirst, Listed, Kept
<1>8. InOrder'
  BY <1>1, <1>5, <1>6, <1>7 DEF SwitchInv, InOrder
<1>9. Known' /\ PortsKnown' /\ Timely'
  BY <1>1, <1>3 DEF SwitchInv, Known, PortsKnown, Timely, InBatch, InPut, Kept
<1>. QED  BY <1>4, <1>8, <1>9 DEF SwitchInv

\* The steps between two calls.
LEMMA TimeOutReturnStep ==
  ASSUME SwitchInv, Alone, TimeOutReturn(Worker0)
  PROVE  SwitchInv'
<1>1. /\ Here = "walk" /\ Here' = "ready" /\ My' = My /\ entry' = entry /\ oldest_to_newest' = oldest_to_newest
      /\ time_now' = time_now /\ last_mac' = last_mac /\ seen' = seen /\ job' = job
  BY DEF TimeOutReturn, At, Enter, macTable, Here, My, SwitchInv, SwitchTypeOK, Alone, SwitchAssumption
<1>2. SwitchTypeOK'
  BY <1>1 DEF SwitchInv, SwitchTypeOK, TimeOutReturn, Enter, InBatch, InPut
<1>3. InOrder' /\ Timely' /\ Known' /\ PortsKnown'
  BY <1>1 DEF SwitchInv, InOrder, Timely, Known, PortsKnown, Leaving, Moving, InBatch, InPut
<1>. QED  BY <1>2, <1>3 DEF SwitchInv

LEMMA BatchEndsStep ==
  ASSUME SwitchInv, Alone, BatchEnds(Worker0)
  PROVE  SwitchInv'
<1>1. /\ Here = "packet" /\ Here' \in {"ready", "poll"} /\ My' = My /\ entry' = entry
      /\ oldest_to_newest' = oldest_to_newest
      /\ time_now' = time_now /\ last_mac' = last_mac /\ seen' = seen /\ job' = job
  BY DEF BatchEnds, At, Enter, macTable, Here, My, SwitchInv, SwitchTypeOK, Alone, SwitchAssumption
<1>2. SwitchTypeOK'
  BY <1>1 DEF SwitchInv, SwitchTypeOK, BatchEnds, Enter, InBatch, InPut
<1>3. InOrder' /\ Timely' /\ Known' /\ PortsKnown'
  BY <1>1 DEF SwitchInv, InOrder, Timely, Known, PortsKnown, Leaving, Moving, InBatch, InPut
<1>. QED  BY <1>2, <1>3 DEF SwitchInv

LEMMA NextPktsStep ==
  ASSUME SwitchInv, Alone, NEW port \in Port, NextPkts(Worker0, port)
  PROVE  SwitchInv'
<1>1. /\ Here = "ready" /\ Here' = "packet" /\ My' = [NoJob EXCEPT !.port = port, !.time = time_now]
      /\ entry' = entry /\ oldest_to_newest' = oldest_to_newest /\ time_now' = time_now
      /\ last_mac'[Worker0] = NOWHERE /\ seen' = seen
  BY DEF NextPkts, At, Enter, macTable, Here, My, SwitchInv, SwitchTypeOK, Alone, SwitchAssumption
<1>2. My'.time = time_now /\ My'.port = port
  BY <1>1 DEF NoJob
<1>3. SwitchTypeOK'
  BY <1>1, <1>2 DEF SwitchInv, SwitchTypeOK, NextPkts, Enter, NoJob, InBatch, InPut
<1>4. InOrder'
  BY <1>1 DEF SwitchInv, InOrder, Leaving, Moving
<1>5. Known' /\ PortsKnown'
  BY <1>1 DEF SwitchInv, Known, PortsKnown, InBatch, InPut
<1>6. Timely'
  <2>1. time_now \in Nat /\ \A m \in Kept(entry) : entry[m].time \in Nat
    BY EntryFields DEF SwitchInv, SwitchTypeOK
  <2>. QED  BY <1>1, <1>2, <2>1, MyFields DEF SwitchInv, Timely
<1>. QED  BY <1>3, <1>4, <1>5, <1>6 DEF SwitchInv

\* The source that the last packet had is known to be at the port of the batch.
LEMMA LearnStep ==
  ASSUME SwitchInv, Alone, NEW src \in Mac, Learn(Worker0, src)
  PROVE  SwitchInv'
<1>1. /\ Here = "packet" /\ Here' = IF src = last_mac[Worker0] THEN "get" ELSE "put"
      /\ My' = [My EXCEPT !.mac = src]
      /\ entry' = entry /\ oldest_to_newest' = oldest_to_newest /\ time_now' = time_now
      /\ last_mac'[Worker0] = src /\ seen' = [seen EXCEPT ![src] = My.port]
  BY DEF Learn, At, Enter, macTable, Here, My, SwitchInv, SwitchTypeOK, Alone, SwitchAssumption
<1>2. My'.time = My.time /\ My'.port = My.port /\ My'.mac = src /\ My.port \in Port
  BY <1>1, MyFields DEF SwitchInv, SwitchTypeOK, InBatch
<1>3. SwitchTypeOK'
  <2>1. job' \in [Worker -> [mac : Mac \cup {NOWHERE}, port : Port \cup {NOWHERE}, time : Nat, evict : Mac \cup {NOWHERE}]]
    BY DEF Learn, SwitchInv, SwitchTypeOK
  <2>2. seen' \in [Mac -> Port \cup {NOWHERE}]
    BY <1>1, <1>2 DEF SwitchInv, SwitchTypeOK
  <2>. QED  BY <1>1, <1>2, <2>1, <2>2 DEF SwitchInv, SwitchTypeOK, Learn, Enter, InBatch, InPut
<1>4. InOrder'
  BY <1>1 DEF SwitchInv, InOrder, Leaving, Moving
<1>5. Known' /\ Timely'
  BY <1>1, <1>2 DEF SwitchInv, Known, Timely
<1>6. seen'[src] = My.port /\ \A m \in Mac : m # src => seen'[m] = seen[m]
  BY <1>1 DEF SwitchInv, SwitchTypeOK
<1>7. src = last_mac[Worker0] => seen[src] = My.port
  BY <1>1, <1>2 DEF SwitchInv, PortsKnown, InBatch, Alone, SwitchAssumption
<1>8. \A m \in Kept(entry) : m \in Mac /\ entry[m].port = seen[m]
  BY <1>1 DEF SwitchInv, PortsKnown, Kept
<1>9. PortsKnown'
  BY <1>1, <1>2, <1>6, <1>7, <1>8 DEF PortsKnown, InBatch, InPut
<1>. QED  BY <1>3, <1>4, <1>5, <1>9 DEF SwitchInv

LEMMA GetStep ==
  ASSUME SwitchInv, Alone, NEW dst \in Mac, port_get(Worker0, dst)
  PROVE  SwitchInv'
<1>1. /\ Here = "get" /\ Here' = "packet" /\ My' = My /\ entry' = entry /\ oldest_to_newest' = oldest_to_newest
      /\ time_now' = time_now /\ last_mac' = last_mac /\ seen' = seen /\ job' = job
  BY DEF port_get, At, Enter, macTable, Here, My, SwitchInv, SwitchTypeOK, Alone, SwitchAssumption
<1>2. SwitchTypeOK'
  BY <1>1 DEF SwitchInv, SwitchTypeOK, port_get, Enter, InBatch, InPut
<1>3. InOrder' /\ Timely' /\ Known' /\ PortsKnown'
  BY <1>1 DEF SwitchInv, InOrder, Timely, Known, PortsKnown, Leaving, Moving, InBatch, InPut
<1>. QED  BY <1>2, <1>3 DEF SwitchInv

\* The entry of the source is new, and still where it was in the list.
LEMMA PutLockStep ==
  ASSUME SwitchInv, Alone, PutLock(Worker0)
  PROVE  SwitchInv'
<1> DEFINE list == oldest_to_newest
           now == [port |-> My.port, time |-> My.time]
<1>1. /\ Here = "put" /\ Here' = IF entry[My.mac] = NOWHERE THEN "add" ELSE "move"
      /\ My' = My /\ list' = list /\ time_now' = time_now /\ last_mac' = last_mac /\ seen' = seen /\ job' = job
      /\ entry' = [entry EXCEPT ![My.mac] = IF @ = NOWHERE THEN NOWHERE ELSE now]
  BY DEF PutLock, At, Enter, Here, My, SwitchInv, SwitchTypeOK, Alone, SwitchAssumption
<1>2. My.mac \in Mac /\ now \in Entry /\ now # NOWHERE /\ My.time \in Nat /\ My.port \in Port
      /\ now.time = My.time /\ now.port = My.port
  BY <1>1, MyFields DEF SwitchInv, SwitchTypeOK, InBatch, InPut, Entry, Alone, SwitchAssumption
<1> HIDE DEF now
<1>3. /\ entry' \in [Mac -> Entry \cup {NOWHERE}]
      /\ \A m \in Mac : m # My.mac => entry'[m] = entry[m]
      /\ entry'[My.mac] = IF entry[My.mac] = NOWHERE THEN NOWHERE ELSE now
  BY <1>1, <1>2 DEF SwitchInv, SwitchTypeOK
<1>4. Kept(entry') = Kept(entry)
  BY <1>2, <1>3 DEF Kept
<1>5. SwitchTypeOK'
  BY <1>1, <1>2, <1>3 DEF SwitchInv, SwitchTypeOK, PutLock, Enter, InBatch, InPut
<1>6. Leaving = {} /\ Leaving' = {} /\ Moving = NOWHERE
  BY <1>1 DEF Leaving, Moving
<1>7. OldFirst(list, entry', Moving')
  <2>0. \A i \in DOMAIN list : list[i] \in Mac
    BY DEF SwitchInv, SwitchTypeOK
  <2>00. OldFirst(list, entry, NOWHERE) /\ NOWHERE \notin Mac
    BY <1>6 DEF SwitchInv, InOrder, Alone, SwitchAssumption
  <2>1. CASE entry[My.mac] = NOWHERE
    <3>1. entry' = entry /\ Moving' = NOWHERE
      BY <2>1, <1>1, <1>2, <1>3 DEF Moving, SwitchInv, SwitchTypeOK
    <3>. QED  BY <3>1, <2>00
  <2>2. CASE entry[My.mac] # NOWHERE
    <3>1. Moving' = My.mac
      BY <2>2, <1>1 DEF Moving
    <3>. QED  BY <3>1, <2>0, <2>00, <1>3 DEF OldFirst
  <2>. QED  BY <2>1, <2>2
<1>8. InOrder'
  BY <1>1, <1>4, <1>6, <1>7 DEF SwitchInv, InOrder
<1>9. Known'
  BY <1>1, <1>2, <1>3 DEF Known, Kept
<1>10. Timely'
  BY <1>1, <1>2, <1>3, <1>4 DEF SwitchInv, Timely, Kept
<1>11. PortsKnown'
  BY <1>1, <1>2, <1>3, <1>4 DEF SwitchInv, PortsKnown, Kept, InBatch, InPut
<1>. QED  BY <1>5, <1>8, <1>9, <1>10, <1>11 DEF SwitchInv

LEMMA PutMoveStep ==
  ASSUME SwitchInv, Alone, PutMove(Worker0)
  PROVE  SwitchInv'
<1> DEFINE list == oldest_to_newest
           mid == Without(list, My.mac)
<1>1. /\ Here = "move" /\ Here' = "get" /\ My' = My /\ entry' = entry /\ list' = Append(mid, My.mac)
      /\ time_now' = time_now /\ last_mac' = last_mac /\ seen' = seen /\ job' = job
  BY DEF PutMove, Newest, At, Enter, Here, My, SwitchInv, SwitchTypeOK, Alone, SwitchAssumption
<1>2. My.mac \in Mac /\ NOWHERE \notin Mac /\ list \in Seq(Mac)
  BY <1>1 DEF SwitchInv, SwitchTypeOK, InPut, Alone, SwitchAssumption
<1>3. Leaving = {} /\ Leaving' = {} /\ Moving = My.mac /\ Moving' = NOWHERE
  BY <1>1 DEF Leaving, Moving
<1>4. My.mac \in Listed(list) /\ Distinct(list) /\ OldFirst(list, entry, My.mac) /\ Kept(entry) = Listed(list)
  BY <1>1, <1>3 DEF SwitchInv, InOrder, Known
<1>5. TakenOut(mid, list, My.mac) /\ OldFirst(mid, entry, NOWHERE)
  BY <1>2, <1>4, WithoutOne
<1> HIDE DEF mid
<1>6. mid \in Seq(Mac) /\ Distinct(mid) /\ My.mac \notin Listed(mid) /\ Listed(mid) \subseteq Kept(entry)
  BY <1>4, <1>5 DEF TakenOut
<1>7. Appended(list', mid, My.mac)
  BY <1>1, <1>2, <1>6, AppendToList
<1>8. OldFirst(list', entry, NOWHERE)
  <2>1. \A x \in Listed(mid) : entry[x].time <= entry[My.mac].time
    BY <1>1, <1>6 DEF SwitchInv, Timely, Known
  <2>. QED  BY <2>1, <1>1, <1>2, <1>5, <1>6, AppendInOrder
<1>9. Listed(list') = Listed(list) /\ Len(list') = Len(list)
  BY <1>4, <1>5, <1>7, <1>2 DEF Appended, TakenOut
<1>10. SwitchTypeOK'
  BY <1>1, <1>7 DEF SwitchInv, SwitchTypeOK, PutMove, Enter, InBatch, InPut, Appended
<1>11. InOrder'
  BY <1>1, <1>3, <1>7, <1>8, <1>9 DEF SwitchInv, InOrder, Appended
<1>12. Timely' /\ Known' /\ PortsKnown'
  BY <1>1 DEF SwitchInv, Timely, Known, PortsKnown, InBatch, InPut
<1>. QED  BY <1>10, <1>11, <1>12 DEF SwitchInv

\* There are as many entries as the list has places, and room for one more or
\* the oldest goes.
LEMMA PutLockListStep ==
  ASSUME SwitchInv, Alone, PutLockList(Worker0)
  PROVE  SwitchInv'
<1> DEFINE list == oldest_to_newest
<1>1. /\ Here = "add" /\ entry' = entry /\ time_now' = time_now /\ last_mac' = last_mac /\ seen' = seen
      /\ list \in Seq(Mac) /\ mac_itemcnt' = mac_itemcnt /\ mac_bucketcnt \in Nat \ {0}
  BY DEF PutLockList, At, Here, SwitchInv, SwitchTypeOK, mac_itemcnt, Alone, SwitchAssumption
<1>2. Leaving = {} /\ Moving = NOWHERE
  BY <1>1 DEF Leaving, Moving
<1>3. Distinct(list) /\ Kept(entry) = Listed(list) /\ OldFirst(list, entry, NOWHERE) /\ Len(list) <= mac_bucketcnt
  BY <1>2 DEF SwitchInv, InOrder
<1>4. mac_itemcnt = Len(list)
  BY <1>1, <1>3, ListedCount DEF mac_itemcnt, Kept
<1>5. My.mac \in Mac /\ entry[My.mac] = NOWHERE
  BY <1>1 DEF SwitchInv, SwitchTypeOK, InPut, Known
<1>6. CASE mac_itemcnt >= mac_bucketcnt
  <2>1. /\ Here' = "evict" /\ My' = [My EXCEPT !.evict = Head(list)] /\ list' = Tail(list)
        /\ stage' = [stage EXCEPT ![Worker0] = "evict"] /\ job' = [job EXCEPT ![Worker0].evict = Head(list)]
    BY <1>6 DEF PutLockList, Enter, Here, My, SwitchInv, SwitchTypeOK, Alone, SwitchAssumption
  <2>2. My'.mac = My.mac /\ My'.time = My.time /\ My'.port = My.port /\ My'.evict = Head(list)
    BY <2>1, MyFields DEF SwitchInv
  <2>3. list # << >> /\ Len(list) = mac_bucketcnt /\ mac_itemcnt = mac_bucketcnt
    BY <1>1, <1>3, <1>4, <1>6
  <2>4. Rest(list', list) /\ OldFirst(list', entry, NOWHERE)
    BY <1>1, <1>3, <2>1, <2>3, TailOfList, TailInOrder
  <2>5. SwitchTypeOK'
    <3>1. My.port \in Port
      BY <1>1 DEF SwitchInv, SwitchTypeOK, InBatch
    <3>2. Head(list) \in Mac /\ list' \in Seq(Mac)
      BY <2>4 DEF Rest
    <3>3. job' \in [Worker -> [mac : Mac \cup {NOWHERE}, port : Port \cup {NOWHERE}, time : Nat, evict : Mac \cup {NOWHERE}]]
      BY <2>1, <3>2 DEF SwitchInv, SwitchTypeOK
    <3>4. stage' \in [Worker -> InBatch \cup {"poll", "walk", "delete", "ready"}]
      BY <2>1 DEF SwitchInv, SwitchTypeOK, InBatch
    <3>. QED  BY <1>1, <1>5, <2>1, <2>2, <3>1, <3>2, <3>3, <3>4 DEF SwitchInv, SwitchTypeOK
  <2>6. Leaving' = {Head(list)} /\ Moving' = NOWHERE
    BY <2>1, <2>2 DEF Leaving, Moving
  <2>7. InOrder'
    BY <1>1, <1>3, <2>1, <2>3, <2>4, <2>6 DEF InOrder, Rest
  <2>8. Timely' /\ PortsKnown'
    BY <1>1, <2>1, <2>2 DEF SwitchInv, Timely, PortsKnown, InBatch, InPut
  <2>9. \A k \in Kept(entry) : entry[Head(list)].time <= entry[k].time
    <3>1. \A k \in Kept(entry) : entry[k].time \in Nat
      BY EntryFields DEF SwitchInv
    <3>. QED  BY <3>1, <1>1, <1>3, <2>3, HeadIsOldest DEF Alone, SwitchAssumption
  <2>10. Known'
    BY <1>1, <1>5, <2>1, <2>2, <2>3, <2>9 DEF Known
  <2>. QED  BY <2>5, <2>7, <2>8, <2>10 DEF SwitchInv
<1>7. CASE ~(mac_itemcnt >= mac_bucketcnt)
  <2>1. /\ Here' = "malloc" /\ My' = My /\ list' = list /\ job' = job
        /\ stage' = [stage EXCEPT ![Worker0] = "malloc"]
    BY <1>7 DEF PutLockList, Enter, Here, My, SwitchInv, SwitchTypeOK, Alone, SwitchAssumption
  <2>2. SwitchTypeOK'
    BY <1>1, <2>1 DEF SwitchInv, SwitchTypeOK, InBatch, InPut
  <2>3. Leaving' = {} /\ Moving' = NOWHERE
    BY <2>1 DEF Leaving, Moving
  <2>4. Len(list) < mac_bucketcnt
    BY <1>1, <1>4, <1>7
  <2>5. InOrder'
    BY <1>1, <1>3, <2>1, <2>3, <2>4 DEF InOrder
  <2>6. Timely' /\ PortsKnown' /\ Known'
    BY <1>1, <1>5, <2>1 DEF SwitchInv, Timely, PortsKnown, Known, InBatch, InPut
  <2>. QED  BY <2>2, <2>5, <2>6 DEF SwitchInv
<1>. QED  BY <1>6, <1>7

LEMMA PutEvictStep ==
  ASSUME SwitchInv, Alone, PutEvict(Worker0)
  PROVE  SwitchInv'
<1> DEFINE list == oldest_to_newest
<1>1. /\ Here = "evict" /\ Here' = "malloc" /\ My' = My /\ entry' = [entry EXCEPT ![My.evict] = NOWHERE]
      /\ list' = list /\ time_now' = time_now /\ last_mac' = last_mac /\ seen' = seen /\ job' = job
  BY DEF PutEvict, At, Enter, Here, My, SwitchInv, SwitchTypeOK, Alone, SwitchAssumption
<1>2. My.evict \in Mac /\ My.mac \in Mac /\ entry[My.mac] = NOWHERE
  BY <1>1 DEF SwitchInv, SwitchTypeOK, Known, InPut
<1>3. /\ entry' \in [Mac -> Entry \cup {NOWHERE}] /\ Kept(entry') = Kept(entry) \ {My.evict}
      /\ \A m \in Mac : m # My.evict => entry'[m] = entry[m]
  BY <1>1, <1>2, Emptied DEF SwitchInv
<1>4. SwitchTypeOK'
  BY <1>1, <1>3 DEF SwitchInv, SwitchTypeOK, PutEvict, Enter, InBatch, InPut
<1>5. Moving = NOWHERE /\ Moving' = NOWHERE /\ Leaving = {My.evict} /\ Leaving' = {}
  BY <1>1 DEF Moving, Leaving
<1>6. Kept(entry') = Listed(list) /\ My.evict \notin Listed(list)
  BY <1>3, <1>5 DEF SwitchInv, InOrder
<1>7. OldFirst(list, entry', NOWHERE)
  BY <1>3, <1>5, <1>6 DEF SwitchInv, InOrder, OldFirst, Listed, Kept
<1>8. InOrder'
  BY <1>1, <1>5, <1>6, <1>7 DEF SwitchInv, InOrder
<1>9. entry'[My.mac] = NOWHERE
  BY <1>1, <1>2, <1>3 DEF SwitchInv, SwitchTypeOK
<1>10. Known' /\ PortsKnown' /\ Timely'
  BY <1>1, <1>3, <1>9 DEF SwitchInv, Known, PortsKnown, Timely, InBatch, InPut, Kept
<1>. QED  BY <1>4, <1>8, <1>10 DEF SwitchInv

LEMMA PutAddStep ==
  ASSUME SwitchInv, Alone, PutAdd(Worker0)
  PROVE  SwitchInv'
<1> DEFINE list == oldest_to_newest
           now == [port |-> My.port, time |-> My.time]
<1>1. /\ Here = "malloc" /\ Here' = "get" /\ My' = My /\ list' = Append(list, My.mac)
      /\ time_now' = time_now /\ last_mac' = last_mac /\ seen' = seen /\ job' = job
      /\ entry' = [entry EXCEPT ![My.mac] = now] /\ list \in Seq(Mac)
  BY DEF PutAdd, At, Enter, Here, My, SwitchInv, SwitchTypeOK, Alone, SwitchAssumption
<1>2. My.mac \in Mac /\ now \in Entry /\ now # NOWHERE /\ My.time \in Nat /\ My.port \in Port
      /\ now.time = My.time /\ now.port = My.port /\ entry[My.mac] = NOWHERE
  BY <1>1, MyFields DEF SwitchInv, SwitchTypeOK, Known, InBatch, InPut, Entry, Alone, SwitchAssumption
<1> HIDE DEF now
<1>3. /\ entry' \in [Mac -> Entry \cup {NOWHERE}] /\ entry'[My.mac] = now
      /\ \A m \in Mac : m # My.mac => entry'[m] = entry[m]
  BY <1>1, <1>2 DEF SwitchInv, SwitchTypeOK
<1>4. Kept(entry') = Kept(entry) \cup {My.mac} /\ My.mac \notin Kept(entry)
  BY <1>2, <1>3 DEF Kept
<1>5. Moving = NOWHERE /\ Moving' = NOWHERE /\ Leaving = {} /\ Leaving' = {}
  BY <1>1 DEF Moving, Leaving
<1>6. Kept(entry) = Listed(list) /\ Distinct(list) /\ OldFirst(list, entry, NOWHERE)
      /\ Len(list) < mac_bucketcnt
  BY <1>1, <1>5 DEF SwitchInv, InOrder
<1>7. Appended(list', list, My.mac)
  BY <1>1, <1>2, <1>4, <1>6, AppendToList
<1>8. OldFirst(list', entry', NOWHERE)
  <2>1. \A x \in Listed(list) : x # My.mac /\ x \in Mac
    BY <1>4, <1>6 DEF Kept
  <2>2. OldFirst(list, entry', NOWHERE)
    BY <2>1, <1>3, <1>6 DEF OldFirst, Listed
  <2>3. \A x \in Listed(list) : entry'[x].time <= entry'[My.mac].time
    BY <2>1, <1>2, <1>3, <1>6 DEF SwitchInv, Timely
  <2>. QED  BY <2>2, <2>3, <1>1, <1>2, AppendInOrder DEF Alone, SwitchAssumption
<1>9. SwitchTypeOK'
  BY <1>1, <1>3, <1>7 DEF SwitchInv, SwitchTypeOK, PutAdd, Enter, InBatch, InPut, Appended
<1>10. InOrder'
  <2>1. Listed(list') = Listed(list) \cup {My.mac} /\ Distinct(list')
    BY <1>7 DEF Appended
  <2>2. Len(list') <= mac_bucketcnt
    BY <1>1, <1>6, <1>7 DEF Appended, Alone, SwitchAssumption
  <2>. QED  BY <1>1, <1>4, <1>5, <1>6, <1>8, <2>1, <2>2 DEF InOrder
<1>11. Timely'
  BY <1>1, <1>2, <1>3, <1>4 DEF SwitchInv, Timely, Kept
<1>12. Known' /\ PortsKnown'
  BY <1>1, <1>2, <1>3, <1>4 DEF SwitchInv, PortsKnown, Known, Kept, InBatch, InPut
<1>. QED  BY <1>9, <1>10, <1>11, <1>12 DEF SwitchInv

LEMMA PutNoMemoryStep ==
  ASSUME SwitchInv, Alone, PutNoMemory(Worker0)
  PROVE  SwitchInv'
<1>1. /\ Here = "malloc" /\ Here' = "get" /\ My' = My /\ entry' = entry /\ oldest_to_newest' = oldest_to_newest
      /\ time_now' = time_now /\ last_mac' = last_mac /\ seen' = seen /\ job' = job
  BY DEF PutNoMemory, At, Enter, macTable, Here, My, SwitchInv, SwitchTypeOK, Alone, SwitchAssumption
<1>2. SwitchTypeOK'
  BY <1>1 DEF SwitchInv, SwitchTypeOK, PutNoMemory, Enter, InBatch, InPut
<1>3. InOrder' /\ Timely' /\ Known' /\ PortsKnown'
  BY <1>1 DEF SwitchInv, InOrder, Timely, Known, PortsKnown, Leaving, Moving, InBatch, InPut
<1>. QED  BY <1>2, <1>3 DEF SwitchInv

LEMMA SwitchStep ==
  ASSUME SwitchInv, Alone, [SwitchNext]_switchVars
  PROVE  SwitchInv'
<1>1. CASE Tick
  BY <1>1, TickStep
<1>2. CASE Step(Worker0)
  <2>1. ~Poll(Worker0)
    BY DEF Poll
  <2>. QED  BY <1>2, <2>1, TimeOutLockStep, TimeOutUnlinkStep, TimeOutDeleteStep, TimeOutReturnStep, BatchEndsStep,
               PutLockStep, PutMoveStep, PutLockListStep, PutEvictStep, PutAddStep, PutNoMemoryStep,
               NextPktsStep, LearnStep, GetStep DEF Step
<1>3. CASE UNCHANGED switchVars
  BY <1>3 DEF switchVars, macTable, SwitchInv, SwitchTypeOK, InOrder, Timely, Known, PortsKnown,
              Leaving, Moving, Here, My, mac_itemcnt
<1>. QED  BY <1>1, <1>2, <1>3 DEF SwitchNext, Alone

\* The list is what ListSorted says.
LEMMA SortedBetweenCalls ==
  ASSUME SwitchInv, Alone
  PROVE  ListSorted
<1> DEFINE list == oldest_to_newest
<1> SUFFICES ASSUME Here \in {"packet", "get", "ready", "poll"}
             PROVE  /\ Listed(list) = Kept(entry)
                    /\ \A i, j \in DOMAIN list : i < j => list[i] # list[j] /\ entry[list[i]].time <= entry[list[j]].time
                    /\ Len(list) <= mac_bucketcnt
  BY DEF ListSorted, Alone, Here, Listed, Kept
<1>1. Leaving = {} /\ Moving = NOWHERE
  BY DEF Leaving, Moving
<1>2. list \in Seq(Mac) /\ DOMAIN list \subseteq Nat /\ \A i \in DOMAIN list : list[i] # NOWHERE
  BY DEF SwitchInv, SwitchTypeOK, Alone, SwitchAssumption
<1>. QED  BY <1>1, <1>2 DEF SwitchInv, InOrder, OldFirst, Distinct

\* An entry goes only in two steps, which know that it is old enough.
LEMMA OnlyOldGo ==
  ASSUME SwitchInv, Alone, [SwitchNext]_switchVars, NEW m \in Mac, entry[m] # NOWHERE, entry'[m] = NOWHERE
  PROVE  \/ entry[m].time + TIMEOUT < job[Worker0].time
         \/ /\ mac_itemcnt = mac_bucketcnt
            /\ \A k \in Mac : entry[k] # NOWHERE => entry[m].time <= entry[k].time
<1>1. Step(Worker0)
  BY DEF SwitchNext, Tick, switchVars, macTable, Alone
<1>2. entry # entry'
  OBVIOUS
<1>3. TimeOutDelete(Worker0) \/ PutLock(Worker0) \/ PutEvict(Worker0) \/ PutAdd(Worker0)
  BY <1>1, <1>2 DEF Step, macTable, TimeOutLock, TimeOutUnlink, TimeOutReturn, Poll, BatchEnds, PutMove,
     PutLockList, PutNoMemory, NextPkts, Learn, port_get
<1>4. ASSUME NEW v, NEW x, entry' = [entry EXCEPT ![x] = v]
      PROVE  m = x /\ v = NOWHERE
  BY <1>4 DEF SwitchInv, SwitchTypeOK
<1>5. CASE TimeOutDelete(Worker0)
  <2>1. Here = "delete" /\ m = My.mac
    BY <1>5, <1>4 DEF TimeOutDelete, At, Here, My
  <2>. QED  BY <2>1 DEF SwitchInv, Known, My
<1>6. CASE PutEvict(Worker0)
  <2>1. Here = "evict" /\ m = My.evict
    BY <1>6, <1>4 DEF PutEvict, At, Here, My
  <2>. QED  BY <2>1 DEF SwitchInv, Known, Kept
<1>7. ASSUME My.port \in Port, My.time \in Nat
      PROVE  [port |-> job[Worker0].port, time |-> job[Worker0].time] # NOWHERE
  <2>1. [port |-> My.port, time |-> My.time] \in Entry
    BY <1>7 DEF Entry
  <2>. QED  BY <2>1 DEF My, Alone, SwitchAssumption
<1>8. ~(PutLock(Worker0) \/ PutAdd(Worker0))
  <2>1. SUFFICES ASSUME PutLock(Worker0) \/ PutAdd(Worker0) PROVE FALSE
    OBVIOUS
  <2>2. Here \in InBatch /\ Here \in InPut
    BY <2>1 DEF PutLock, PutAdd, At, Here, InBatch, InPut
  <2>3. My.port \in Port /\ My.time \in Nat /\ My.mac \in Mac
    BY <2>2, MyFields DEF SwitchInv, SwitchTypeOK
  <2>4. CASE PutLock(Worker0)
    <3> DEFINE v == IF entry[My.mac] = NOWHERE THEN NOWHERE
                      ELSE [port |-> job[Worker0].port, time |-> job[Worker0].time]
    <3>1. entry' = [entry EXCEPT ![My.mac] = v]
      BY <2>4 DEF PutLock, My
    <3>2. m = My.mac /\ v = NOWHERE
      BY <3>1, <1>4
    <3>. QED  BY <3>2, <1>7, <2>3
  <2>5. CASE PutAdd(Worker0)
    BY <2>5, <2>3, <1>4, <1>7 DEF PutAdd
  <2>. QED  BY <2>1, <2>4, <2>5
<1>. QED  BY <1>3, <1>5, <1>6, <1>8

\* With one thread, every step of ldpswitch leaves the list from the oldest to
\* the newest entry equal to the table between two calls, port_get finds an
\* address at the port where it was seen last or not at all, and only an entry
\* that time_out finds too old, or the oldest of a full table, is given up.
THEOREM SwitchLookupsFresh ==
  ASSUME SwitchAssumption, Worker = {Worker0}
  PROVE  SwitchSpec => LookupsFresh
<1>0. Alone
  BY DEF Alone
<1>1. SwitchInit => SwitchInv
  BY <1>0, SwitchStarts
<1>2. SwitchInv /\ [SwitchNext]_switchVars => SwitchInv'
  BY <1>0, SwitchStep
<1> DEFINE Fresh ==
      ListSorted' /\ \A m \in Mac :
       /\ (\E t \in Worker : stage[t] = "get" /\ stage'[t] = "packet") => Found(m) \in {NOWHERE, seen[m]}
       /\ (entry[m] # NOWHERE /\ entry'[m] = NOWHERE) =>
            \/ entry[m].time + TIMEOUT < job[Worker0].time
            \/ /\ mac_itemcnt = mac_bucketcnt
               /\ \A k \in Mac : entry[k] # NOWHERE => entry[m].time <= entry[k].time
<1>3. SwitchInv => ListSorted
  BY <1>0, SortedBetweenCalls
<1>4. SwitchInv /\ ListSorted' /\ [SwitchNext]_switchVars => [Fresh]_switchVars
  <2> SUFFICES ASSUME SwitchInv, ListSorted', [SwitchNext]_switchVars
               PROVE  Fresh
    OBVIOUS
  <2>1. ListSorted'
    OBVIOUS
  <2>2. ASSUME NEW m \in Mac, NEW t \in Worker, stage[t] = "get"
        PROVE  Found(m) \in {NOWHERE, seen[m]}
    <3>1. Here = "get"
      BY <2>2, <1>0 DEF Here, Alone
    <3>. QED  BY <3>1 DEF Found, SwitchInv, PortsKnown, Kept
  <2>3. ASSUME NEW m \in Mac, entry[m] # NOWHERE, entry'[m] = NOWHERE
        PROVE  \/ entry[m].time + TIMEOUT < job[Worker0].time
               \/ /\ mac_itemcnt = mac_bucketcnt
                  /\ \A k \in Mac : entry[k] # NOWHERE => entry[m].time <= entry[k].time
    BY <1>0, <2>3, OnlyOldGo
  <2>. QED  BY <2>1, <2>2, <2>3
<1>. QED  BY <1>1, <1>2, <1>3, <1>4, PTL DEF SwitchSpec, LookupsFresh

-----------------------------------------------------------------------------
(* The out-queues over capture files.  The records of a queue in a file    *)
(* are, by rank, the first packets of its calls that are behind the file.  *)

Record == [queue : Outq, n : Nat, whole : BOOLEAN]
Recs(s, q) == {k \in DOMAIN s : s[k].queue = q}
UpTo(s, q, k) == {i \in Recs(s, q) : i <= k}
Written(s, q, b) ==
  /\ Cardinality(Recs(s, q)) = Len(b)
  /\ \A k \in Recs(s, q) : s[k].n = b[Cardinality(UpTo(s, q, k))]

LEMMA RecsFinite ==
  ASSUME NEW S, NEW s \in Seq(S), NEW q
  PROVE  IsFiniteSet(Recs(s, q)) /\ Cardinality(Recs(s, q)) \in Nat
<1>1. Recs(s, q) \in SUBSET (1 .. Len(s)) /\ Len(s) \in Nat
  BY DEF Recs
<1>2. IsFiniteSet(1 .. Len(s))
  BY <1>1, FS_Interval
<1>. QED  BY <1>1, <1>2, FS_Subset, FS_CardinalityType

\* Of the records up to one of a queue there is at least that one.
LEMMA RankBounds ==
  ASSUME NEW S, NEW s \in Seq(S), NEW q, NEW k \in Recs(s, q)
  PROVE  Cardinality(UpTo(s, q, k)) \in 1 .. Cardinality(Recs(s, q))
<1> DEFINE U == UpTo(s, q, k)
<1>1. U \in SUBSET Recs(s, q) /\ k \in U /\ k \in Nat
  <2>1. k \in 1 .. Len(s) /\ Len(s) \in Nat
    BY DEF Recs
  <2>. QED  BY <2>1 DEF UpTo
<1>2. IsFiniteSet(U) /\ Cardinality(U) \in Nat /\ Cardinality(U) <= Cardinality(Recs(s, q)) /\ Cardinality(Recs(s, q)) \in Nat
  BY <1>1, RecsFinite, FS_Subset, FS_CardinalityType
<1>3. Cardinality(U) # 0
  BY <1>1, <1>2, FS_EmptySet
<1>. QED  BY <1>2, <1>3

LEMMA RecordAppended ==
  ASSUME NEW s \in Seq(Record), NEW e \in Record, NEW q, NEW b \in Seq(Nat), Written(s, q, b)
  PROVE  /\ e.queue = q => Written(Append(s, e), q, Append(b, e.n))
         /\ e.queue # q => Written(Append(s, e), q, b)
<1> DEFINE t == Append(s, e)
           m == Len(s)
           R == Recs(s, q)
           c == Cardinality(R)
<1>1. /\ m \in Nat /\ DOMAIN s = 1 .. m /\ DOMAIN t = 1 .. m + 1 /\ t[m + 1] = e
      /\ \A i \in 1 .. m : t[i] = s[i]
  OBVIOUS
<1>2. IsFiniteSet(R) /\ c \in Nat /\ c = Len(b) /\ R \in SUBSET (1 .. m) /\ m + 1 \notin R
  <2>1. IsFiniteSet(R) /\ c \in Nat
    BY RecsFinite
  <2>2. c = Len(b)
    BY DEF Written
  <2>3. R \in SUBSET (1 .. m)
    BY <1>1 DEF Recs
  <2>4. m + 1 \notin 1 .. m
    BY <1>1
  <2>. QED  BY <2>1, <2>2, <2>3, <2>4
<1> HIDE DEF m, t
<1>3. ASSUME NEW k \in R
      PROVE  UpTo(t, q, k) = UpTo(s, q, k) /\ t[k].n = s[k].n
  <2>1. k \in 1 .. m
    BY <1>2
  <2>2. \A i \in 1 .. m + 1 : i <= k => i \in 1 .. m
    BY <2>1, <1>1
  <2>. QED  BY <2>1, <2>2, <1>1 DEF UpTo, Recs
<1>4. CASE e.queue # q
  <2>1. Recs(t, q) = R
    BY <1>1, <1>4 DEF Recs
  <2>. QED  BY <2>1, <1>3, <1>4 DEF Written, t
<1>5. CASE e.queue = q
  <2>1. Recs(t, q) = R \cup {m + 1}
    BY <1>1, <1>5 DEF Recs
  <2>2. Cardinality(Recs(t, q)) = c + 1
    BY <2>1, <1>2, FS_AddElement
  <2>3. UpTo(t, q, m + 1) = Recs(t, q)
    BY <1>1 DEF UpTo, Recs
  <2> DEFINE a == Append(b, e.n)
  <2>4. e.n \in Nat /\ Len(a) = c + 1 /\ a[c + 1] = e.n /\ \A i \in 1 .. c : a[i] = b[i]
    BY <1>2 DEF Record
  <2> HIDE DEF a
  <2>5. \A k \in R : Cardinality(UpTo(s, q, k)) \in 1 .. c
    BY RankBounds
  <2>6. \A k \in R : t[k].n = a[Cardinality(UpTo(t, q, k))]
    BY <2>4, <2>5, <1>3 DEF Written
  <2>7. t[m + 1].n = a[Cardinality(UpTo(t, q, m + 1))]
    BY <2>2, <2>3, <2>4, <1>1
  <2>8. Written(t, q, a)
    BY <2>1, <2>2, <2>4, <2>6, <2>7 DEF Written
  <2>. QED  BY <2>8, <1>5 DEF t, a
<1>. QED  BY <1>4, <1>5

LEMMA FrontLast ==
  ASSUME NEW s \in Seq(Nat), s # << >>
  PROVE  Front(s) \in Seq(Nat) /\ Last(s) \in Nat /\ Append(Front(s), Last(s)) = s
<1>1. Len(s) \in Nat /\ Len(s) >= 1 /\ Len(s) \in 1 .. Len(s)
  OBVIOUS
<1>2. Front(s) = [i \in 1 .. Len(s) - 1 |-> s[i]] /\ Front(s) \in Seq(Nat)
  BY <1>1 DEF Front
<1>. QED  BY <1>1, <1>2 DEF Last

LEMMA FrontAppend ==
  ASSUME NEW s \in Seq(Nat), NEW e \in Nat
  PROVE  Front(Append(s, e)) = s /\ Last(Append(s, e)) = e /\ Append(s, e) # << >> /\ Append(s, e) \in Seq(Nat)
<1>1. Len(s) \in Nat /\ Len(Append(s, e)) = Len(s) + 1 /\ Append(s, e) \in Seq(Nat)
  OBVIOUS
<1>2. Front(Append(s, e)) = [i \in 1 .. Len(s) |-> Append(s, e)[i]]
  BY <1>1 DEF Front
<1>3. \A i \in 1 .. Len(s) : Append(s, e)[i] = s[i]
  OBVIOUS
<1>4. s = [i \in 1 .. Len(s) |-> s[i]] /\ Append(s, e)[Len(s) + 1] = e
  OBVIOUS
<1>5. Front(Append(s, e)) = s
  BY <1>2, <1>3, <1>4
<1>6. Last(Append(s, e)) = e /\ Append(s, e) # << >>
  BY <1>1, <1>4 DEF Last
<1>. QED  BY <1>1, <1>5, <1>6

-----------------------------------------------------------------------------

OutTypeOK ==
  /\ outfile \in [OutFile -> Seq(Record)] /\ faults \in Nat
  /\ outstep \in [Outq -> {"idle", "regular", "ng", "test"}]
  /\ calls \in [Outq -> Seq(Nat)] /\ ret \in [Outq -> Int]
  /\ DOMAIN packets = Outq /\ \A q \in Outq : packets[q][1] \in Nat

\* A call that runs is the last one, and it writes its first packet.
Calling == \A q \in Outq : outstep[q] # "idle" => calls[q] # << >> /\ Last(calls[q]) = packets[q][1]

AllWritten == \A q \in Outq : \A f \in FilesOf[q] : Written(outfile[f], q, Behind(q, f))
AllWhole == faults = 0 => \A f \in OutFile : \A k \in DOMAIN outfile[f] : outfile[f][k].whole

OutInv == OutTypeOK /\ Calling /\ AllWritten /\ AllWhole /\ \A q \in Outq : ret[q] <= 0

LEMMA OutSays ==
  ASSUME PcapOutAssumption, OutInv
  PROVE  FirstPacketWritten
<1>1. \A q \in Outq : \A f \in FilesOf[q] : f \in OutFile
  BY DEF PcapOutAssumption
<1>. QED  BY <1>1 DEF FirstPacketWritten, OutInv, AllWritten, AllWhole, Written, UpTo, Recs, Of

LEMMA OutStarts ==
  ASSUME PcapOutAssumption, OutInit
  PROVE  OutInv
<1>1. OutTypeOK
  BY DEF OutInit, OutTypeOK
<1>2. Calling /\ AllWhole /\ \A q \in Outq : ret[q] <= 0
  BY DEF OutInit, Calling, AllWhole
<1>3. AllWritten
  <2>1. ASSUME NEW q \in Outq, NEW f \in FilesOf[q]
        PROVE  Written(outfile[f], q, Behind(q, f))
    <3>1. outfile[f] = << >> /\ Behind(q, f) = << >>
      BY DEF OutInit, Behind, PcapOutAssumption
    <3>2. Recs(<< >>, q) = {} /\ Cardinality({}) = 0
      BY FS_EmptySet DEF Recs
    <3>. QED  BY <3>1, <3>2 DEF Written
  <2>. QED  BY <2>1 DEF AllWritten
<1>. QED  BY <1>1, <1>2, <1>3 DEF OutInv

-----------------------------------------------------------------------------

LEMMA OutFacts ==
  ASSUME OutTypeOK, NEW q \in Outq
  PROVE  outstep[q] \in {"idle", "regular", "ng", "test"} /\ calls[q] \in Seq(Nat) /\ packets[q][1] \in Nat
         /\ ret[q] \in Int
  BY DEF OutTypeOK

LEMMA InjectStep ==
  ASSUME PcapOutAssumption, OutInv, NEW q \in Outq, NEW first \in 1 .. MaxPackets, NEW num \in 0 .. MaxPackets,
         ldp_out_queue_inject_pcap(q, first, num)
  PROVE  OutInv'
<1> USE DEF OutInv
<1>0. MaxPackets \in Nat
  BY DEF PcapOutAssumption
<1>1. outstep[q] = "idle" /\ ret' = [ret EXCEPT ![q] = 0] /\ outfile' = outfile /\ faults' = faults
  BY DEF ldp_out_queue_inject_pcap, Set
<1>2. ret' \in [Outq -> Int] /\ \A p \in Outq : ret'[p] <= 0
  BY <1>1 DEF OutTypeOK
<1>3. AllWhole'
  BY <1>1 DEF AllWhole
<1>4. CASE UNCHANGED <<outstep, packets, calls>>
  <2>1. OutTypeOK' /\ Calling'
    BY <1>1, <1>2, <1>4 DEF OutTypeOK, Calling
  <2>2. AllWritten'
    BY <1>1, <1>4 DEF AllWritten, Behind
  <2>. QED  BY <2>1, <2>2, <1>2, <1>3
<1>5. CASE ~(num = 0 \/ FilesOf[q] = {})
  <2>1. /\ packets' = [packets EXCEPT ![q] = [k \in 1 .. num |-> first + k - 1]]
        /\ calls' = [calls EXCEPT ![q] = Append(@, first)]
        /\ outstep' = [outstep EXCEPT ![q] = "regular"]
    BY <1>5 DEF ldp_out_queue_inject_pcap, Proceed
  <2>2. 1 \in 1 .. num /\ first \in Nat /\ first + 1 - 1 = first
    BY <1>0, <1>5
  <2>3. /\ DOMAIN packets' = Outq /\ packets'[q][1] = first
        /\ \A p \in Outq : p # q => packets'[p] = packets[p] /\ calls'[p] = calls[p] /\ outstep'[p] = outstep[p]
        /\ calls'[q] = Append(calls[q], first) /\ outstep'[q] = "regular"
    BY <2>1, <2>2 DEF OutTypeOK
  <2>4. calls[q] \in Seq(Nat)
    BY DEF OutTypeOK
  <2>5. Front(calls'[q]) = calls[q] /\ Last(calls'[q]) = first /\ calls'[q] # << >> /\ calls'[q] \in Seq(Nat)
    BY <2>2, <2>3, <2>4, FrontAppend
  <2>6. OutTypeOK'
    <3>1. calls' \in [Outq -> Seq(Nat)] /\ outstep' \in [Outq -> {"idle", "regular", "ng", "test"}]
      BY <2>1, <2>3, <2>5 DEF OutTypeOK
    <3>2. \A p \in Outq : packets'[p][1] \in Nat
      BY <2>2, <2>3 DEF OutTypeOK
    <3>. QED  BY <3>1, <3>2, <2>3, <1>1, <1>2 DEF OutTypeOK
  <2>7. Calling'
    BY <2>3, <2>5 DEF Calling
  <2>8. ASSUME NEW p \in Outq, NEW f \in FilesOf[p]
        PROVE  Behind(p, f)' = Behind(p, f)
    <3>1. CASE p = q
      BY <3>1, <2>3, <2>5, <1>1 DEF Behind
    <3>2. CASE p # q
      BY <3>2, <2>3 DEF Behind
    <3>. QED  BY <3>1, <3>2
  <2>9. AllWritten'
    BY <2>8, <1>1 DEF AllWritten
  <2>. QED  BY <2>6, <2>7, <2>9, <1>2, <1>3
<1>. QED  BY <1>4, <1>5 DEF ldp_out_queue_inject_pcap

\* The calls behind a file, before and after the call of q has passed it.
LEMMA PassFile ==
  ASSUME OutInv, NEW q \in Outq, NEW g \in OutFile, outstep[q] = g, calls' = calls,
         outstep' = [outstep EXCEPT ![q] = IF g = "regular" THEN "ng" ELSE "test"]
  PROVE  /\ Behind(q, g) \in Seq(Nat) /\ Behind(q, g)' = Append(Behind(q, g), packets[q][1])
         /\ \A p \in Outq, f \in OutFile : ~(p = q /\ f = g) => Behind(p, f)' = Behind(p, f)
         /\ \A p \in Outq, f \in OutFile : Behind(p, f) \in Seq(Nat)
<1> USE DEF OutInv
<1>1. outstep[q] # "idle" /\ calls[q] # << >> /\ Last(calls[q]) = packets[q][1] /\ calls[q] \in Seq(Nat)
  BY DEF Calling, OutTypeOK, OutFile
<1>2. Front(calls[q]) \in Seq(Nat) /\ Append(Front(calls[q]), packets[q][1]) = calls[q]
  BY <1>1, FrontLast
<1>3. /\ outstep'[q] = IF g = "regular" THEN "ng" ELSE "test"
      /\ \A p \in Outq : p # q => outstep'[p] = outstep[p]
  BY DEF OutTypeOK
<1>4. Behind(q, g) = Front(calls[q]) /\ Behind(q, g)' = calls[q]
  BY <1>3 DEF Behind, OutFile
<1>5. ASSUME NEW p \in Outq, NEW f \in OutFile, ~(p = q /\ f = g)
      PROVE  Behind(p, f)' = Behind(p, f)
  BY <1>3, <1>5 DEF Behind, OutFile
<1>6. ASSUME NEW p \in Outq, NEW f \in OutFile
      PROVE  Behind(p, f) \in Seq(Nat)
  <2>1. calls[p] \in Seq(Nat) /\ (outstep[p] # "idle" => calls[p] # << >>)
    BY DEF OutTypeOK, Calling
  <2>2. outstep[p] # "idle" => Front(calls[p]) \in Seq(Nat)
    BY <2>1, FrontLast
  <2>. QED  BY <2>1, <2>2 DEF Behind
<1>. QED  BY <1>2, <1>4, <1>5, <1>6

\* The call of q has been at the file g.
LEMMA FileStep ==
  ASSUME PcapOutAssumption, OutInv, NEW q \in Outq, NEW g \in OutFile, outstep[q] = g, WriteIfOpen(q, g),
         outstep' = [outstep EXCEPT ![q] = IF g = "regular" THEN "ng" ELSE "test"], UNCHANGED <<packets, calls>>
  PROVE  OutInv'
<1> USE DEF OutInv
<1>1. /\ Behind(q, g) \in Seq(Nat) /\ Behind(q, g)' = Append(Behind(q, g), packets[q][1])
      /\ \A p \in Outq, f \in OutFile : ~(p = q /\ f = g) => Behind(p, f)' = Behind(p, f)
      /\ \A p \in Outq, f \in OutFile : Behind(p, f) \in Seq(Nat)
  BY PassFile
<1>2. outstep' \in [Outq -> {"idle", "regular", "ng", "test"}]
  BY DEF OutTypeOK
<1>3. Calling'
  <2>1. outstep[q] # "idle" /\ \A p \in Outq : outstep'[p] # "idle" => outstep[p] # "idle"
    BY DEF OutTypeOK, OutFile
  <2>. QED  BY <2>1 DEF Calling
<1>4. CASE g \notin FilesOf[q]
  <2>1. UNCHANGED <<outfile, ret, faults>>
    BY <1>4 DEF WriteIfOpen
  <2>2. AllWritten'
    <3>1. \A p \in Outq : \A f \in FilesOf[p] : f \in OutFile /\ ~(p = q /\ f = g)
      BY <1>4 DEF PcapOutAssumption
    <3>. QED  BY <3>1, <2>1, <1>1 DEF AllWritten
  <2>. QED  BY <2>1, <2>2, <1>2, <1>3 DEF OutTypeOK, AllWhole
<1>5. CASE g \in FilesOf[q]
  <2>1. PICK w \in BOOLEAN :
          /\ outfile' = [outfile EXCEPT ![g] = Append(@, [queue |-> q, n |-> packets[q][1], whole |-> w])]
          /\ ret' = [ret EXCEPT ![q] = IF w THEN 0 ELSE -5]
          /\ faults' = IF w THEN faults ELSE faults + 1
    <3>1. Write(q, g)
      BY <1>5 DEF WriteIfOpen
    <3>2. CASE Set(q, 0) /\ UNCHANGED faults
                /\ outfile' = [outfile EXCEPT ![g] = Append(@, [queue |-> q, n |-> Current(q), whole |-> TRUE])]
      <4>. WITNESS TRUE \in BOOLEAN
      <4>. QED  BY <3>2 DEF Set, Current
    <3>3. CASE faults' = faults + 1 /\ Set(q, -EIO)
                /\ outfile' = [outfile EXCEPT ![g] = Append(@, [queue |-> q, n |-> Current(q), whole |-> FALSE])]
      <4>. WITNESS FALSE \in BOOLEAN
      <4>. QED  BY <3>3 DEF Set, Current, EIO
    <3>. QED  BY <3>1, <3>2, <3>3 DEF Write
  <2> DEFINE e == [queue |-> q, n |-> packets[q][1], whole |-> w]
  <2>2. e \in Record /\ e.queue = q /\ e.n = packets[q][1] /\ e.whole = w
    BY DEF OutTypeOK, Record
  <2>3. outfile'[g] = Append(outfile[g], e) /\ \A f \in OutFile : f # g => outfile'[f] = outfile[f]
    BY <2>1 DEF OutTypeOK
  <2>4. outfile[g] \in Seq(Record)
    BY DEF OutTypeOK
  <2> HIDE DEF e
  <2>5. Append(outfile[g], e) \in Seq(Record)
    BY <2>2, <2>4
  <2>6. outfile' \in [OutFile -> Seq(Record)]
    BY <2>1, <2>5 DEF OutTypeOK, e
  <2>7. ret' \in [Outq -> Int] /\ faults' \in Nat /\ \A p \in Outq : ret'[p] <= 0
    <3>1. CASE w
      BY <3>1, <2>1 DEF OutTypeOK
    <3>2. CASE ~w
      BY <3>2, <2>1 DEF OutTypeOK
    <3>. QED  BY <3>1, <3>2
  <2>8. OutTypeOK'
    BY <2>6, <2>7, <1>2 DEF OutTypeOK
  <2>9. AllWhole'
    <3>1. faults' = 0 => w /\ faults = 0
      BY <2>1 DEF OutTypeOK
    <3>2. ASSUME faults' = 0
          PROVE  \A k \in DOMAIN outfile'[g] : outfile'[g][k].whole
      <4>1. w /\ \A k \in DOMAIN outfile[g] : outfile[g][k].whole
        BY <3>1, <3>2 DEF AllWhole
      <4>2. /\ Len(outfile[g]) \in Nat /\ DOMAIN outfile[g] = 1 .. Len(outfile[g])
            /\ DOMAIN Append(outfile[g], e) = 1 .. Len(outfile[g]) + 1
            /\ (\A i \in 1 .. Len(outfile[g]) : Append(outfile[g], e)[i] = outfile[g][i])
            /\ Append(outfile[g], e)[Len(outfile[g]) + 1] = e
        BY <2>2, <2>4
      <4>3. \A i \in 1 .. Len(outfile[g]) + 1 : i \in 1 .. Len(outfile[g]) \/ i = Len(outfile[g]) + 1
        BY <4>2
      <4>4. \A i \in 1 .. Len(outfile[g]) : Append(outfile[g], e)[i].whole
        BY <4>1, <4>2
      <4>5. Append(outfile[g], e)[Len(outfile[g]) + 1].whole
        BY <4>1, <4>2, <2>2
      <4>6. \A i \in 1 .. Len(outfile[g]) + 1 : Append(outfile[g], e)[i].whole
        BY <4>3, <4>4, <4>5
      <4>. QED  BY <4>2, <4>6, <2>3
    <3>. QED  BY <3>1, <3>2, <2>3 DEF AllWhole
  <2>10. ASSUME NEW p \in Outq, NEW f \in FilesOf[p]
         PROVE  Written(outfile'[f], p, Behind(p, f)')
    <3>1. f \in OutFile /\ Written(outfile[f], p, Behind(p, f)) /\ Behind(p, f) \in Seq(Nat)
      BY <1>1 DEF AllWritten, PcapOutAssumption
    <3>2. CASE f # g
      BY <3>1, <3>2, <2>3, <1>1
    <3>3. CASE f = g /\ p # q
      <4>1. Written(Append(outfile[g], e), p, Behind(p, g))
        BY <3>1, <3>3, <2>2, <2>4, RecordAppended
      <4>. QED  BY <4>1, <3>1, <3>3, <2>3, <1>1
    <3>4. CASE f = g /\ p = q
      <4>1. Written(Append(outfile[g], e), q, Append(Behind(q, g), packets[q][1]))
        BY <3>1, <3>4, <2>2, <2>4, RecordAppended
      <4>. QED  BY <4>1, <3>4, <2>3, <1>1
    <3>. QED  BY <3>2, <3>3, <3>4
  <2>11. AllWritten'
    BY <2>10 DEF AllWritten
  <2>. QED  BY <2>7, <2>8, <2>9, <2>11, <1>3
<1>. QED  BY <1>4, <1>5

LEMMA OutReturnStep ==
  ASSUME OutInv, NEW q \in Outq, Return(q)
  PROVE  OutInv'
<1> USE DEF OutInv
<1>1. /\ outstep[q] = "test" /\ ret' = [ret EXCEPT ![q] = -1] /\ outstep' = [outstep EXCEPT ![q] = "idle"]
      /\ UNCHANGED <<outfile, packets, calls, faults>>
  BY DEF Return, Set, Proceed
<1>2. outstep'[q] = "idle" /\ \A p \in Outq : p # q => outstep'[p] = outstep[p]
  BY <1>1 DEF OutTypeOK
<1>3. OutTypeOK' /\ \A p \in Outq : ret'[p] <= 0
  BY <1>1 DEF OutTypeOK
<1>4. Calling'
  BY <1>1, <1>2 DEF Calling
<1>5. ASSUME NEW p \in Outq, NEW f \in FilesOf[p]
      PROVE  Behind(p, f)' = Behind(p, f)
  BY <1>1, <1>2 DEF Behind
<1>6. AllWritten' /\ AllWhole'
  BY <1>1, <1>5 DEF AllWritten, AllWhole
<1>. QED  BY <1>3, <1>4, <1>6

\* The capture out-queues (ldppcap.c): for every number of queues, every choice of
\* files and any mix of their calls and of writes that fail, each file of a queue
\* has the first packet of every call, once and in order, and yet no call with a
\* file says that it has written something.
THEOREM OutFirstPacketWritten ==
  ASSUME PcapOutAssumption
  PROVE  OutSpec => []FirstPacketWritten
<1>1. OutInit => OutInv
  BY OutStarts
<1>2. OutInv /\ [OutNext]_outVars => OutInv'
  <2> SUFFICES ASSUME OutInv, [OutNext]_outVars
               PROVE  OutInv'
    OBVIOUS
  <2>1. ASSUME NEW q \in Outq, NEW first \in 1 .. MaxPackets, NEW num \in 0 .. MaxPackets,
               ldp_out_queue_inject_pcap(q, first, num)
        PROVE  OutInv'
    BY <2>1, InjectStep
  <2>2. ASSUME NEW q \in Outq, WriteRegular(q)
        PROVE  OutInv'
    BY <2>2, FileStep DEF WriteRegular, Proceed, OutFile
  <2>3. ASSUME NEW q \in Outq, WriteNg(q)
        PROVE  OutInv'
    BY <2>3, FileStep DEF WriteNg, Proceed, OutFile
  <2>4. ASSUME NEW q \in Outq, Return(q)
        PROVE  OutInv'
    BY <2>4, OutReturnStep
  <2>5. CASE UNCHANGED outVars
    BY <2>5 DEF outVars, OutInv, OutTypeOK, Calling, AllWritten, AllWhole, Behind
  <2>. QED  BY <2>1, <2>2, <2>3, <2>4, <2>5 DEF OutNext, Reopen
<1>3. OutInv => FirstPacketWritten
  BY OutSays
<1>. QED  BY <1>1, <1>2, <1>3, PTL DEF OutSpec
=============================================================================
