----------------------------- MODULE RingProofs -----------------------------
(***************************************************************************)
(* The rings of packet buffers behind the in-queues, of the socket and of  *)
(* the capture-file driver, for every number of buffers and queues: the    *)
(* caller and the ring never share a buffer, none is lost and none comes   *)
(* back twice, whatever the order in which packets are returned.  For the  *)
(* capture files also: the reader outlives its queues, and the records     *)
(* come in order, at most once and into buffers that are large enough.     *)
(*                                                                         *)
(* A slot is reached from buf_start in Turns(buf_start, j) increments; the *)
(* ring has its buffers in the slots that are fewer than num_bufs - n      *)
(* turns away when the caller holds n packets.                             *)
(***************************************************************************)
EXTENDS SocketQueue, PcapIn, FiniteSetTheorems, TLAPS

-----------------------------------------------------------------------------
(* The ring of buffers.                                                    *)

\* What is behind a ring: a slot for each buffer.
RingOf(B) == [bufs : [BufSlot -> B], buf_start : BufSlot, buf_end : BufSlot]

LEMMA RingFields ==
  ASSUME NEW B, NEW r \in RingOf(B)
  PROVE  r.bufs \in [BufSlot -> B] /\ r.buf_start \in BufSlot /\ r.buf_end \in BufSlot
  BY DEF RingOf

\* Advance and Turns undo each other.
LEMMA RingExcept ==
  ASSUME NEW B, NEW r \in RingOf(B), NEW b, NEW e
  PROVE  /\ [r EXCEPT !.bufs = b, !.buf_end = e] = [bufs |-> b, buf_start |-> r.buf_start, buf_end |-> e]
         /\ [r EXCEPT !.buf_start = e] = [bufs |-> r.bufs, buf_start |-> e, buf_end |-> r.buf_end]
<1>1. [r EXCEPT !.bufs = b, !.buf_end = e] \in [bufs : {b}, buf_start : {r.buf_start}, buf_end : {e}]
  BY DEF RingOf
<1>2. \A y \in [bufs : {b}, buf_start : {r.buf_start}, buf_end : {e}] :
         y = [bufs |-> b, buf_start |-> r.buf_start, buf_end |-> e]
  OBVIOUS
<1>3. [r EXCEPT !.buf_start = e] = [bufs |-> r.bufs, buf_start |-> e, buf_end |-> r.buf_end]
  BY DEF RingOf
<1>. QED  BY <1>1, <1>2, <1>3

LEMMA AdvanceStays ==
  ASSUME PacketRingAssumption, NEW i \in BufSlot, NEW n \in 0 .. num_bufs
  PROVE  /\ Advance(i, n) \in BufSlot
         /\ n < num_bufs => Turns(i, Advance(i, n)) = n
  BY DEF PacketRingAssumption, BufSlot, Advance, Turns

LEMMA TurnsLead ==
  ASSUME PacketRingAssumption, NEW i \in BufSlot, NEW j \in BufSlot
  PROVE  Turns(i, j) \in 0 .. num_bufs - 1 /\ Advance(i, Turns(i, j)) = j
  BY DEF PacketRingAssumption, BufSlot, Advance, Turns

\* Two slots as far from a third are one.
LEMMA TurnsDiffer ==
  ASSUME PacketRingAssumption, NEW i \in BufSlot, NEW j \in BufSlot, NEW k \in BufSlot, Turns(i, j) = Turns(i, k)
  PROVE  j = k
  BY DEF PacketRingAssumption, BufSlot, Turns

\* The way over a slot that is nearer, or around the ring.
LEMMA TurnsAdd ==
  ASSUME PacketRingAssumption, NEW i \in BufSlot, NEW n \in 0 .. num_bufs - 1, NEW j \in BufSlot
  PROVE  Turns(i, j) = IF Turns(Advance(i, n), j) + n >= num_bufs
                       THEN Turns(Advance(i, n), j) + n - num_bufs ELSE Turns(Advance(i, n), j) + n
<1> DEFINE a == Advance(i, n)
<1>1. a \in BufSlot /\ a = IF i + n >= num_bufs THEN i + n - num_bufs ELSE i + n
  BY AdvanceStays DEF Advance, PacketRingAssumption
<1> HIDE DEF a
<1>2. num_bufs \in Nat /\ i \in 0 .. num_bufs - 1 /\ j \in 0 .. num_bufs - 1 /\ a \in 0 .. num_bufs - 1
  BY <1>1 DEF PacketRingAssumption, BufSlot
<1>3. Turns(i, j) = IF Turns(a, j) + n >= num_bufs THEN Turns(a, j) + n - num_bufs ELSE Turns(a, j) + n
  BY <1>1, <1>2 DEF Turns
<1>. QED  BY <1>3 DEF a

LEMMA StockedTurns ==
  ASSUME PacketRingAssumption, NEW B, NEW r \in RingOf(B), NEW n \in 0 .. num_bufs
  PROVE  Stocked(r, n) = {j \in BufSlot : Turns(r.buf_start, j) < num_bufs - n}
<1>1. r.buf_start \in BufSlot /\ num_bufs \in Nat \ {0}
  BY RingFields DEF PacketRingAssumption
<1>2. ASSUME NEW j \in Stocked(r, n)
      PROVE  j \in BufSlot /\ Turns(r.buf_start, j) < num_bufs - n
  <2>1. PICK i \in 0 .. num_bufs - n - 1 : j = Advance(r.buf_start, i)
    BY DEF Stocked
  <2>2. i \in 0 .. num_bufs /\ i < num_bufs /\ i < num_bufs - n
    BY <1>1, <2>1
  <2>. QED  BY <2>1, <2>2, <1>1, AdvanceStays
<1>3. ASSUME NEW j \in BufSlot, Turns(r.buf_start, j) < num_bufs - n
      PROVE  j \in Stocked(r, n)
  <2> DEFINE i == Turns(r.buf_start, j)
  <2>1. i \in 0 .. num_bufs - 1 /\ Advance(r.buf_start, i) = j
    BY <1>1, TurnsLead
  <2>2. i \in 0 .. num_bufs - n - 1
    BY <2>1, <1>3, <1>1
  <2>. QED  BY <2>1, <2>2 DEF Stocked
<1>. QED  BY <1>2, <1>3

\* Where buf_end is, in a ring that counts its buffers.
LEMMA EndTurns ==
  ASSUME PacketRingAssumption, NEW B, NEW r \in RingOf(B), NEW n \in 0 .. num_bufs - 1
  PROVE  amnt_free(r) = num_bufs - 1 - n <=> r.buf_end = Advance(r.buf_start, num_bufs - n)
<1>1. r.buf_start \in 0 .. num_bufs - 1 /\ r.buf_end \in 0 .. num_bufs - 1 /\ num_bufs \in Nat \ {0}
  BY RingFields DEF PacketRingAssumption, BufSlot
<1>. QED  BY <1>1 DEF amnt_free, Advance

\* Sound, by the number of turns from buf_start.
Has(r, n, j) == Turns(r.buf_start, j) < num_bufs - n
Counted(r, H, n) ==
  /\ n = Cardinality(H) /\ n \in 0 .. num_bufs - 1
  /\ r.buf_end = Advance(r.buf_start, num_bufs - n)
  /\ \A j \in BufSlot : Has(r, n, j) => r.bufs[j] \notin H
  /\ \A j, k \in BufSlot : Has(r, n, j) /\ Has(r, n, k) /\ j # k => r.bufs[j] # r.bufs[k]
LEMMA SoundTurns ==
  ASSUME PacketRingAssumption, NEW B, NEW r \in RingOf(B), NEW H, IsFiniteSet(H)
  PROVE  Sound(r, H) <=> Counted(r, H, Cardinality(H))
<1> DEFINE n == Cardinality(H)
<1>1. n \in Nat /\ num_bufs \in Nat \ {0}
  BY FS_CardinalityType DEF PacketRingAssumption
<1> HIDE DEF n
<1>2. CASE n < num_bufs
  <2>1. n \in 0 .. num_bufs - 1 /\ n \in 0 .. num_bufs
    BY <1>1, <1>2
  <2>2. Stocked(r, n) = {j \in BufSlot : Has(r, n, j)}
    BY <2>1, StockedTurns DEF Has
  <2>3. amnt_free(r) = num_bufs - 1 - n <=> r.buf_end = Advance(r.buf_start, num_bufs - n)
    BY <2>1, EndTurns
  <2>4. Sound(r, H) <=> /\ r.buf_end = Advance(r.buf_start, num_bufs - n)
                        /\ \A i \in Stocked(r, n) : r.bufs[i] \notin H
                        /\ \A i, j \in Stocked(r, n) : i # j => r.bufs[i] # r.bufs[j]
    BY <2>3, <1>2 DEF Sound, n
  <2>. QED  BY <2>1, <2>2, <2>4 DEF Counted, n
<1>3. CASE ~(n < num_bufs)
  BY <1>1, <1>3 DEF Sound, Counted, n
<1>. QED  BY <1>2, <1>3

\* The slots that have their buffer after the first n have given theirs.
Gone(r, n) == [r EXCEPT !.buf_start = Advance(@, n)]
LEMMA ReceiveHas ==
  ASSUME PacketRingAssumption, NEW B, NEW r \in RingOf(B), NEW h \in 0 .. num_bufs - 1,
         NEW n \in 0 .. num_bufs - 1 - h, NEW j \in BufSlot, Has(Gone(r, n), h + n, j)
  PROVE  Has(r, h, j) /\ Turns(r.buf_start, j) >= n
<1> DEFINE a == Advance(r.buf_start, n)
<1>1. num_bufs \in Nat \ {0} /\ r.buf_start \in BufSlot /\ n \in 0 .. num_bufs - 1 /\ n \in 0 .. num_bufs
  BY RingFields DEF PacketRingAssumption
<1>2. a \in BufSlot /\ Gone(r, n).buf_start = a
  BY <1>1, AdvanceStays DEF Gone, RingOf
<1>3. Turns(a, j) \in 0 .. num_bufs - 1
  BY <1>2, TurnsLead
<1>4. Turns(r.buf_start, j) = IF Turns(a, j) + n >= num_bufs THEN Turns(a, j) + n - num_bufs ELSE Turns(a, j) + n
  BY <1>1, TurnsAdd
<1>5. Turns(a, j) < num_bufs - (h + n)
  BY <1>2 DEF Has
<1> HIDE DEF a
<1>6. Turns(r.buf_start, j) = Turns(a, j) + n
  BY <1>1, <1>3, <1>4, <1>5
<1>. QED  BY <1>1, <1>3, <1>5, <1>6 DEF Has

\* The buffers of the first n slots are given, and the ring is sound without them.
Received(r, H, n) ==
  /\ First(r, n) \in [1 .. n -> Range(First(r, n))]
  /\ \A i, j \in 1 .. n : First(r, n)[i] = First(r, n)[j] => i = j
  /\ Range(First(r, n)) \cap H = {}
  /\ IsFiniteSet(H \cup Range(First(r, n)))
  /\ Sound(Gone(r, n), H \cup Range(First(r, n)))
LEMMA ReceiveSound ==
  ASSUME PacketRingAssumption, NEW B, NEW r \in RingOf(B), NEW H, IsFiniteSet(H), Sound(r, H),
         NEW n \in 0 .. amnt_free(r)
  PROVE  Received(r, H, n) /\ Gone(r, n) \in RingOf(B) /\ Range(First(r, n)) \subseteq B
<1> DEFINE h == Cardinality(H)
           given == First(r, n)
           G == Range(given)
           s == Gone(r, n)
<1>1. Counted(r, H, h) /\ amnt_free(r) = num_bufs - 1 - h
  BY SoundTurns DEF Sound
<1>2. num_bufs \in Nat \ {0} /\ h \in 0 .. num_bufs - 1 /\ n \in 0 .. num_bufs - 1 - h
      /\ r.buf_start \in BufSlot /\ r.buf_end \in BufSlot /\ r.bufs \in [BufSlot -> B]
  BY <1>1, RingFields DEF Counted, PacketRingAssumption
<1> HIDE DEF h
<1>3. n \in 0 .. num_bufs /\ n \in 0 .. num_bufs - 1 /\ n < num_bufs
  BY <1>2
<1>4. s \in RingOf(B) /\ s.bufs = r.bufs /\ s.buf_start = Advance(r.buf_start, n) /\ s.buf_end = r.buf_end
  <2>1. Advance(r.buf_start, n) \in BufSlot
    BY <1>2, <1>3, AdvanceStays
  <2>. QED  BY <2>1 DEF Gone, RingOf
<1>5. given \in [1 .. n -> G] /\ \A i \in 1 .. n : given[i] = r.bufs[Advance(r.buf_start, i - 1)]
  BY DEF First, Range
<1>6. \A x \in G : \E i \in 1 .. n : x = given[i]
  BY DEF First, Range
<1> HIDE DEF given, G, s
<1>7. ASSUME NEW i \in 1 .. n
      PROVE  /\ Advance(r.buf_start, i - 1) \in BufSlot /\ Turns(r.buf_start, Advance(r.buf_start, i - 1)) = i - 1
             /\ Has(r, h, Advance(r.buf_start, i - 1))
  <2>1. i - 1 \in 0 .. num_bufs /\ i - 1 < num_bufs /\ i - 1 < num_bufs - h
    BY <1>2
  <2>2. Advance(r.buf_start, i - 1) \in BufSlot /\ Turns(r.buf_start, Advance(r.buf_start, i - 1)) = i - 1
    BY <2>1, <1>2, AdvanceStays
  <2>. QED  BY <2>1, <2>2 DEF Has
<1>8. \A i, j \in 1 .. n : given[i] = given[j] => i = j
  <2> SUFFICES ASSUME NEW i \in 1 .. n, NEW j \in 1 .. n, given[i] = given[j] PROVE i = j
    OBVIOUS
  <2>1. Advance(r.buf_start, i - 1) = Advance(r.buf_start, j - 1)
    BY <1>1, <1>5, <1>7 DEF Counted
  <2>2. i - 1 = j - 1
    BY <2>1, <1>7
  <2>. QED  BY <2>2, <1>2
<1>9. G \cap H = {}
  <2> SUFFICES ASSUME NEW x \in G, x \in H PROVE FALSE
    OBVIOUS
  <2>1. PICK i \in 1 .. n : x = given[i]
    BY <1>6
  <2>. QED  BY <2>1, <1>1, <1>5, <1>7 DEF Counted
<1>10. IsFiniteSet(G) /\ Cardinality(G) = n
  <2>1. given \in Bijection(1 .. n, G)
    BY <1>5, <1>6, <1>8 DEF Bijection, Injection, Surjection, IsInjective
  <2>2. IsFiniteSet(1 .. n)
    BY <1>3, FS_Interval
  <2>3. Cardinality(1 .. n) = IF 1 > n THEN 0 ELSE n - 1 + 1
    BY <1>3, FS_Interval
  <2>4. Cardinality(1 .. n) = n
    BY <2>3, <1>3
  <2>. QED  BY <2>1, <2>2, <2>4, FS_Bijection DEF ExistsBijection
<1>11. IsFiniteSet(H \cup G) /\ Cardinality(H \cup G) = h + n
  <2>1. Cardinality(H \cup G) = Cardinality(H) + Cardinality(G) - Cardinality(H \cap G)
    BY <1>10, FS_Union
  <2>2. H \cap G = {} /\ Cardinality({}) = 0
    BY <1>9, FS_EmptySet
  <2>3. IsFiniteSet(H \cup G)
    BY <1>10, FS_Union
  <2>4. Cardinality(H \cup G) = h + n - 0
    BY <2>1, <2>2, <1>10 DEF h
  <2>. QED  BY <2>3, <2>4, <1>2
<1>12. ASSUME NEW j \in BufSlot, Has(s, h + n, j)
       PROVE  Has(r, h, j) /\ Turns(r.buf_start, j) >= n
  BY <1>12, <1>2, <1>3, ReceiveHas DEF s
<1>13. Counted(s, H \cup G, h + n)
  <2>1. h + n \in 0 .. num_bufs - 1
    BY <1>2
  <2>2. s.buf_end = Advance(s.buf_start, num_bufs - (h + n))
    <3>1. r.buf_end = Advance(r.buf_start, num_bufs - h) /\ r.buf_start \in 0 .. num_bufs - 1
      BY <1>1, <1>2 DEF Counted, BufSlot
    <3>. QED  BY <3>1, <1>2, <1>4 DEF Advance
  <2>3. ASSUME NEW j \in BufSlot, Has(s, h + n, j), r.bufs[j] \in G PROVE FALSE
    <3>1. PICK i \in 1 .. n : r.bufs[j] = given[i]
      BY <2>3, <1>6
    <3>2. j = Advance(r.buf_start, i - 1)
      BY <3>1, <2>3, <1>1, <1>5, <1>7, <1>12 DEF Counted
    <3>3. Turns(r.buf_start, j) = i - 1 /\ Turns(r.buf_start, j) >= n
      BY <3>2, <1>7, <1>12, <2>3
    <3>. QED  BY <3>3, <1>3
  <2>. QED  BY <2>1, <2>2, <2>3, <1>1, <1>4, <1>11, <1>12 DEF Counted
<1>14. Sound(s, H \cup G)
  BY <1>4, <1>11, <1>13, SoundTurns
<1>15. G \subseteq B
  BY <1>2, <1>5, <1>6, <1>7
<1>. QED  BY <1>4, <1>5, <1>8, <1>9, <1>11, <1>14, <1>15 DEF Received, given, G, s

\* The slots that had their buffer keep it, the others get the returned ones.
KeptOrBack(r, pkts, h, j) ==
  LET s == deallocate_some(r, pkts)
  IN  \/ Has(r, h, j) /\ s.bufs[j] = r.bufs[j]
      \/ /\ ~Has(r, h, j) /\ Turns(r.buf_end, j) + 1 \in 1 .. Len(pkts)
         /\ s.bufs[j] = pkts[Turns(r.buf_end, j) + 1]
LEMMA ReturnHas ==
  ASSUME PacketRingAssumption, NEW B, NEW r \in RingOf(B), NEW h \in 0 .. num_bufs - 1,
         r.buf_end = Advance(r.buf_start, num_bufs - h),
         NEW pkts, Len(pkts) \in 0 .. h, NEW j \in BufSlot, Has(deallocate_some(r, pkts), h - Len(pkts), j)
  PROVE  KeptOrBack(r, pkts, h, j)
<1> DEFINE t == Turns(r.buf_start, j)
           u == Turns(r.buf_end, j)
           m == Len(pkts)
           s == deallocate_some(r, pkts)
<1>0. num_bufs \in Nat \ {0} /\ r.buf_start \in BufSlot /\ r.buf_end \in BufSlot /\ m \in 0 .. h
  BY RingFields DEF PacketRingAssumption
<1>1. s.buf_start = r.buf_start /\ s.bufs[j] = IF u < m THEN pkts[u + 1] ELSE r.bufs[j]
  BY DEF deallocate_some, Refilled, RingOf
<1>2. t < num_bufs - (h - m)
  BY <1>1 DEF Has
<1>3. t \in 0 .. num_bufs - 1 /\ u \in 0 .. num_bufs - 1
  BY <1>0, TurnsLead
<1>4. u = IF t < num_bufs - h THEN (IF h = 0 THEN t ELSE t + h) ELSE t - (num_bufs - h)
  <2>1. CASE h = 0
    <3>1. r.buf_end = r.buf_start
      BY <2>1, <1>0 DEF Advance, BufSlot
    <3>. QED  BY <3>1, <2>1, <1>0, <1>3
  <2>2. CASE h # 0
    <3>1. num_bufs - h \in 0 .. num_bufs - 1
      BY <2>2, <1>0
    <3>2. t = IF u + (num_bufs - h) >= num_bufs THEN u + (num_bufs - h) - num_bufs ELSE u + (num_bufs - h)
      BY <3>1, <1>0, TurnsAdd
    <3>. QED  BY <3>2, <2>2, <1>0, <1>3
  <2>. QED  BY <2>1, <2>2
<1> HIDE DEF t, u, m, s
<1>5. CASE t < num_bufs - h
  <2>1. ~(u < m)
    BY <1>0, <1>3, <1>4, <1>5
  <2>. QED  BY <2>1, <1>1, <1>5 DEF t, u, m, s, Has, KeptOrBack
<1>6. CASE ~(t < num_bufs - h)
  <2>1. u < m /\ u + 1 \in 1 .. m
    BY <1>0, <1>2, <1>3, <1>4, <1>6
  <2>. QED  BY <2>1, <1>1, <1>6 DEF t, u, m, s, Has, KeptOrBack
<1>. QED  BY <1>5, <1>6

\* Some of the caller's buffers go back.
Returned(r, H, pkts) ==
  /\ IsFiniteSet(H \ Range(pkts))
  /\ Sound(deallocate_some(r, pkts), H \ Range(pkts))
LEMMA ReturnSound ==
  ASSUME PacketRingAssumption, NEW B, NEW r \in RingOf(B), NEW H \in SUBSET B, IsFiniteSet(H), Sound(r, H),
         NEW m \in Nat, NEW pkts \in [1 .. m -> H], \A i, j \in 1 .. m : pkts[i] = pkts[j] => i = j
  PROVE  Returned(r, H, pkts) /\ deallocate_some(r, pkts) \in RingOf(B)
<1> DEFINE h == Cardinality(H)
           G == Range(pkts)
           s == deallocate_some(r, pkts)
<1>1. Counted(r, H, h)
  BY SoundTurns
<1>2. num_bufs \in Nat \ {0} /\ h \in 0 .. num_bufs - 1
      /\ r.buf_start \in BufSlot /\ r.buf_end \in BufSlot /\ r.bufs \in [BufSlot -> B]
  BY <1>1, RingFields DEF Counted, PacketRingAssumption
<1> HIDE DEF h
<1>3. Len(pkts) = m /\ DOMAIN pkts = 1 .. m
  OBVIOUS
<1>4. G \subseteq H /\ \A x \in G : \E i \in 1 .. m : x = pkts[i]
  BY DEF Range
<1>5. \A i \in 1 .. m : pkts[i] \in G /\ pkts[i] \in B
  BY DEF Range
<1> HIDE DEF G
<1>6. IsFiniteSet(G) /\ Cardinality(G) = m
  <2>1. pkts \in Bijection(1 .. m, G)
    BY <1>4, <1>5 DEF Bijection, Injection, Surjection, IsInjective
  <2>2. IsFiniteSet(1 .. m)
    BY FS_Interval
  <2>3. Cardinality(1 .. m) = IF 1 > m THEN 0 ELSE m - 1 + 1
    BY FS_Interval
  <2>4. Cardinality(1 .. m) = m
    BY <2>3
  <2>. QED  BY <2>1, <2>2, <2>4, FS_Bijection DEF ExistsBijection
<1>7. IsFiniteSet(H \ G) /\ Cardinality(H \ G) = h - m /\ m \in 0 .. h
  <2>1. Cardinality(H \ G) = Cardinality(H) - Cardinality(H \cap G)
    BY FS_Difference
  <2>2. IsFiniteSet(H \ G)
    BY FS_Difference
  <2>3. H \cap G = G
    BY <1>4
  <2>4. Cardinality(G) <= Cardinality(H)
    BY <1>4, FS_Subset
  <2>5. Cardinality(H \ G) = h - m /\ m <= h
    BY <2>1, <2>3, <2>4, <1>6 DEF h
  <2>. QED  BY <2>2, <2>5, <1>2
<1>8. /\ s.buf_start = r.buf_start /\ s.buf_end = Advance(r.buf_end, m)
      /\ \A j \in BufSlot : s.bufs[j] = IF Turns(r.buf_end, j) < m THEN pkts[Turns(r.buf_end, j) + 1] ELSE r.bufs[j]
  BY <1>3 DEF deallocate_some, Refilled, RingOf
<1>9. ASSUME NEW j \in BufSlot
      PROVE  Turns(r.buf_end, j) \in 0 .. num_bufs - 1 /\ (Turns(r.buf_end, j) < m => Turns(r.buf_end, j) + 1 \in 1 .. m)
  BY <1>2, TurnsLead
<1>10. s \in RingOf(B)
  <2>1. Advance(r.buf_end, m) \in BufSlot
    <3>1. m \in 0 .. num_bufs
      BY <1>2, <1>7
    <3>. QED  BY <3>1, <1>2, AdvanceStays
  <2>2. Refilled(r, r.buf_end, pkts) \in [BufSlot -> B]
    BY <1>2, <1>3, <1>5, <1>9 DEF Refilled
  <2>. QED  BY <2>1, <2>2, <1>3 DEF deallocate_some, RingOf
<1> HIDE DEF s
<1>11. ASSUME NEW j \in BufSlot, Has(s, h - m, j)
       PROVE  KeptOrBack(r, pkts, h, j)
  BY <1>1, <1>2, <1>3, <1>7, <1>11, ReturnHas DEF Counted, s
<1>12. Counted(s, H \ G, h - m)
  <2>1. h - m \in 0 .. num_bufs - 1
    BY <1>2, <1>7
  <2>2. s.buf_end = Advance(s.buf_start, num_bufs - (h - m))
    <3>1. r.buf_end = Advance(r.buf_start, num_bufs - h) /\ r.buf_start \in 0 .. num_bufs - 1
      BY <1>1, <1>2 DEF Counted, BufSlot
    <3>. QED  BY <3>1, <1>2, <1>7, <1>8 DEF Advance
  <2>3. ASSUME NEW j \in BufSlot, Has(s, h - m, j)
        PROVE  s.bufs[j] \notin H \ G
    BY <2>3, <1>1, <1>3, <1>5, <1>11 DEF Counted, KeptOrBack, s
  <2>4. ASSUME NEW j \in BufSlot, NEW k \in BufSlot, Has(s, h - m, j), Has(s, h - m, k), s.bufs[j] = s.bufs[k]
        PROVE  j = k
    <3>1. CASE Has(r, h, j) /\ Has(r, h, k)
      BY <3>1, <2>4, <1>1, <1>11 DEF Counted, KeptOrBack, s
    <3>2. CASE ~Has(r, h, j) /\ ~Has(r, h, k)
      <4>1. Turns(r.buf_end, j) + 1 = Turns(r.buf_end, k) + 1
        BY <3>2, <2>4, <1>3, <1>11 DEF KeptOrBack, s
      <4>2. Turns(r.buf_end, j) = Turns(r.buf_end, k)
        BY <4>1, <1>9
      <4>. QED  BY <4>2, <1>2, TurnsDiffer
    <3>3. ASSUME NEW x \in BufSlot, NEW y \in BufSlot, Has(s, h - m, x), Has(s, h - m, y),
                 Has(r, h, x), ~Has(r, h, y)
          PROVE  s.bufs[x] # s.bufs[y]
      BY <3>3, <1>1, <1>3, <1>11 DEF Counted, KeptOrBack, s
    <3>. QED  BY <3>1, <3>2, <3>3, <2>4
  <2>. QED  BY <2>1, <2>2, <2>3, <2>4, <1>7 DEF Counted
<1>13. Sound(s, H \ G)
  BY <1>7, <1>10, <1>12, SoundTurns
<1>. QED  BY <1>7, <1>10, <1>13 DEF Returned, G, s

-----------------------------------------------------------------------------
(* The in-queue over a packet socket.                                      *)

\* Ranks number the elements from 1 on.
LEMMA Ranks ==
  ASSUME NEW S \in SUBSET Int, IsFiniteSet(S)
  PROVE  /\ Cardinality(S) \in Nat
         /\ \A x \in S : Rank(S, x) \in 1 .. Cardinality(S)
         /\ \A x, y \in S : Rank(S, x) = Rank(S, y) => x = y
         /\ \A n \in 1 .. Cardinality(S) : \E x \in S : Rank(S, x) = n
<1> DEFINE Below(x) == {y \in S : y <= x}
           f == [x \in S |-> Rank(S, x)]
<1>1. Cardinality(S) \in Nat
  BY FS_CardinalityType
<1>2. ASSUME NEW x \in S
      PROVE  IsFiniteSet(Below(x)) /\ Cardinality(Below(x)) \in 1 .. Cardinality(S)
  <2>1. Below(x) \in SUBSET S /\ x \in Below(x)
    OBVIOUS
  <2>2. IsFiniteSet(Below(x)) /\ Cardinality(Below(x)) <= Cardinality(S)
    BY <2>1, FS_Subset
  <2>3. Cardinality(Below(x)) # 0 /\ Cardinality(Below(x)) \in Nat
    BY <2>1, <2>2, FS_EmptySet, FS_CardinalityType
  <2>. QED  BY <2>2, <2>3, <1>1
<1>3. ASSUME NEW x \in S, NEW y \in S, x < y
      PROVE  Rank(S, x) # Rank(S, y)
  <2>0. /\ x \in Int /\ y \in Int /\ y <= y /\ ~(y <= x)
        /\ \A z \in S : z <= x => z <= y
    BY <1>3
  <2>1. Below(x) \in SUBSET Below(y) /\ y \in Below(y) /\ y \notin Below(x)
    BY <2>0
  <2>2. Cardinality(Below(y)) = Cardinality(Below(x)) => Below(y) = Below(x)
    BY <2>1, <1>2, FS_Subset
  <2>. QED  BY <2>1, <2>2 DEF Rank
<1>4. \A x \in S : Rank(S, x) \in 1 .. Cardinality(S)
  BY <1>2 DEF Rank
<1>5. \A x, y \in S : Rank(S, x) = Rank(S, y) => x = y
  <2> SUFFICES ASSUME NEW x \in S, NEW y \in S, x # y PROVE Rank(S, x) # Rank(S, y)
    OBVIOUS
  <2>1. x < y \/ y < x
    OBVIOUS
  <2>. QED  BY <2>1, <1>3
<1>6. f \in Injection(S, 1 .. Cardinality(S))
  BY <1>4, <1>5 DEF Injection, IsInjective
<1>7. IsFiniteSet(1 .. Cardinality(S))
  BY <1>1, FS_Interval
<1>8. Cardinality(1 .. Cardinality(S)) = IF 1 > Cardinality(S) THEN 0 ELSE Cardinality(S) - 1 + 1
  BY <1>1, FS_Interval
<1>9. Cardinality(1 .. Cardinality(S)) = Cardinality(S)
  BY <1>8, <1>1
<1>10. f \in Surjection(S, 1 .. Cardinality(S))
  BY <1>6, <1>7, <1>9, FS_Injection
<1>11. \A n \in 1 .. Cardinality(S) : \E x \in S : Rank(S, x) = n
  BY <1>10 DEF Surjection
<1>. QED  BY <1>1, <1>4, <1>5, <1>11

LEMMA AscendingAll ==
  ASSUME NEW S \in SUBSET Int, IsFiniteSet(S)
  PROVE  /\ Cardinality(S) \in Nat
         /\ \A n \in 1 .. Cardinality(S) : Ascending(S)[n] \in S
         /\ \A m, n \in 1 .. Cardinality(S) : Ascending(S)[m] = Ascending(S)[n] => m = n
         /\ \A x \in S : \E n \in 1 .. Cardinality(S) : Ascending(S)[n] = x
<1>1. ASSUME NEW n \in 1 .. Cardinality(S)
      PROVE  Ascending(S)[n] \in S /\ Rank(S, Ascending(S)[n]) = n
  <2>1. Ascending(S)[n] = CHOOSE x \in S : Rank(S, x) = n
    BY DEF Ascending
  <2>2. \E x \in S : Rank(S, x) = n
    BY Ranks
  <2>. QED  BY <2>1, <2>2
<1>2. ASSUME NEW x \in S
      PROVE  \E n \in 1 .. Cardinality(S) : Ascending(S)[n] = x
  <2>1. Rank(S, x) \in 1 .. Cardinality(S)
    BY Ranks
  <2>2. Rank(S, Ascending(S)[Rank(S, x)]) = Rank(S, x) /\ Ascending(S)[Rank(S, x)] \in S
    BY <2>1, <1>1
  <2>3. \A y \in S : Rank(S, y) = Rank(S, x) => y = x
    BY Ranks
  <2>4. Ascending(S)[Rank(S, x)] = x
    BY <2>2, <2>3
  <2>. QED  BY <2>1, <2>4
<1>3. Cardinality(S) \in Nat
  BY Ranks
<1>4. \A m, n \in 1 .. Cardinality(S) : Ascending(S)[m] = Ascending(S)[n] => m = n
  BY <1>1
<1>. QED  BY <1>1, <1>2, <1>3, <1>4

SocketInv == insock \in RingOf(BufSlot) /\ lent \in SUBSET BufSlot /\ IsFiniteSet(lent) /\ Sound(insock, lent)

LEMMA SocketStarts ==
  ASSUME PacketRingAssumption, SocketInit
  PROVE  SocketInv
<1>1. num_bufs \in Nat \ {0} /\ 0 \in BufSlot
  BY DEF PacketRingAssumption, BufSlot
<1>2. insock = [bufs |-> [i \in BufSlot |-> i], buf_start |-> 0, buf_end |-> 0] /\ lent = {}
  BY DEF SocketInit, Full
<1>3. insock \in RingOf(BufSlot)
  BY <1>1, <1>2 DEF RingOf
<1>4. IsFiniteSet(lent) /\ Cardinality(lent) = 0
  BY <1>2, FS_EmptySet
<1>5. Counted(insock, lent, 0)
  BY <1>1, <1>2, <1>4 DEF Counted, Advance
<1>. QED  BY <1>2, <1>3, <1>4, <1>5, SoundTurns DEF SocketInv

\* A batch: all of its buffers leave the ring, and those of packets that the host
\* sent come back.
LEMMA TakeStep ==
  ASSUME PacketRingAssumption, SocketInv, NEW k \in 0 .. amnt_free(insock),
         NEW got \in [1 .. k -> {"host", "outgoing"}], Take(got)
  PROVE  SocketInv'
<1> DEFINE given == First(insock, k)
           Out == {i \in DOMAIN got : got[i] = "outgoing"}
           missed == [i \in 1 .. Cardinality(Out) |-> given[Ascending(Out)[i]]]
           H == lent \cup Range(given)
<1>1. k \in Nat
  <2>1. amnt_free(insock) = num_bufs - 1 - Cardinality(lent) /\ Cardinality(lent) \in Nat /\ num_bufs \in Nat
    BY FS_CardinalityType DEF SocketInv, Sound, PacketRingAssumption
  <2>. QED  BY <2>1
<1>2. Len(got) = k /\ DOMAIN got = 1 .. k
  BY <1>1
<1>3. /\ insock' = deallocate_some(Gone(insock, k), missed)
      /\ lent' = lent \cup {given[i] : i \in {j \in 1 .. k : got[j] = "host"}}
  BY <1>2 DEF Take, Gone
<1>4. Received(insock, lent, k) /\ Gone(insock, k) \in RingOf(BufSlot) /\ Range(given) \subseteq BufSlot
  BY ReceiveSound DEF SocketInv
<1>5. /\ given \in [1 .. k -> Range(given)]
      /\ \A i, j \in 1 .. k : given[i] = given[j] => i = j
      /\ Range(given) \cap lent = {}
      /\ IsFiniteSet(H) /\ Sound(Gone(insock, k), H)
  BY <1>4 DEF Received
<1>6. Range(given) = {given[i] : i \in 1 .. k}
  BY <1>5 DEF Range
<1>7. Out \in SUBSET Int /\ Out \in SUBSET (1 .. k) /\ IsFiniteSet(Out)
  <2>1. Out \in SUBSET (1 .. k)
    BY <1>2
  <2>2. IsFiniteSet(1 .. k)
    BY <1>1, FS_Interval
  <2>3. IsFiniteSet(Out)
    BY <2>1, <2>2, FS_Subset
  <2>. QED  BY <2>1, <2>3
<1>8. Out = {j \in 1 .. k : got[j] = "outgoing"}
  BY <1>2
<1> HIDE DEF Out, given
<1>9. /\ Cardinality(Out) \in Nat
      /\ \A n \in 1 .. Cardinality(Out) : Ascending(Out)[n] \in Out
      /\ \A m, n \in 1 .. Cardinality(Out) : Ascending(Out)[m] = Ascending(Out)[n] => m = n
      /\ \A x \in Out : \E n \in 1 .. Cardinality(Out) : Ascending(Out)[n] = x
  BY <1>7, AscendingAll
<1>10. /\ missed \in [1 .. Cardinality(Out) -> H]
       /\ \A i, j \in 1 .. Cardinality(Out) : missed[i] = missed[j] => i = j
  BY <1>5, <1>7, <1>9
<1>11. Range(missed) = {given[i] : i \in Out}
  BY <1>9 DEF Range
<1> HIDE DEF missed
<1>12. H \in SUBSET BufSlot
  BY <1>4 DEF SocketInv, given
<1> HIDE DEF H
<1>13. Returned(Gone(insock, k), H, missed) /\ insock' \in RingOf(BufSlot)
  <2>1. Gone(insock, k) \in RingOf(BufSlot) /\ Sound(Gone(insock, k), H) /\ IsFiniteSet(H)
    BY <1>4, <1>5
  <2>2. Returned(Gone(insock, k), H, missed) /\ deallocate_some(Gone(insock, k), missed) \in RingOf(BufSlot)
    BY <2>1, <1>9, <1>10, <1>12, ReturnSound
  <2>. QED  BY <2>2, <1>3 DEF missed, Out, given
<1>14. lent' = H \ Range(missed)
  <2>1. \A i \in 1 .. k : got[i] = "host" <=> i \notin Out
    BY <1>8
  <2>2. \A i \in 1 .. k : given[i] \in Range(missed) <=> i \in Out
    BY <1>5, <1>7, <1>11
  <2>3. \A x \in lent : x \notin Range(missed)
    BY <1>5, <1>7, <1>11
  <2>4. lent' = lent \cup {given[i] : i \in {j \in 1 .. k : j \notin Out}}
    BY <1>3, <2>1 DEF given
  <2>5. H = lent \cup {given[i] : i \in 1 .. k}
    BY <1>6 DEF H
  <2>. QED  BY <2>2, <2>3, <2>4, <2>5
<1>15. IsFiniteSet(lent') /\ Sound(insock', lent') /\ lent' \in SUBSET BufSlot
  BY <1>3, <1>12, <1>13, <1>14 DEF Returned, missed, Out, given
<1>. QED  BY <1>13, <1>15 DEF SocketInv

LEMMA SocketReturnStep ==
  ASSUME PacketRingAssumption, SocketInv, NEW pkts \in Returns(lent), ldp_in_queue_deallocate_some_socket(pkts)
  PROVE  SocketInv'
<1>1. PICK S \in SUBSET lent : pkts \in Bijection(1 .. Cardinality(S), S)
  BY DEF Returns
<1>2. IsFiniteSet(S) /\ Cardinality(S) \in Nat
  BY FS_Subset, FS_CardinalityType DEF SocketInv
<1>3. /\ pkts \in [1 .. Cardinality(S) -> S]
      /\ \A i, j \in 1 .. Cardinality(S) : pkts[i] = pkts[j] => i = j
  BY <1>1 DEF Bijection, Injection, IsInjective
<1>4. pkts \in [1 .. Cardinality(S) -> lent]
  BY <1>1, <1>3
<1>5. Returned(insock, lent, pkts) /\ deallocate_some(insock, pkts) \in RingOf(BufSlot)
  BY <1>2, <1>3, <1>4, ReturnSound DEF SocketInv
<1>. QED  BY <1>5 DEF SocketInv, Returned, ldp_in_queue_deallocate_some_socket

\* For any number of buffers: the ring of a socket counts its free buffers
\* exactly, receives only into buffers that the caller has not got, and has each
\* buffer once, whatever batches arrive, whichever packets in them the host has
\* sent itself, and in whichever order the caller returns the others.
THEOREM SocketRingSound == ASSUME PacketRingAssumption PROVE SocketSpec => []RingSound
<1>1. SocketInit => SocketInv
  BY SocketStarts
<1>2. SocketInv /\ [SocketNext]_socketVars => SocketInv'
  <2> SUFFICES ASSUME SocketInv, [SocketNext]_socketVars
               PROVE  SocketInv'
    OBVIOUS
  <2>1. ASSUME NEW num \in 1 .. num_bufs, ldp_in_queue_nextpkts_socket(num)
        PROVE  SocketInv'
    <3>1. amnt_free(insock) \in Nat
      <4>1. amnt_free(insock) = num_bufs - 1 - Cardinality(lent) /\ Cardinality(lent) \in Nat /\ num_bufs \in Nat
            /\ Cardinality(lent) < num_bufs
        BY FS_CardinalityType DEF SocketInv, Sound, PacketRingAssumption
      <4>. QED  BY <4>1
    <3> DEFINE most == IF num > amnt_free(insock) THEN amnt_free(insock) ELSE num
    <3>2. \A k \in 0 .. most : k \in 0 .. amnt_free(insock)
      BY <3>1
    <3>3. PICK got \in Batch(most) : Take(got)
      BY <2>1 DEF ldp_in_queue_nextpkts_socket
    <3>4. PICK k \in 0 .. most : got \in [1 .. k -> {"host", "outgoing"}]
      BY DEF Batch
    <3>. QED  BY <3>2, <3>3, <3>4, TakeStep
  <2>2. ASSUME NEW pkts \in Returns(lent), ldp_in_queue_deallocate_some_socket(pkts)
        PROVE  SocketInv'
    BY <2>2, SocketReturnStep
  <2>3. CASE UNCHANGED socketVars
    BY <2>3 DEF socketVars, SocketInv
  <2>. QED  BY <2>1, <2>2, <2>3 DEF SocketNext
<1>3. SocketInv => RingSound
  BY DEF SocketInv, RingSound
<1>. QED  BY <1>1, <1>2, <1>3, PTL DEF SocketSpec

-----------------------------------------------------------------------------
(* The rings of the in-queues over a capture file.  A buffer is its memory *)
(* whatever its capacity is, so that the ring is sound in its memories.    *)

Mem(r) == [bufs |-> [i \in BufSlot |-> r.bufs[i].data], buf_start |-> r.buf_start, buf_end |-> r.buf_end]
Mems(H) == {p.data : p \in H}
Own(q) == {q} \X BufSlot

QueueOk(q, r, H, sz) ==
  /\ r \in BufRing /\ H \in SUBSET Buffer /\ IsFiniteSet(H)
  /\ \A i \in BufSlot : r.bufs[i].data \in Own(q)
  /\ \A p \in H : p.data \in Own(q) /\ p.anc = sz[p.data]
  /\ \A p, o \in H : p.data = o.data => p = o
  /\ Sound(Mem(r), Mems(H))
  /\ \A i \in BufSlot : Has(r, Cardinality(H), i) => r.bufs[i].anc = sz[r.bufs[i].data]

LEMMA MemRing ==
  ASSUME NEW r \in BufRing
  PROVE  /\ Mem(r) \in RingOf(PcapQueue \X BufSlot) /\ r \in RingOf(Buffer)
         /\ \A i \in BufSlot : r.bufs[i] \in Buffer /\ Mem(r).bufs[i] = r.bufs[i].data
         /\ Mem(r).buf_start = r.buf_start /\ Mem(r).buf_end = r.buf_end
         /\ r.buf_start \in BufSlot /\ r.buf_end \in BufSlot
  BY DEF BufRing, RingOf, Mem, Buffer

\* As many memories as packets.
LEMMA MemsCount ==
  ASSUME NEW H, IsFiniteSet(H), \A p, o \in H : p.data = o.data => p = o
  PROVE  IsFiniteSet(Mems(H)) /\ Cardinality(Mems(H)) = Cardinality(H)
<1> DEFINE f == [p \in H |-> p.data]
<1>1. f \in Bijection(H, Mems(H))
  BY DEF Bijection, Injection, Surjection, IsInjective, Mems
<1>. QED  BY <1>1, FS_Bijection DEF ExistsBijection

LEMMA QueueCounted ==
  ASSUME PacketRingAssumption, NEW q, NEW r, NEW H, NEW sz, QueueOk(q, r, H, sz)
  PROVE  /\ Counted(Mem(r), Mems(H), Cardinality(H)) /\ Counted(r, H, Cardinality(H))
         /\ Cardinality(H) \in 0 .. num_bufs - 1
         /\ amnt_free(r) = num_bufs - 1 - Cardinality(H) /\ amnt_free(Mem(r)) = amnt_free(r)
<1> DEFINE h == Cardinality(H)
<1>1. IsFiniteSet(Mems(H)) /\ Cardinality(Mems(H)) = h
  BY MemsCount DEF QueueOk
<1>2. Counted(Mem(r), Mems(H), h)
  BY <1>1, MemRing, SoundTurns DEF QueueOk
<1> HIDE DEF h
<1>3. \A j \in BufSlot : Has(Mem(r), h, j) <=> Has(r, h, j)
  BY MemRing DEF Has, QueueOk
<1>4. \A x : x \in H => x.data \in Mems(H)
  BY DEF Mems
<1>5. Counted(r, H, h)
  <2>1. \A j \in BufSlot : Mem(r).bufs[j] = r.bufs[j].data
    BY MemRing DEF QueueOk
  <2>2. Mem(r).buf_start = r.buf_start /\ Mem(r).buf_end = r.buf_end
    BY MemRing DEF QueueOk
  <2>. QED  BY <1>2, <1>3, <1>4, <2>1, <2>2 DEF Counted, h
<1>6. amnt_free(r) = num_bufs - 1 - h
  <2>1. Sound(r, H)
    BY <1>5, MemRing, SoundTurns DEF QueueOk, h
  <2>. QED  BY <2>1 DEF Sound, h
<1>7. amnt_free(Mem(r)) = amnt_free(r)
  BY MemRing DEF QueueOk, amnt_free
<1>. QED  BY <1>2, <1>5, <1>6, <1>7 DEF Counted, h

\* What BuffersSound says of a queue.
LEMMA QueueIsSound ==
  ASSUME PacketRingAssumption, NEW q, NEW r, NEW H, NEW sz, QueueOk(q, r, H, sz)
  PROVE  /\ Sound(r, H)
         /\ \A i \in Stocked(r, Cardinality(H)) : r.bufs[i].anc = sz[r.bufs[i].data]
<1>1. Counted(r, H, Cardinality(H)) /\ Cardinality(H) \in 0 .. num_bufs - 1 /\ num_bufs \in Nat
  BY QueueCounted DEF PacketRingAssumption
<1>2. Sound(r, H)
  BY <1>1, MemRing, SoundTurns DEF QueueOk
<1>3. Cardinality(H) \in 0 .. num_bufs
  BY <1>1
<1>4. Stocked(r, Cardinality(H)) = {j \in BufSlot : Has(r, Cardinality(H), j)}
  BY <1>3, MemRing, StockedTurns DEF Has, QueueOk
<1>. QED  BY <1>2, <1>4 DEF QueueOk

\* A queue minds only the sizes of its own memories.
LEMMA QueueFrame ==
  ASSUME NEW q, NEW r, NEW H, NEW sz, NEW new, QueueOk(q, r, H, sz), \A b \in Own(q) : new[b] = sz[b]
  PROVE  QueueOk(q, r, H, new)
  BY DEF QueueOk

LEMMA QueueOpened ==
  ASSUME PacketRingAssumption, NEW q \in PcapQueue, NEW sz, \A b \in Own(q) : sz[b] = 0
  PROVE  QueueOk(q, Full([i \in BufSlot |-> [data |-> <<q, i>>, anc |-> 0]]), {}, sz)
<1> DEFINE r == Full([i \in BufSlot |-> [data |-> <<q, i>>, anc |-> 0]])
<1>1. num_bufs \in Nat \ {0} /\ 0 \in BufSlot
  BY DEF PacketRingAssumption, BufSlot
<1>2. /\ \A i \in BufSlot : r.bufs[i].data = <<q, i>> /\ r.bufs[i].anc = 0 /\ r.bufs[i].data \in Own(q)
      /\ r.buf_start = 0 /\ r.buf_end = 0 /\ r \in BufRing
  BY <1>1 DEF Full, BufRing, Buffer, Own
<1>3. IsFiniteSet({}) /\ Cardinality({}) = 0 /\ Mems({}) = {}
  BY FS_EmptySet DEF Mems
<1> HIDE DEF r
<1>4. Counted(Mem(r), {}, 0)
  <2>1. Mem(r).buf_end = Advance(Mem(r).buf_start, num_bufs - 0)
    BY <1>1, <1>2, MemRing DEF Advance
  <2>2. \A j, k \in BufSlot : j # k => Mem(r).bufs[j] # Mem(r).bufs[k]
    BY <1>2, MemRing
  <2>. QED  BY <1>1, <1>3, <2>1, <2>2 DEF Counted
<1>5. Sound(Mem(r), Mems({}))
  BY <1>2, <1>3, <1>4, MemRing, SoundTurns
<1>. QED  BY <1>2, <1>3, <1>5 DEF QueueOk, r

LEMMA CapacityFits ==
  ASSUME NEW old \in Nat, NEW min \in Nat
  PROVE  Capacity(old, min) \in Nat /\ Capacity(old, min) >= min
  BY DEF Capacity

\* A packet is copied to the buffer at buf_start, which may grow.
Grown(r, min) == [r.bufs[r.buf_start] EXCEPT !.anc = Capacity(@, min)]
Interned(q, r, H, sz, min) ==
  LET old == r.bufs[r.buf_start]
      new == [sz EXCEPT ![old.data] = IF Grown(r, min) = old THEN @ ELSE Grown(r, min).anc]
  IN  /\ old \in Buffer /\ old.data \in Own(q)
      /\ QueueOk(q, [r EXCEPT !.bufs[r.buf_start] = Grown(r, min), !.buf_start = Advance(@, 1)],
                 H \cup {Grown(r, min)}, new)
      /\ new[old.data] \in Nat /\ new[old.data] >= min
LEMMA QueueInterns ==
  ASSUME PacketRingAssumption, NEW q \in PcapQueue, NEW r, NEW H, NEW sz \in [PcapQueue \X BufSlot -> Nat],
         QueueOk(q, r, H, sz), amnt_free(r) # 0, NEW min \in Nat
  PROVE  Interned(q, r, H, sz, min)
<1> DEFINE b == r.buf_start
           old == r.bufs[b]
           slot == Grown(r, min)
           s == [r EXCEPT !.bufs[r.buf_start] = Grown(r, min), !.buf_start = Advance(@, 1)]
           new == [sz EXCEPT ![old.data] = IF slot = old THEN @ ELSE slot.anc]
           h == Cardinality(H)
<1>1. h \in 0 .. num_bufs - 1 /\ amnt_free(r) = num_bufs - 1 - h /\ num_bufs \in Nat \ {0}
      /\ Counted(Mem(r), Mems(H), h) /\ amnt_free(Mem(r)) = amnt_free(r)
  BY QueueCounted DEF PacketRingAssumption
<1>2. b \in BufSlot /\ old \in Buffer /\ old.data \in PcapQueue \X BufSlot /\ old.anc \in Nat /\ old.data \in Own(q)
      /\ r \in BufRing /\ H \in SUBSET Buffer /\ IsFiniteSet(H)
  BY MemRing DEF QueueOk, Buffer
<1>3. slot \in Buffer /\ slot.data = old.data /\ slot.anc \in Nat /\ slot.anc >= min /\ (slot.anc = old.anc => slot = old)
  BY <1>2, CapacityFits DEF Grown, Buffer
<1> HIDE DEF h, slot, old
<1>4. Advance(b, 1) \in BufSlot /\ 1 \in 0 .. num_bufs - 1 - h /\ 1 \in 0 .. amnt_free(Mem(r))
  <2>1. 1 \in 0 .. num_bufs /\ 1 \in 0 .. num_bufs - 1 - h /\ 1 \in 0 .. amnt_free(Mem(r))
    BY <1>1
  <2>. QED  BY <2>1, <1>2, AdvanceStays
<1>5. /\ s \in BufRing /\ s.buf_start = Advance(b, 1) /\ s.buf_end = r.buf_end /\ s.bufs[b] = slot
      /\ \A i \in BufSlot : i # b => s.bufs[i] = r.bufs[i]
  BY <1>2, <1>3, <1>4 DEF BufRing, slot
<1>6. Mem(s) = Gone(Mem(r), 1)
  <2>1. \A i \in BufSlot : s.bufs[i].data = r.bufs[i].data
    BY <1>3, <1>5 DEF old
  <2>2. [i \in BufSlot |-> s.bufs[i].data] = [i \in BufSlot |-> r.bufs[i].data]
    BY <2>1
  <2>3. Gone(Mem(r), 1) = [bufs |-> Mem(r).bufs, buf_start |-> Advance(r.buf_start, 1), buf_end |-> r.buf_end]
    <3>1. Mem(r) \in RingOf(PcapQueue \X BufSlot) /\ Mem(r).buf_start = r.buf_start /\ Mem(r).buf_end = r.buf_end
      BY <1>2, MemRing
    <3>2. Gone(Mem(r), 1) = [Mem(r) EXCEPT !.buf_start = Advance(Mem(r).buf_start, 1)]
      BY DEF Gone
    <3>. QED  BY <3>1, <3>2, RingExcept
  <2>4. Mem(r).bufs = [i \in BufSlot |-> r.bufs[i].data]
    BY DEF Mem
  <2>5. Mem(s) = [bufs |-> [i \in BufSlot |-> s.bufs[i].data], buf_start |-> s.buf_start, buf_end |-> s.buf_end]
    BY DEF Mem
  <2> HIDE DEF s
  <2>. QED  BY <2>2, <2>3, <2>4, <2>5, <1>5
<1>7. Received(Mem(r), Mems(H), 1) /\ IsFiniteSet(Mems(H))
  <2>1. IsFiniteSet(Mems(H)) /\ Sound(Mem(r), Mems(H))
    BY MemsCount DEF QueueOk
  <2>2. Mem(r) \in RingOf(PcapQueue \X BufSlot)
    BY <1>2, MemRing
  <2>3. Received(Mem(r), Mems(H), 1)
    BY <1>4, <2>1, <2>2, ReceiveSound
  <2>. QED  BY <2>1, <2>3
<1>8. Range(First(Mem(r), 1)) = {old.data}
  <2>1. First(Mem(r), 1) = [i \in 1 .. 1 |-> Mem(r).bufs[Advance(b, i - 1)]]
    BY <1>2, MemRing DEF First
  <2>2. Advance(b, 1 - 1) = b
    BY <1>1, <1>2 DEF Advance, BufSlot
  <2>3. Mem(r).bufs[b] = old.data
    BY <1>2, MemRing DEF old
  <2>4. DOMAIN First(Mem(r), 1) = {1} /\ First(Mem(r), 1)[1] = old.data
    BY <2>1, <2>2, <2>3
  <2>. QED  BY <2>4 DEF Range
<1>9. Mems(H \cup {slot}) = Mems(H) \cup {old.data}
  BY <1>3 DEF Mems
<1>10. old.data \notin Mems(H) /\ Sound(Mem(s), Mems(H \cup {slot}))
  BY <1>6, <1>7, <1>8, <1>9 DEF Received
<1>11. slot \notin H /\ \A p \in H : p.data # old.data
  BY <1>3, <1>10 DEF Mems
<1>12. IsFiniteSet(H \cup {slot}) /\ Cardinality(H \cup {slot}) = h + 1
  BY <1>2, <1>11, FS_AddElement DEF h
<1>13. /\ \A x \in PcapQueue \X BufSlot : x # old.data => new[x] = sz[x]
       /\ new[old.data] = slot.anc
  <2>1. slot = old => sz[old.data] = old.anc
    <3>1. Has(r, h, b)
      BY <1>1, <1>2 DEF Has, Turns, BufSlot
    <3>. QED  BY <3>1, <1>2 DEF QueueOk, h, old
  <2>. QED  BY <2>1, <1>2
<1> HIDE DEF new
<1>14. ASSUME NEW i \in BufSlot, Has(s, h + 1, i)
       PROVE  Has(r, h, i) /\ i # b /\ r.bufs[i].data # old.data
  <2>1. Has(Gone(Mem(r), 1), h + 1, i) /\ Mem(r) \in RingOf(PcapQueue \X BufSlot)
    BY <1>2, <1>5, <1>6, <1>14, MemRing DEF Has
  <2>2. Has(Mem(r), h, i) /\ Turns(b, i) >= 1
    BY <2>1, <1>1, <1>2, <1>4, ReceiveHas, MemRing
  <2>3. i # b /\ Has(Mem(r), h, b)
    BY <2>2, <1>1, <1>2, MemRing DEF Turns, BufSlot, Has
  <2>4. Mem(r).bufs[i] # Mem(r).bufs[b]
    BY <2>2, <2>3, <1>1, <1>2 DEF Counted
  <2>. QED  BY <2>2, <2>3, <2>4, <1>2, MemRing DEF Has, old
<1>15. QueueOk(q, s, H \cup {slot}, new)
  <2>1. \A i \in BufSlot : s.bufs[i].data \in Own(q)
    BY <1>2, <1>3, <1>5 DEF QueueOk
  <2>2. \A p \in H \cup {slot} : p.data \in Own(q) /\ p.anc = new[p.data]
    <3>1. \A p \in H : p.data \in Own(q) /\ p.anc = sz[p.data] /\ p.data \in PcapQueue \X BufSlot
      BY <1>2 DEF QueueOk, Buffer
    <3>. QED  BY <3>1, <1>2, <1>3, <1>11, <1>13
  <2>3. \A p, o \in H \cup {slot} : p.data = o.data => p = o
    BY <1>3, <1>11 DEF QueueOk
  <2>4. \A i \in BufSlot : Has(s, h + 1, i) => s.bufs[i].anc = new[s.bufs[i].data]
    <3>1. \A i \in BufSlot : r.bufs[i].data \in PcapQueue \X BufSlot
      BY <1>2, MemRing DEF Buffer
    <3>. QED  BY <3>1, <1>5, <1>13, <1>14 DEF QueueOk, h
  <2>. QED  BY <2>1, <2>2, <2>3, <2>4, <1>2, <1>3, <1>5, <1>10, <1>12 DEF QueueOk
<1>. QED  BY <1>2, <1>3, <1>13, <1>15 DEF Interned, slot, old, new

\* Some packets go back.
LEMMA QueueGetsBack ==
  ASSUME PacketRingAssumption, NEW q, NEW r, NEW H, NEW sz, QueueOk(q, r, H, sz), NEW pkts \in Returns(H)
  PROVE  QueueOk(q, deallocate_some(r, pkts), H \ Range(pkts), sz)
<1> DEFINE h == Cardinality(H)
           s == deallocate_some(r, pkts)
           datas == [k \in DOMAIN pkts |-> pkts[k].data]
<1>1. r \in BufRing /\ H \in SUBSET Buffer /\ IsFiniteSet(H) /\ Counted(r, H, h) /\ h \in 0 .. num_bufs - 1
      /\ IsFiniteSet(Mems(H)) /\ Sound(Mem(r), Mems(H)) /\ Mem(r) \in RingOf(PcapQueue \X BufSlot)
      /\ r \in RingOf(Buffer)
  <2>1. /\ r \in BufRing /\ H \in SUBSET Buffer /\ IsFiniteSet(H) /\ Sound(Mem(r), Mems(H))
        /\ \A p, o \in H : p.data = o.data => p = o
    BY DEF QueueOk
  <2>2. IsFiniteSet(Mems(H))
    BY <2>1, MemsCount
  <2>3. Counted(r, H, h) /\ h \in 0 .. num_bufs - 1
    BY QueueCounted
  <2>. QED  BY <2>1, <2>2, <2>3, MemRing
<1>2. PICK S \in SUBSET H : pkts \in Bijection(1 .. Cardinality(S), S)
  BY DEF Returns
<1>3. IsFiniteSet(S) /\ Cardinality(S) \in Nat
  BY <1>1, FS_Subset, FS_CardinalityType
<1> DEFINE m == Cardinality(S)
<1> HIDE DEF m, h
<1>4. /\ pkts \in [1 .. m -> H] /\ m \in Nat
      /\ \A i, j \in 1 .. m : pkts[i] = pkts[j] => i = j
  BY <1>2, <1>3 DEF Bijection, Injection, IsInjective, m
<1>5. DOMAIN pkts = 1 .. m /\ Len(pkts) = m /\ DOMAIN datas = 1 .. m /\ Len(datas) = m
  BY <1>4
<1>6. datas \in [1 .. m -> Mems(H)] /\ \A i, j \in 1 .. m : datas[i] = datas[j] => i = j
  BY <1>4, <1>5 DEF Mems, QueueOk
<1>7. Sound(r, H) /\ Returned(r, H, pkts) /\ s \in RingOf(Buffer)
  BY <1>1, <1>4, SoundTurns, ReturnSound DEF h
<1>8. Mems(H) \in SUBSET (PcapQueue \X BufSlot)
  BY <1>1 DEF Mems, Buffer
<1>9. Returned(Mem(r), Mems(H), datas)
  BY <1>1, <1>4, <1>6, <1>8, ReturnSound
<1>10. s.buf_start = r.buf_start /\ s.buf_end = Advance(r.buf_end, m)
       /\ s.bufs = Refilled(r, r.buf_end, pkts)
  BY <1>5, <1>1 DEF deallocate_some, RingOf
<1>11. ASSUME NEW i \in BufSlot
       PROVE  /\ s.bufs[i].data = IF Turns(r.buf_end, i) < m THEN datas[Turns(r.buf_end, i) + 1] ELSE r.bufs[i].data
              /\ Turns(r.buf_end, i) < m => Turns(r.buf_end, i) + 1 \in 1 .. m
  <2>1. Turns(r.buf_end, i) \in Nat
    BY <1>1, MemRing, TurnsLead
  <2>2. Turns(r.buf_end, i) < m => Turns(r.buf_end, i) + 1 \in 1 .. m
    BY <2>1, <1>4
  <2>. QED  BY <2>2, <1>5, <1>10 DEF Refilled
<1>12. Mem(s) = deallocate_some(Mem(r), datas)
  <2>1. deallocate_some(Mem(r), datas) = [bufs |-> Refilled(Mem(r), r.buf_end, datas), buf_start |-> r.buf_start,
                                          buf_end |-> Advance(r.buf_end, m)]
    <3>1. Mem(r).buf_end = r.buf_end /\ Mem(r).buf_start = r.buf_start
      BY DEF Mem
    <3>2. deallocate_some(Mem(r), datas) = [Mem(r) EXCEPT !.bufs = Refilled(Mem(r), Mem(r).buf_end, datas),
                                                          !.buf_end = Advance(Mem(r).buf_end, Len(datas))]
      BY DEF deallocate_some
    <3> DEFINE b == Refilled(Mem(r), Mem(r).buf_end, datas)
               e == Advance(Mem(r).buf_end, Len(datas))
    <3> HIDE DEF b, e
    <3>3. [Mem(r) EXCEPT !.bufs = b, !.buf_end = e] = [bufs |-> b, buf_start |-> Mem(r).buf_start, buf_end |-> e]
      BY <1>1, RingExcept
    <3>. QED  BY <3>1, <3>2, <3>3, <1>5 DEF b, e
  <2>2. \A i \in BufSlot : Refilled(Mem(r), r.buf_end, datas)[i] = s.bufs[i].data
    BY <1>1, <1>5, <1>11, MemRing DEF Refilled
  <2>3. Refilled(Mem(r), r.buf_end, datas) = [i \in BufSlot |-> s.bufs[i].data]
    BY <2>2 DEF Refilled
  <2>. QED  BY <2>1, <2>3, <1>10 DEF Mem
<1>13. Mems(H \ Range(pkts)) = Mems(H) \ Range(datas)
  <2>1. \A x : x \in Range(pkts) <=> \E i \in 1 .. m : x = pkts[i]
    BY <1>5 DEF Range
  <2>2. \A x : x \in Range(datas) <=> \E i \in 1 .. m : x = pkts[i].data
    BY <1>5 DEF Range
  <2>3. \A p \in H : p \in Range(pkts) <=> p.data \in Range(datas)
    BY <2>1, <2>2, <1>4 DEF QueueOk
  <2>. QED  BY <2>3 DEF Mems
<1>14. Sound(Mem(s), Mems(H \ Range(pkts))) /\ IsFiniteSet(H \ Range(pkts))
  BY <1>7, <1>9, <1>12, <1>13 DEF Returned
<1>15. Cardinality(H \ Range(pkts)) = h - m /\ m \in 0 .. h
  <2>0. Range(pkts) \in SUBSET H /\ pkts \in Bijection(1 .. m, Range(pkts))
    BY <1>4, <1>5 DEF Range, Bijection, Injection, Surjection, IsInjective
  <2>1. IsFiniteSet(1 .. m)
    BY <1>4, FS_Interval
  <2>2. Cardinality(1 .. m) = IF 1 > m THEN 0 ELSE m - 1 + 1
    BY <1>4, FS_Interval
  <2>3. Cardinality(1 .. m) = m
    BY <2>2, <1>4
  <2>4. Cardinality(Range(pkts)) = m
    BY <2>0, <2>1, <2>3, FS_Bijection DEF ExistsBijection
  <2>5. Cardinality(Range(pkts)) <= Cardinality(H)
    BY <2>0, <1>1, FS_Subset
  <2>6. Cardinality(H \ Range(pkts)) = Cardinality(H) - Cardinality(H \cap Range(pkts)) /\ H \cap Range(pkts) = Range(pkts)
    BY <2>0, <1>1, FS_Difference
  <2>7. Cardinality(H \ Range(pkts)) = h - m /\ m <= h
    BY <2>4, <2>5, <2>6 DEF h
  <2>. QED  BY <2>7, <1>1, <1>4
<1>16. s \in BufRing
  BY <1>7 DEF RingOf, BufRing
<1> HIDE DEF s, datas
<1>17. ASSUME NEW i \in BufSlot, Has(s, h - m, i)
       PROVE  s.bufs[i].anc = sz[s.bufs[i].data]
  <2>1. KeptOrBack(r, pkts, h, i)
    BY <1>1, <1>5, <1>15, <1>17, ReturnHas DEF Counted, s
  <2>2. \A k \in 1 .. m : pkts[k] \in H
    BY <1>4
  <2>. QED  BY <2>1, <2>2, <1>5 DEF KeptOrBack, QueueOk, s, h
<1>18. \A i \in BufSlot : s.bufs[i].data \in Own(q)
  <2>1. \A k \in 1 .. m : datas[k] \in Own(q)
    BY <1>4, <1>5 DEF QueueOk, datas
  <2>. QED  BY <2>1, <1>11 DEF QueueOk
<1>. QED  BY <1>1, <1>14, <1>15, <1>16, <1>17, <1>18 DEF QueueOk, s

-----------------------------------------------------------------------------
(* The capture.  An open queue has its ring; the reader counts at least    *)
(* the open queues; the records delivered are behind the lookahead, and a  *)
(* spoilt lookahead is the last that anybody gets.                         *)

Packets == [queue : PcapQueue, rec : Nat, fits : BOOLEAN]

CaptureTypeOK ==
  /\ shared \in Reader \cup {ABSENT} /\ inpcap \in [PcapQueue -> BufRing \cup {ABSENT}]
  /\ held \in [PcapQueue -> SUBSET Buffer] /\ size \in [PcapQueue \X BufSlot -> Nat]
  /\ readers \in Seq(PcapQueue) /\ delivered \in Seq(Packets)

RingsOk ==
  \A q \in PcapQueue :
    IF inpcap[q] = ABSENT THEN held[q] = {} /\ \A b \in Own(q) : size[b] = 0
                          ELSE QueueOk(q, inpcap[q], held[q], size)

Living ==
  IF shared = ABSENT THEN OpenQueues = {} /\ readers = << >> /\ delivered = << >>
                     ELSE shared.refc >= Cardinality(OpenQueues)

Unspoilt == \A i \in DOMAIN delivered : delivered[i].rec # 0

Ordered ==
  /\ Len(readers) <= Len(Records) /\ FileOrder /\ LostToOthers
  /\ \A i \in DOMAIN delivered : delivered[i].fits /\ delivered[i].rec <= Len(readers)
  /\ shared # ABSENT =>
       /\ (shared.buf_valid /\ shared.intact =>
             Len(readers) >= 1 /\ \A i \in DOMAIN delivered : delivered[i].rec < Len(readers))
       /\ (~shared.intact => shared.eof /\ Len(readers) = Len(Records))
       /\ Unspoilt \/ ~(shared.buf_valid \/ shared.intact)

CaptureInv == CaptureTypeOK /\ RingsOk /\ Living /\ Ordered

LEMMA CaptureFacts ==
  ASSUME PcapInAssumption
  PROVE  PacketRingAssumption /\ num_bufs \in Nat \ {0} /\ Len(Records) \in Nat /\ IsFiniteSet(PcapQueue)
         /\ ABSENT \notin BufRing /\ ABSENT \notin Reader
         /\ DOMAIN Records = 1 .. Len(Records) /\ \A i \in DOMAIN Records : Records[i].min \in Nat
  BY DEF PcapInAssumption, PacketRingAssumption

LEMMA OwnsApart ==
  ASSUME NEW p, NEW q, p # q, NEW b \in Own(p)
  PROVE  b \notin Own(q) /\ b[1] = p
  BY DEF Own

LEMMA OpensFinite ==
  ASSUME PcapInAssumption
  PROVE  IsFiniteSet(OpenQueues) /\ Cardinality(OpenQueues) \in Nat
<1>1. OpenQueues \in SUBSET PcapQueue
  BY DEF OpenQueues
<1>. QED  BY <1>1, CaptureFacts, FS_Subset, FS_CardinalityType

LEMMA CaptureSays ==
  ASSUME PcapInAssumption, CaptureInv
  PROVE  CapturesInOrder
<1>1. BuffersSound
  <2>1. \A q \in OpenQueues : QueueOk(q, inpcap[q], held[q], size)
    BY DEF CaptureInv, RingsOk, OpenQueues
  <2>2. \A q \in OpenQueues :
          /\ Sound(inpcap[q], held[q])
          /\ \A i \in Stocked(inpcap[q], Cardinality(held[q])) : inpcap[q].bufs[i].anc = size[inpcap[q].bufs[i].data]
    BY <2>1, CaptureFacts, QueueIsSound
  <2>3. \A q \in PcapQueue : \A p \in held[q] : p.anc = size[p.data]
    BY DEF CaptureInv, RingsOk, QueueOk
  <2>4. \A i \in DOMAIN delivered : delivered[i].fits
    BY DEF CaptureInv, Ordered
  <2>. QED  BY <2>2, <2>3, <2>4 DEF BuffersSound
<1>2. ReaderLives
  BY DEF CaptureInv, Living, ReaderLives
<1>3. FileOrder /\ LostToOthers
  BY DEF CaptureInv, Ordered
<1>. QED  BY <1>1, <1>2, <1>3 DEF CapturesInOrder

LEMMA CaptureStarts ==
  ASSUME PcapInAssumption, CaptureInit
  PROVE  CaptureInv
<1>1. CaptureTypeOK
  BY DEF CaptureInit, CaptureTypeOK
<1>2. RingsOk
  BY DEF CaptureInit, RingsOk, Own
<1>3. Living
  BY DEF CaptureInit, Living, OpenQueues
<1>4. Ordered
  BY CaptureFacts DEF CaptureInit, Ordered, FileOrder, LostToOthers, Unspoilt
<1>. QED  BY <1>1, <1>2, <1>3, <1>4 DEF CaptureInv

-----------------------------------------------------------------------------

\* A step of queue q leaves the rings of the others alone.
LEMMA OthersKeep ==
  ASSUME RingsOk, NEW q \in PcapQueue,
         \A p \in PcapQueue : p # q => inpcap'[p] = inpcap[p] /\ held'[p] = held[p] /\ \A b \in Own(p) : size'[b] = size[b],
         IF inpcap'[q] = ABSENT THEN held'[q] = {} /\ \A b \in Own(q) : size'[b] = 0
                                ELSE QueueOk(q, inpcap'[q], held'[q], size')
  PROVE  RingsOk'
<1>1. ASSUME NEW p \in PcapQueue, p # q
      PROVE  IF inpcap'[p] = ABSENT THEN held'[p] = {} /\ \A b \in Own(p) : size'[b] = 0
                                    ELSE QueueOk(p, inpcap'[p], held'[p], size')
  <2>1. CASE inpcap[p] = ABSENT
    BY <1>1, <2>1 DEF RingsOk
  <2>2. CASE inpcap[p] # ABSENT
    <3>1. QueueOk(p, inpcap[p], held[p], size) /\ \A b \in Own(p) : size'[b] = size[b]
      BY <1>1, <2>2 DEF RingsOk
    <3>2. QueueOk(p, inpcap[p], held[p], size')
      BY <3>1, QueueFrame
    <3>. QED  BY <3>2, <1>1, <2>2
  <2>. QED  BY <2>1, <2>2
<1>. QED  BY <1>1 DEF RingsOk

\* A packet is copied and goes to the caller.
LEMMA InternStep ==
  ASSUME PcapInAssumption, CaptureTypeOK, RingsOk, NEW q \in PcapQueue, Asks(q),
         NEW rec \in Nat, NEW min \in Nat, ldp_in_queue_intern(q, rec, min)
  PROVE  /\ RingsOk' /\ OpenQueues' = OpenQueues
         /\ inpcap' \in [PcapQueue -> BufRing \cup {ABSENT}] /\ held' \in [PcapQueue -> SUBSET Buffer]
         /\ size' \in [PcapQueue \X BufSlot -> Nat]
         /\ delivered' = Append(delivered, [queue |-> q, rec |-> rec, fits |-> TRUE])
<1> DEFINE r == inpcap[q]
           old == r.bufs[r.buf_start]
           slot == [old EXCEPT !.anc = Capacity(@, min)]
           s == [r EXCEPT !.bufs[r.buf_start] = slot, !.buf_start = Advance(@, 1)]
           new == [size EXCEPT ![old.data] = IF slot = old THEN @ ELSE slot.anc]
<1>1. inpcap[q] # ABSENT /\ r \in BufRing /\ amnt_free(r) # 0 /\ QueueOk(q, r, held[q], size)
  BY DEF Asks, OpenQueues, CaptureTypeOK, RingsOk
<1>2. inpcap' = [inpcap EXCEPT ![q] = s]
  BY <1>1 DEF ldp_in_queue_intern, BufRing, CaptureTypeOK
<1>3. held' = [held EXCEPT ![q] = @ \cup {slot}] /\ size' = new
      /\ delivered' = Append(delivered, [queue |-> q, rec |-> rec, fits |-> new[old.data] >= min])
  BY DEF ldp_in_queue_intern
<1>4. Interned(q, r, held[q], size, min)
  BY <1>1, CaptureFacts, QueueInterns DEF CaptureTypeOK
<1>5. /\ old \in Buffer /\ old.data \in Own(q) /\ QueueOk(q, s, held[q] \cup {slot}, new)
      /\ new[old.data] \in Nat /\ new[old.data] >= min
  BY <1>4 DEF Interned, Grown
<1>6. s \in BufRing /\ held[q] \cup {slot} \in SUBSET Buffer /\ s # ABSENT
  BY <1>5, CaptureFacts DEF QueueOk
<1>7. old.data \in PcapQueue \X BufSlot
  BY <1>5 DEF Buffer
<1>8. new \in [PcapQueue \X BufSlot -> Nat] /\ \A b \in PcapQueue \X BufSlot : b # old.data => new[b] = size[b]
  <2> DEFINE d == old.data
             n == IF slot = old THEN size[d] ELSE slot.anc
  <2>1. new = [size EXCEPT ![d] = n]
    OBVIOUS
  <2>2. d \in PcapQueue \X BufSlot /\ size \in [PcapQueue \X BufSlot -> Nat]
    BY <1>7 DEF CaptureTypeOK
  <2>3. new[d] \in Nat
    BY <1>5
  <2> HIDE DEF new, n, d
  <2>4. n \in Nat
    BY <2>1, <2>2, <2>3
  <2>5. new \in [PcapQueue \X BufSlot -> Nat] /\ \A b \in PcapQueue \X BufSlot : b # d => new[b] = size[b]
    BY <2>1, <2>2, <2>4
  <2>. QED  BY <2>5 DEF d
<1> HIDE DEF s, new, slot, old
<1>9. inpcap'[q] = s /\ held'[q] = held[q] \cup {slot}
      /\ \A p \in PcapQueue : p # q => inpcap'[p] = inpcap[p] /\ held'[p] = held[p]
  BY <1>2, <1>3 DEF CaptureTypeOK
<1>10. \A p \in PcapQueue : p # q => \A b \in Own(p) : size'[b] = size[b]
  <2>1. ASSUME NEW p \in PcapQueue, p # q, NEW b \in Own(p)
        PROVE  b # old.data /\ b \in PcapQueue \X BufSlot
    BY <2>1, <1>5, OwnsApart DEF Own
  <2>. QED  BY <2>1, <1>3, <1>8
<1>11. RingsOk'
  BY <1>5, <1>6, <1>9, <1>10, <1>3, OthersKeep
<1>12. OpenQueues' = OpenQueues
  BY <1>1, <1>6, <1>9 DEF OpenQueues
<1>13. inpcap' \in [PcapQueue -> BufRing \cup {ABSENT}] /\ held' \in [PcapQueue -> SUBSET Buffer]
  BY <1>2, <1>3, <1>6 DEF CaptureTypeOK
<1>. QED  BY <1>3, <1>5, <1>8, <1>11, <1>12, <1>13

LEMMA ReturnsStep ==
  ASSUME PcapInAssumption, CaptureInv, NEW q \in PcapQueue, NEW pkts \in Returns(held[q]),
         ldp_in_queue_deallocate_some_pcap(q, pkts)
  PROVE  CaptureInv'
<1> DEFINE s == deallocate_some(inpcap[q], pkts)
<1> USE DEF CaptureInv
<1>1. inpcap[q] # ABSENT
  <2>1. PICK S \in (SUBSET held[q]) \ {{}} : pkts \in Bijection(1 .. Cardinality(S), S)
    BY DEF Returns
  <2>2. S \in SUBSET held[q] /\ S # {}
    BY <2>1
  <2>. QED  BY <2>2 DEF RingsOk
<1>2. QueueOk(q, s, held[q] \ Range(pkts), size)
  BY <1>1, CaptureFacts, QueueGetsBack DEF RingsOk
<1>3. s \in BufRing /\ s # ABSENT /\ held[q] \ Range(pkts) \in SUBSET Buffer
  BY <1>2, CaptureFacts DEF QueueOk
<1> HIDE DEF s
<1>4. inpcap' = [inpcap EXCEPT ![q] = s] /\ held' = [held EXCEPT ![q] = @ \ Range(pkts)]
      /\ UNCHANGED <<shared, size, readers, delivered>>
  BY DEF ldp_in_queue_deallocate_some_pcap, s
<1>5. CaptureTypeOK'
  BY <1>3, <1>4 DEF CaptureTypeOK
<1>6. inpcap'[q] = s /\ held'[q] = held[q] \ Range(pkts)
      /\ \A p \in PcapQueue : p # q => inpcap'[p] = inpcap[p] /\ held'[p] = held[p]
  BY <1>4 DEF CaptureTypeOK
<1>7. RingsOk'
  BY <1>2, <1>3, <1>4, <1>6, OthersKeep
<1>8. OpenQueues' = OpenQueues
  BY <1>1, <1>3, <1>6 DEF OpenQueues
<1>9. Living'
  BY <1>4, <1>8 DEF Living
<1>10. Ordered'
  BY <1>4 DEF Ordered, FileOrder, LostToOthers, Unspoilt, Delivered
<1>. QED  BY <1>5, <1>7, <1>9, <1>10

\* The reader after a queue opened.
LEMMA CreateIn ==
  ASSUME PcapInAssumption, CaptureInv, shared' = create_in, readers' = readers, delivered' = delivered
  PROVE  /\ shared' \in Reader /\ shared' # ABSENT /\ Ordered'
         /\ shared # ABSENT => shared'.refc = shared.refc + 1
         /\ shared = ABSENT => shared'.refc = 1 /\ OpenQueues = {}
<1> USE DEF CaptureInv
<1>1. CASE shared = ABSENT
  <2>1. shared' = [refc |-> 1, buf_valid |-> FALSE, intact |-> TRUE, torn |-> Torn, eof |-> FALSE]
    BY <1>1 DEF create_in
  <2>2. shared' \in Reader /\ shared' # ABSENT /\ shared'.refc = 1 /\ shared'.buf_valid = FALSE /\ shared'.intact = TRUE
    <3>1. Torn \in BOOLEAN
      BY DEF PcapInAssumption
    <3>2. shared' \in Reader
      BY <2>1, <3>1 DEF Reader
    <3>3. shared' # ABSENT
      BY <3>2, CaptureFacts
    <3>. QED  BY <3>2, <3>3, <2>1
  <2>3. readers' = << >> /\ delivered' = << >> /\ OpenQueues = {}
    BY <1>1 DEF Living
  <2>4. Ordered'
    BY <2>2, <2>3, CaptureFacts DEF Ordered, FileOrder, LostToOthers, Unspoilt
  <2>. QED  BY <1>1, <2>2, <2>3, <2>4
<1>2. CASE shared # ABSENT
  <2>1. shared \in Reader /\ shared' = [shared EXCEPT !.refc = @ + 1]
    BY <1>2 DEF create_in, CaptureTypeOK
  <2>2. shared' \in Reader /\ shared' # ABSENT /\ shared'.refc = shared.refc + 1
        /\ shared'.buf_valid = shared.buf_valid /\ shared'.intact = shared.intact /\ shared'.eof = shared.eof
    BY <2>1, CaptureFacts DEF Reader
  <2>3. Ordered'
    BY <2>2, <1>2 DEF Ordered, FileOrder, LostToOthers, Unspoilt, Delivered
  <2>. QED  BY <1>2, <2>2, <2>3
<1>. QED  BY <1>1, <1>2

LEMMA OpenStep ==
  ASSUME PcapInAssumption, CaptureInv, NEW q \in PcapQueue, ldp_interface_open_pcap(q)
  PROVE  CaptureInv'
<1> DEFINE s == Full([i \in BufSlot |-> [data |-> <<q, i>>, anc |-> 0]])
<1> USE DEF CaptureInv
<1>1. inpcap[q] = ABSENT /\ inpcap' = [inpcap EXCEPT ![q] = s] /\ UNCHANGED <<held, size, readers, delivered>>
      /\ shared' = create_in
  BY DEF ldp_interface_open_pcap, Opens
<1>2. held[q] = {} /\ \A b \in Own(q) : size[b] = 0
  BY <1>1 DEF RingsOk
<1>3. QueueOk(q, s, {}, size)
  BY <1>2, CaptureFacts, QueueOpened
<1>4. s \in BufRing /\ s # ABSENT
  BY <1>3, CaptureFacts DEF QueueOk
<1> HIDE DEF s
<1>5. inpcap'[q] = s /\ \A p \in PcapQueue : p # q => inpcap'[p] = inpcap[p]
  BY <1>1 DEF CaptureTypeOK
<1>6. RingsOk'
  BY <1>1, <1>2, <1>3, <1>4, <1>5, OthersKeep
<1>7. /\ shared' \in Reader /\ shared' # ABSENT /\ Ordered'
      /\ shared # ABSENT => shared'.refc = shared.refc + 1
      /\ shared = ABSENT => shared'.refc = 1 /\ OpenQueues = {}
  BY <1>1, CreateIn
<1>8. CaptureTypeOK'
  BY <1>1, <1>4, <1>7 DEF CaptureTypeOK
<1>9. Living'
  <2>1. OpenQueues' = OpenQueues \cup {q} /\ q \notin OpenQueues
    BY <1>1, <1>4, <1>5 DEF OpenQueues
  <2>2. Cardinality(OpenQueues') = Cardinality(OpenQueues) + 1 /\ Cardinality(OpenQueues) \in Nat
    BY <2>1, OpensFinite, FS_AddElement
  <2>3. Cardinality({}) = 0
    BY FS_EmptySet
  <2>4. shared # ABSENT => shared.refc >= Cardinality(OpenQueues) /\ shared.refc \in Nat
    BY DEF Living, CaptureTypeOK, Reader
  <2>5. shared'.refc >= Cardinality(OpenQueues')
    BY <2>2, <2>3, <2>4, <1>7
  <2>. QED  BY <2>5, <1>7 DEF Living
<1>. QED  BY <1>6, <1>7, <1>8, <1>9

LEMMA OpenFailsStep ==
  ASSUME PcapInAssumption, CaptureInv, NEW q \in PcapQueue, OpenFails(q)
  PROVE  CaptureInv'
<1> USE DEF CaptureInv
<1>1. UNCHANGED <<inpcap, held, size, readers, delivered>> /\ shared' = create_in
  BY DEF OpenFails, Opens
<1>2. /\ shared' \in Reader /\ shared' # ABSENT /\ Ordered'
      /\ shared # ABSENT => shared'.refc = shared.refc + 1
      /\ shared = ABSENT => shared'.refc = 1 /\ OpenQueues = {}
  BY <1>1, CreateIn
<1>3. CaptureTypeOK'
  BY <1>1, <1>2 DEF CaptureTypeOK
<1>4. RingsOk'
  BY <1>1 DEF RingsOk
<1>5. Living'
  <2>1. OpenQueues' = OpenQueues /\ Cardinality(OpenQueues) \in Nat /\ Cardinality({}) = 0
    BY <1>1, OpensFinite, FS_EmptySet DEF OpenQueues
  <2>2. shared # ABSENT => shared.refc >= Cardinality(OpenQueues) /\ shared.refc \in Nat
    BY DEF Living, CaptureTypeOK, Reader
  <2>3. shared'.refc >= Cardinality(OpenQueues)
    BY <2>1, <2>2, <1>2
  <2>. QED  BY <2>1, <2>3, <1>2 DEF Living
<1>. QED  BY <1>2, <1>3, <1>4, <1>5

LEMMA CloseStep ==
  ASSUME PcapInAssumption, CaptureInv, NEW q \in PcapQueue, ldp_in_queue_close_pcap(q)
  PROVE  CaptureInv'
<1> USE DEF CaptureInv
<1>1. /\ q \in OpenQueues /\ held[q] = {} /\ inpcap' = [inpcap EXCEPT ![q] = ABSENT] /\ held' = held
      /\ size' = [b \in DOMAIN size |-> IF b[1] = q THEN 0 ELSE size[b]]
      /\ shared' = Released
      /\ readers' = (IF shared' = ABSENT THEN << >> ELSE readers)
      /\ delivered' = (IF shared' = ABSENT THEN << >> ELSE delivered)
  BY DEF ldp_in_queue_close_pcap
<1>2. shared \in Reader /\ shared.refc >= Cardinality(OpenQueues) /\ shared.refc \in Nat \ {0} /\ shared # ABSENT
  BY <1>1, CaptureFacts DEF Living, CaptureTypeOK, Reader
<1>3. inpcap'[q] = ABSENT /\ \A p \in PcapQueue : p # q => inpcap'[p] = inpcap[p]
  BY <1>1 DEF CaptureTypeOK
<1>4. OpenQueues' = OpenQueues \ {q}
  BY <1>3 DEF OpenQueues
<1>5. /\ Cardinality(OpenQueues') = Cardinality(OpenQueues) - 1 /\ Cardinality(OpenQueues) \in Nat
      /\ IsFiniteSet(OpenQueues') /\ Cardinality(OpenQueues') \in Nat
  <2>1. IsFiniteSet(OpenQueues')
    BY <1>4, OpensFinite, FS_Subset
  <2>. QED  BY <2>1, <1>1, <1>4, OpensFinite, FS_RemoveElement, FS_CardinalityType
<1>6. DOMAIN size = PcapQueue \X BufSlot /\ size \in [PcapQueue \X BufSlot -> Nat]
  BY DEF CaptureTypeOK
<1>7. size' \in [PcapQueue \X BufSlot -> Nat]
  BY <1>1, <1>6
<1>8. RingsOk'
  <2>1. \A b \in Own(q) : size'[b] = 0
    BY <1>1, <1>6 DEF Own
  <2>2. ASSUME NEW p \in PcapQueue, p # q, NEW b \in Own(p)
        PROVE  size'[b] = size[b]
    BY <2>2, <1>1, <1>6, OwnsApart DEF Own
  <2>. QED  BY <2>1, <2>2, <1>1, <1>3, OthersKeep
<1>9. CASE shared.refc = 1
  <2>1. shared' = ABSENT /\ readers' = << >> /\ delivered' = << >>
    BY <1>9, <1>1 DEF Released
  <2>2. CaptureTypeOK'
    BY <2>1, <1>1, <1>7 DEF CaptureTypeOK
  <2>3. Cardinality(OpenQueues') = 0
    BY <1>2, <1>5, <1>9
  <2>4. OpenQueues' = {}
    BY <2>3, <1>5, FS_EmptySet
  <2>5. Living'
    BY <2>1, <2>4 DEF Living
  <2>6. Ordered'
    BY <2>1, CaptureFacts DEF Ordered, FileOrder, LostToOthers
  <2>. QED  BY <2>2, <2>5, <2>6, <1>8
<1>10. CASE shared.refc # 1
  <2>1. shared' = [shared EXCEPT !.refc = @ - 1]
    BY <1>10, <1>1 DEF Released
  <2>2. shared' \in Reader /\ shared'.refc = shared.refc - 1
        /\ shared'.buf_valid = shared.buf_valid /\ shared'.intact = shared.intact /\ shared'.eof = shared.eof
    BY <2>1, <1>2, <1>10 DEF Reader
  <2>3. shared' # ABSENT
    BY <2>2, CaptureFacts
  <2>4. readers' = readers /\ delivered' = delivered
    BY <2>3, <1>1
  <2>5. CaptureTypeOK'
    BY <2>2, <2>4, <1>1, <1>7 DEF CaptureTypeOK
  <2>6. Living'
    BY <2>2, <2>3, <1>2, <1>5 DEF Living
  <2>7. Ordered'
    BY <2>2, <2>3, <2>4, <1>2 DEF Ordered, FileOrder, LostToOthers, Unspoilt, Delivered
  <2>. QED  BY <2>5, <2>6, <2>7, <1>8
<1>. QED  BY <1>9, <1>10

LEMMA SeqAppend ==
  ASSUME NEW S, NEW s \in Seq(S), NEW e \in S
  PROVE  /\ Append(s, e) \in Seq(S) /\ Len(s) \in Nat /\ DOMAIN s = 1 .. Len(s)
         /\ Len(Append(s, e)) = Len(s) + 1 /\ DOMAIN Append(s, e) = 1 .. Len(s) + 1
         /\ \A i \in 1 .. Len(s) : Append(s, e)[i] = s[i] /\ s[i] \in S
         /\ Append(s, e)[Len(s) + 1] = e
  OBVIOUS

\* The lookahead goes to a queue of its interface.
LEMMA LookaheadStep ==
  ASSUME PcapInAssumption, CaptureInv, NEW q \in PcapQueue, NextLookahead(q)
  PROVE  CaptureInv'
<1> DEFINE n == Len(readers)
           rec == IF shared.intact THEN n ELSE 0
           min == IF shared.intact THEN Records[n].min ELSE 1
           d == [queue |-> q, rec |-> rec, fits |-> TRUE]
<1> USE DEF CaptureInv
<1>1. /\ Asks(q) /\ shared.buf_valid /\ Matches(q, n) /\ ldp_in_queue_intern(q, rec, min)
      /\ shared' = [shared EXCEPT !.buf_valid = FALSE] /\ readers' = readers /\ shared # ABSENT /\ shared \in Reader
  BY DEF NextLookahead, ForMe, Asks, CaptureTypeOK
<1>2. n \in Nat /\ (shared.intact => n \in 1 .. Len(Records)) /\ DOMAIN readers = 1 .. n
  BY <1>1, CaptureFacts DEF Ordered, CaptureTypeOK
<1>3. rec \in Nat /\ min \in Nat
  BY <1>2, CaptureFacts
<1>4. /\ shared' \in Reader /\ shared' # ABSENT /\ shared'.refc = shared.refc /\ shared'.buf_valid = FALSE
      /\ shared'.intact = shared.intact /\ shared'.eof = shared.eof
  BY <1>1, CaptureFacts DEF Reader
<1> HIDE DEF rec, min, n
<1>5. /\ RingsOk' /\ OpenQueues' = OpenQueues
      /\ inpcap' \in [PcapQueue -> BufRing \cup {ABSENT}] /\ held' \in [PcapQueue -> SUBSET Buffer]
      /\ size' \in [PcapQueue \X BufSlot -> Nat]
      /\ delivered' = Append(delivered, d)
  BY <1>1, <1>3, InternStep
<1>6. delivered \in Seq(Packets) /\ d \in Packets
  BY <1>3 DEF CaptureTypeOK, Packets
<1> DEFINE m == Len(delivered)
<1>7. /\ delivered' \in Seq(Packets) /\ m \in Nat /\ DOMAIN delivered = 1 .. m /\ DOMAIN delivered' = 1 .. m + 1
      /\ Len(delivered') = m + 1 /\ \A i \in 1 .. m : delivered'[i] = delivered[i] /\ delivered[i] \in Packets
      /\ delivered'[m + 1] = d
  BY <1>5, <1>6, SeqAppend
<1>8. d.queue = q /\ d.rec = rec /\ d.fits
  OBVIOUS
<1> HIDE DEF d, m
<1>9. CaptureTypeOK'
  BY <1>1, <1>4, <1>5, <1>7 DEF CaptureTypeOK
<1>10. Living'
  BY <1>1, <1>4, <1>5 DEF Living
<1>11. \A i \in 1 .. m : delivered[i].rec \in Nat /\ delivered[i].rec # 0 /\ delivered[i].fits /\ delivered[i].rec <= n
  <2>1. \A i \in 1 .. m : delivered[i].rec \in Nat
    BY <1>7 DEF Packets
  <2>. QED  BY <2>1, <1>1, <1>7 DEF Ordered, Unspoilt, n
<1>12. shared.intact => \A i \in 1 .. m : delivered[i].rec < n
  BY <1>1, <1>7 DEF Ordered, n
<1>13. ~shared.intact => shared.eof /\ n = Len(Records)
  BY <1>1 DEF Ordered, n
<1>14. n <= Len(Records)
  BY DEF Ordered, n
<1>15. FileOrder'
  <2>1. ASSUME NEW i \in 1 .. m
        PROVE  /\ Matches(delivered[i].queue, delivered[i].rec)
               /\ \A j \in 1 .. i - 1 : delivered[j].rec < delivered[i].rec
    BY <1>7, <1>11 DEF Ordered, FileOrder
  <2>2. rec # 0 => shared.intact /\ rec = n
    BY DEF rec
  <2>3. rec = 0 => shared.eof
    BY <1>2, <1>13 DEF rec
  <2>4. ASSUME NEW i \in 1 .. m
        PROVE  /\ delivered'[i].rec # 0 /\ Matches(delivered'[i].queue, delivered'[i].rec)
               /\ \A j \in 1 .. i - 1 : delivered'[j].rec < delivered'[i].rec
    <3>1. \A j \in 1 .. i - 1 : j \in 1 .. m
      BY <1>7
    <3>. QED  BY <2>1, <3>1, <1>7, <1>11
  <2>5. rec # 0 => \A j \in 1 .. m : delivered'[j].rec < rec
    BY <2>2, <1>7, <1>12
  <2>6. \A i \in 1 .. m + 1 : i \in 1 .. m \/ (i = m + 1 /\ i - 1 = m)
    BY <1>7
  <2>7. rec # 0 => Matches(q, rec)
    BY <2>2, <1>1
  <2>8. ASSUME NEW i \in 1 .. m + 1
        PROVE  /\ delivered'[i].rec = 0 => shared'.eof /\ i = Len(delivered')
               /\ delivered'[i].rec # 0 =>
                    /\ Matches(delivered'[i].queue, delivered'[i].rec)
                    /\ \A j \in 1 .. i - 1 : delivered'[j].rec < delivered'[i].rec
    <3>1. CASE i \in 1 .. m
      BY <3>1, <2>4
    <3>2. CASE i = m + 1 /\ i - 1 = m
      BY <3>2, <2>3, <2>5, <2>7, <1>4, <1>7, <1>8
    <3>. QED  BY <3>1, <3>2, <2>6
  <2>. QED  BY <2>8, <1>7 DEF FileOrder, Matches
<1>16. LostToOthers'
  <2>1. \A k : Delivered(k) => Delivered(k)'
    BY <1>7 DEF Delivered
  <2>2. shared.intact => Delivered(n)'
    <3>1. m + 1 \in 1 .. m + 1 /\ (shared.intact => rec = n)
      BY <1>7 DEF rec
    <3>2. shared.intact => \E i \in DOMAIN delivered' : delivered'[i].rec = n
      BY <3>1, <1>7, <1>8
    <3>. QED  BY <3>2, <1>1 DEF Delivered, n
  <2>3. \A k \in 1 .. n : Delivered(k) \/ ~Matches(readers[k], k)
    BY <1>2 DEF Ordered, LostToOthers
  <2>. QED  BY <2>1, <2>2, <2>3, <1>1, <1>2, <1>4 DEF LostToOthers, Matches, n
<1>17. Ordered'
  <2>1. \A i \in 1 .. m + 1 : delivered'[i].fits /\ delivered'[i].rec <= n
    <3>1. rec <= n
      BY <1>2 DEF rec
    <3>2. \A i \in 1 .. m + 1 : i \in 1 .. m \/ i = m + 1
      BY <1>7
    <3>. QED  BY <3>1, <3>2, <1>7, <1>8, <1>11
  <2>2. shared'.intact => Unspoilt'
    <3>1. shared.intact => rec # 0
      BY <1>2 DEF rec
    <3>2. \A i \in 1 .. m + 1 : i \in 1 .. m \/ i = m + 1
      BY <1>7
    <3>. QED  BY <3>1, <3>2, <1>4, <1>7, <1>8, <1>11 DEF Unspoilt
  <2>. QED  BY <2>1, <2>2, <1>1, <1>4, <1>7, <1>13, <1>14, <1>15, <1>16 DEF Ordered, n
<1>. QED  BY <1>5, <1>9, <1>10, <1>17

\* A record is read, which may be for this queue.
LEMMA ReadStep ==
  ASSUME PcapInAssumption, CaptureInv, NEW q \in PcapQueue, NextRead(q)
  PROVE  CaptureInv'
<1> DEFINE n == Len(readers)
           m == Len(delivered)
<1> USE DEF CaptureInv
<1>1. /\ Asks(q) /\ n < Len(Records) /\ readers' = Append(readers, q)
      /\ shared' = [shared EXCEPT !.buf_valid = ~Matches(q, n + 1)] /\ shared # ABSENT /\ shared \in Reader
      /\ IF Matches(q, n + 1) THEN ldp_in_queue_intern(q, n + 1, Records[n + 1].min)
                              ELSE UNCHANGED <<inpcap, held, size, delivered>>
  BY DEF NextRead, Asks, CaptureTypeOK
<1>2. /\ readers' \in Seq(PcapQueue) /\ n \in Nat /\ DOMAIN readers = 1 .. n /\ DOMAIN readers' = 1 .. n + 1
      /\ Len(readers') = n + 1 /\ (\A i \in 1 .. n : readers'[i] = readers[i]) /\ readers'[n + 1] = q
  BY <1>1, SeqAppend DEF CaptureTypeOK
<1>3. n + 1 \in Nat /\ n + 1 \in 1 .. Len(Records) /\ Records[n + 1].min \in Nat /\ n + 1 # 0
  BY <1>1, <1>2, CaptureFacts
<1>4. /\ shared' \in Reader /\ shared' # ABSENT /\ shared'.refc = shared.refc /\ shared'.buf_valid = ~Matches(q, n + 1)
      /\ shared'.intact = shared.intact /\ shared'.eof = shared.eof
  <2>1. Matches(q, n + 1) \in BOOLEAN
    BY DEF Matches
  <2> DEFINE b == ~Matches(q, n + 1)
  <2>2. b \in BOOLEAN
    BY <2>1
  <2>3. shared' = [shared EXCEPT !.buf_valid = b]
    BY <1>1
  <2> HIDE DEF b
  <2>4. shared' \in Reader /\ shared'.refc = shared.refc /\ shared'.buf_valid = b
        /\ shared'.intact = shared.intact /\ shared'.eof = shared.eof
    BY <2>2, <2>3, <1>1 DEF Reader
  <2>. QED  BY <2>4, CaptureFacts DEF b
<1>5. shared.intact /\ Unspoilt
  <2>1. ~shared.intact => n = Len(Records)
    BY <1>1 DEF Ordered
  <2>2. n # Len(Records)
    <3>1. Len(Records) \in Nat
      BY CaptureFacts
    <3>2. n < Len(Records) /\ n \in Nat
      BY <1>1, <1>2
    <3> HIDE DEF n
    <3>. QED  BY <3>1, <3>2
  <2>3. shared.intact
    BY <2>1, <2>2
  <2>. QED  BY <2>3, <1>1 DEF Ordered
<1>6. /\ delivered \in Seq(Packets) /\ m \in Nat /\ DOMAIN delivered = 1 .. m
      /\ \A i \in 1 .. m : delivered[i] \in Packets
  BY DEF CaptureTypeOK
<1> HIDE DEF n, m
<1>7. \A i \in 1 .. m : delivered[i].rec \in Nat /\ delivered[i].rec # 0 /\ delivered[i].fits /\ delivered[i].rec <= n
  BY <1>5, <1>6 DEF Ordered, Unspoilt, Packets, n
<1>8. ASSUME NEW i \in 1 .. m
      PROVE  /\ Matches(delivered[i].queue, delivered[i].rec)
             /\ \A j \in 1 .. i - 1 : delivered[j].rec < delivered[i].rec
  BY <1>6, <1>7 DEF Ordered, FileOrder
<1>9. \A k \in 1 .. n : Delivered(k) \/ ~Matches(readers[k], k)
  BY <1>2 DEF Ordered, LostToOthers
<1>10. \A k \in 1 .. n + 1 : k \in 1 .. n \/ k = n + 1
  BY <1>2
<1>11. CASE ~Matches(q, n + 1)
  <2>1. UNCHANGED <<inpcap, held, size, delivered>> /\ shared'.buf_valid
    BY <1>1, <1>4, <1>11
  <2>2. CaptureTypeOK' /\ RingsOk' /\ Living'
    BY <2>1, <1>1, <1>2, <1>4 DEF CaptureTypeOK, RingsOk, Living, OpenQueues
  <2>3. FileOrder'
    BY <2>1, <1>4, <1>6, <1>7, <1>8 DEF FileOrder, Matches
  <2>4. LostToOthers'
    <3>1. \A k : Delivered(k) <=> Delivered(k)'
      BY <2>1 DEF Delivered
    <3>2. \A k \in 1 .. n + 1 : Delivered(k)' \/ ~Matches(readers'[k], k)
      BY <3>1, <1>2, <1>9, <1>10, <1>11
    <3>. QED  BY <3>2, <2>1, <1>2 DEF LostToOthers, Matches
  <2>5. \A i \in 1 .. m : delivered[i].rec < n + 1
    BY <1>2, <1>7
  <2>. QED  BY <2>1, <2>2, <2>3, <2>4, <2>5, <1>1, <1>2, <1>3, <1>4, <1>5, <1>6, <1>7 DEF Ordered, Unspoilt
<1>12. CASE Matches(q, n + 1)
  <2> DEFINE d == [queue |-> q, rec |-> n + 1, fits |-> TRUE]
  <2>1. /\ RingsOk' /\ OpenQueues' = OpenQueues
        /\ inpcap' \in [PcapQueue -> BufRing \cup {ABSENT}] /\ held' \in [PcapQueue -> SUBSET Buffer]
        /\ size' \in [PcapQueue \X BufSlot -> Nat]
        /\ delivered' = Append(delivered, d)
    BY <1>1, <1>3, <1>12, InternStep
  <2>2. d \in Packets /\ d.queue = q /\ d.rec = n + 1 /\ d.fits
    BY <1>3 DEF Packets
  <2> HIDE DEF d
  <2>3. /\ delivered' \in Seq(Packets) /\ DOMAIN delivered' = 1 .. m + 1
        /\ Len(delivered') = m + 1 /\ (\A i \in 1 .. m : delivered'[i] = delivered[i])
        /\ delivered'[m + 1] = d
    BY <2>1, <2>2, <1>6, SeqAppend DEF m
  <2>4. CaptureTypeOK' /\ Living'
    BY <2>1, <2>3, <1>1, <1>2, <1>4 DEF CaptureTypeOK, Living
  <2>5. ~shared'.buf_valid
    BY <1>4, <1>12
  <2>6. \A i \in 1 .. m + 1 : i \in 1 .. m \/ (i = m + 1 /\ i - 1 = m)
    BY <1>6
  <2>7. \A j \in 1 .. m : delivered'[j].rec < n + 1
    BY <2>3, <1>2, <1>7
  <2>8. FileOrder'
    <3>1. ASSUME NEW i \in 1 .. m + 1
          PROVE  /\ delivered'[i].rec # 0 /\ Matches(delivered'[i].queue, delivered'[i].rec)
                 /\ \A j \in 1 .. i - 1 : delivered'[j].rec < delivered'[i].rec
      <4>1. CASE i \in 1 .. m
        <5>1. \A j \in 1 .. i - 1 : j \in 1 .. m
          BY <4>1, <1>6
        <5>. QED  BY <4>1, <5>1, <2>3, <1>7, <1>8
      <4>2. CASE i = m + 1 /\ i - 1 = m
        BY <4>2, <2>2, <2>3, <2>7, <1>3, <1>12
      <4>. QED  BY <4>1, <4>2, <2>6
    <3>. QED  BY <3>1, <2>3 DEF FileOrder, Matches
  <2>9. LostToOthers'
    <3>1. \A k : Delivered(k) => Delivered(k)'
      BY <2>3, <1>6 DEF Delivered
    <3>2. \E i \in DOMAIN delivered' : delivered'[i].rec = n + 1
      <4>1. m + 1 \in 1 .. m + 1
        BY <1>6
      <4>. QED  BY <4>1, <2>2, <2>3
    <3>3. ASSUME NEW k \in 1 .. n + 1
          PROVE  Delivered(k)' \/ (k # n + 1 /\ ~Matches(readers'[k], k))
      <4>1. CASE k = n + 1
        BY <4>1, <3>2 DEF Delivered
      <4>2. CASE k \in 1 .. n
        BY <4>2, <3>1, <1>2, <1>9
      <4>. QED  BY <4>1, <4>2, <1>10
    <3>. QED  BY <3>3, <1>2 DEF LostToOthers, Matches
  <2>10. \A i \in 1 .. m + 1 : delivered'[i].fits /\ delivered'[i].rec <= n + 1 /\ delivered'[i].rec # 0
    BY <2>2, <2>3, <2>6, <1>2, <1>3, <1>7
  <2>11. Ordered'
    BY <2>3, <2>5, <2>8, <2>9, <2>10, <1>2, <1>3, <1>4, <1>5 DEF Ordered, Unspoilt
  <2>. QED  BY <2>1, <2>4, <2>11
<1>. QED  BY <1>11, <1>12

\* The file is at its end.
LEMMA EndsStep ==
  ASSUME PcapInAssumption, CaptureInv, NEW q \in PcapQueue, NextEnds(q)
  PROVE  CaptureInv'
<1> USE DEF CaptureInv
<1>1. /\ Len(readers) = Len(Records) /\ shared # ABSENT /\ shared \in Reader
      /\ shared' = [shared EXCEPT !.eof = TRUE, !.torn = FALSE, !.intact = @ /\ ~shared.torn]
      /\ UNCHANGED <<inpcap, held, size, readers, delivered>>
  BY DEF NextEnds, Asks, CaptureTypeOK
<1>2. /\ shared' \in Reader /\ shared' # ABSENT /\ shared'.refc = shared.refc /\ shared'.eof
      /\ shared'.buf_valid = shared.buf_valid /\ (shared'.intact => shared.intact)
  <2> DEFINE b == shared.intact /\ ~shared.torn
  <2>1. b \in BOOLEAN /\ (b => shared.intact)
    BY <1>1 DEF Reader
  <2>2. shared' = [shared EXCEPT !.eof = TRUE, !.torn = FALSE, !.intact = b]
    BY <1>1
  <2> HIDE DEF b
  <2>3. shared' \in Reader /\ shared'.refc = shared.refc /\ shared'.eof = TRUE
        /\ shared'.buf_valid = shared.buf_valid /\ shared'.intact = b
    BY <2>1, <2>2, <1>1 DEF Reader
  <2>. QED  BY <2>1, <2>3, CaptureFacts
<1>3. CaptureTypeOK' /\ RingsOk' /\ Living'
  BY <1>1, <1>2 DEF CaptureTypeOK, RingsOk, Living, OpenQueues
<1>4. FileOrder' /\ LostToOthers'
  BY <1>1, <1>2 DEF Ordered, FileOrder, LostToOthers, Matches, Delivered
<1>5. Ordered'
  BY <1>1, <1>2, <1>4 DEF Ordered, Unspoilt
<1>. QED  BY <1>3, <1>5

\* The capture in-queues (ldppcap.c): for every number of queues and buffers, every
\* file and every order of opens, closes, calls and returns, the queues share a
\* living reader, get its records in order and once, and each record is copied to a
\* buffer that nobody else has and that is large enough.
THEOREM CaptureInOrder ==
  ASSUME PcapInAssumption
  PROVE  CaptureSpec => []CapturesInOrder
<1>1. CaptureInit => CaptureInv
  BY CaptureStarts
<1>2. CaptureInv /\ [CaptureNext]_captureVars => CaptureInv'
  <2> SUFFICES ASSUME CaptureInv, [CaptureNext]_captureVars
               PROVE  CaptureInv'
    OBVIOUS
  <2>1. ASSUME NEW q \in PcapQueue, ldp_interface_open_pcap(q)
        PROVE  CaptureInv'
    BY <2>1, OpenStep
  <2>2. ASSUME NEW q \in PcapQueue, OpenFails(q)
        PROVE  CaptureInv'
    BY <2>2, OpenFailsStep
  <2>3. ASSUME NEW q \in PcapQueue, ldp_in_queue_close_pcap(q)
        PROVE  CaptureInv'
    BY <2>3, CloseStep
  <2>4. ASSUME NEW q \in PcapQueue, ldp_in_queue_nextpkts_ts_pcap(q)
        PROVE  CaptureInv'
    BY <2>4, LookaheadStep, ReadStep, EndsStep DEF ldp_in_queue_nextpkts_ts_pcap
  <2>5. ASSUME NEW q \in PcapQueue, NEW pkts \in Returns(held[q]), ldp_in_queue_deallocate_some_pcap(q, pkts)
        PROVE  CaptureInv'
    BY <2>5, ReturnsStep
  <2>6. CASE UNCHANGED captureVars
    BY <2>6 DEF captureVars, CaptureInv, CaptureTypeOK, RingsOk, Living, Ordered, OpenQueues, FileOrder,
                LostToOthers, Unspoilt, Delivered
  <2>. QED  BY <2>1, <2>2, <2>3, <2>4, <2>5, <2>6 DEF CaptureNext
<1>3. CaptureInv => CapturesInOrder
  BY CaptureSays
<1>. QED  BY <1>1, <1>2, <1>3, PTL DEF CaptureSpec
=============================================================================
