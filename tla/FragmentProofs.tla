--------------------------- MODULE FragmentProofs ---------------------------
(***************************************************************************)
(* Proofs that reassembly with a list of holes (IpReass) is right, for     *)
(* every size of a datagram and every set of fragments: the walks keep the *)
(* holes in order, the list holds exactly the missing bytes, and the       *)
(* packets that wait can fill a complete datagram.                         *)
(***************************************************************************)
EXTENDS IpReass, SequenceTheorems, TLAPS

Hole == [first : Nat, last : Nat]

\* The types; the place of the walk is a hole or the end of the list.
TypeOK ==
  /\ hole_list \in Seq(Hole) /\ packet_list \in Seq(Input)
  /\ most_restricting_last \in 0 .. Top
  /\ pc \in {"idle", "clip", "enter"}
  /\ iter \in 1 .. Len(hole_list) + 1 /\ (pc = "idle" => iter = 1)

\* A call that walks the list is about the packet at the end of the other list.
Calling == pc # "idle" => packet_list # << >> /\ Usable(pkt)

\* The holes that a walk has left behind are done.
Clipped == \A i \in DOMAIN hole_list :
  (pc = "clip" => i < iter) => hole_list[i].last <= most_restricting_last
Passed == pc = "enter" => \A i \in DOMAIN hole_list : i < iter => hole_list[i].last < pkt.first

\* Every byte is in a hole or in a packet that was not ignored.
Supplied(b) == \E k \in DOMAIN packet_list :
  Usable(packet_list[k]) /\ b \in packet_list[k].first .. data_last(packet_list[k])
Covered == \A b \in 0 .. most_restricting_last : b \in Missing \/ Supplied(b)

\* The inductive invariant.
IInv == TypeOK /\ Calling /\ HolesAscend /\ Clipped /\ Passed /\ Covered

-----------------------------------------------------------------------------
(* Lists of holes.                                                         *)

\* Removing one element of a sequence.
LEMMA RemoveAtProperties ==
  ASSUME NEW S, NEW s \in Seq(S), NEW i \in 1 .. Len(s)
  PROVE  /\ RemoveAt(s, i) \in Seq(S) /\ Len(RemoveAt(s, i)) = Len(s) - 1
         /\ \A j \in 1 .. Len(s) - 1 : RemoveAt(s, i)[j] = IF j < i THEN s[j] ELSE s[j + 1]
<1> DEFINE a == SubSeq(s, 1, i - 1)
           z == SubSeq(s, i + 1, Len(s))
<1>1. a \in Seq(S) /\ Len(a) = i - 1 /\ \A j \in 1 .. i - 1 : a[j] = s[j] OBVIOUS
<1>2. z \in Seq(S) /\ Len(z) = Len(s) - i /\ \A j \in 1 .. Len(s) - i : z[j] = s[i + j]
  <2>1. \A j \in i + 1 .. Len(s) : s[j] \in S OBVIOUS
  <2> QED BY <2>1, SubSeqProperties
<1> HIDE DEF a, z
<1>3. \A j \in 1 .. Len(a) + Len(z) : (a \o z)[j] = IF j <= Len(a) THEN a[j] ELSE z[j - Len(a)]
  BY <1>1, <1>2, ConcatProperties
<1>4. a \o z \in Seq(S) /\ Len(a \o z) = Len(a) + Len(z) BY <1>1, <1>2, ConcatProperties
<1>5. ASSUME NEW j \in 1 .. Len(s) - 1
      PROVE  (a \o z)[j] = IF j < i THEN s[j] ELSE s[j + 1]
  <2>1. CASE j < i BY <2>1, <1>1, <1>2, <1>3
  <2>2. CASE ~(j < i)
    <3>1. j - (i - 1) \in 1 .. Len(s) - i /\ i + (j - (i - 1)) = j + 1 BY <2>2
    <3>2. j \in 1 .. Len(a) + Len(z) /\ ~(j <= Len(a)) BY <2>2, <1>1, <1>2
    <3>3. (a \o z)[j] = z[j - (i - 1)] BY <3>2, <1>1, <1>3
    <3> QED BY <2>2, <3>1, <3>3, <1>2
  <2> QED BY <2>1, <2>2
<1>6. Len(a \o z) = Len(s) - 1 BY <1>1, <1>2, <1>4
<1> QED BY <1>4, <1>5, <1>6 DEF RemoveAt, a, z

\* Inserting one element into a sequence.
LEMMA InsertAtProperties ==
  ASSUME NEW S, NEW s \in Seq(S), NEW i \in 1 .. Len(s), NEW e \in S
  PROVE  /\ InsertAt(s, i, e) \in Seq(S) /\ Len(InsertAt(s, i, e)) = Len(s) + 1
         /\ \A j \in 1 .. Len(s) + 1 : InsertAt(s, i, e)[j] =
              IF j < i THEN s[j] ELSE IF j = i THEN e ELSE s[j - 1]
<1> DEFINE a == SubSeq(s, 1, i - 1)
           m == a \o <<e>>
           z == SubSeq(s, i, Len(s))
<1>1. a \in Seq(S) /\ Len(a) = i - 1 /\ \A j \in 1 .. i - 1 : a[j] = s[j] OBVIOUS
<1>2. z \in Seq(S) /\ Len(z) = Len(s) - i + 1 /\ \A j \in 1 .. Len(s) - i + 1 : z[j] = s[i + j - 1]
  <2>1. \A j \in i .. Len(s) : s[j] \in S OBVIOUS
  <2> QED BY <2>1, SubSeqProperties
<1>3. m \in Seq(S) /\ Len(m) = i /\ m[i] = e /\ \A j \in 1 .. i - 1 : m[j] = s[j]
  BY <1>1
<1> HIDE DEF a, m, z
<1>4. \A j \in 1 .. Len(m) + Len(z) : (m \o z)[j] = IF j <= Len(m) THEN m[j] ELSE z[j - Len(m)]
  BY <1>3, <1>2, ConcatProperties
<1>5. m \o z \in Seq(S) /\ Len(m \o z) = Len(m) + Len(z) BY <1>3, <1>2, ConcatProperties
<1>6. ASSUME NEW j \in 1 .. Len(s) + 1
      PROVE  (m \o z)[j] = IF j < i THEN s[j] ELSE IF j = i THEN e ELSE s[j - 1]
  <2>1. CASE j <= i BY <2>1, <1>3, <1>2, <1>4
  <2>2. CASE ~(j <= i)
    <3>1. j - i \in 1 .. Len(s) - i + 1 /\ i + (j - i) - 1 = j - 1 BY <2>2
    <3> QED BY <2>2, <3>1, <1>3, <1>2, <1>4
  <2> QED BY <2>1, <2>2
<1>7. InsertAt(s, i, e) = m \o z BY DEF InsertAt, a, m, z
<1>8. Len(m) + Len(z) = Len(s) + 1 BY <1>2, <1>3
<1> QED BY <1>5, <1>6, <1>7, <1>8

\* The parts of HolesAscend and Missing, of any list.
Ascend(s) ==
  /\ \A i \in DOMAIN s : s[i].first <= s[i].last
  /\ \A i, j \in DOMAIN s : i < j => s[i].last < s[j].first
InHole(b, h) == h.first <= b /\ b <= h.last
InList(b, s) == \E i \in DOMAIN s : InHole(b, s[i])

\* The bounds of a hole are numbers.
LEMMA HoleOfNumbers == \A h \in Hole : h.first \in Int /\ h.last \in Int
BY DEF Hole

\* The bounds of a hole of a list are numbers.
LEMMA HoleBounds ==
  ASSUME NEW s \in Seq(Hole)
  PROVE  /\ DOMAIN s = 1 .. Len(s) /\ Len(s) \in Nat
         /\ \A i \in 1 .. Len(s) : s[i] \in Hole /\ s[i].first \in Int /\ s[i].last \in Int
<1>1. DOMAIN s = 1 .. Len(s) /\ Len(s) \in Nat OBVIOUS
<1>2. \A i \in 1 .. Len(s) : s[i] \in Hole OBVIOUS
<1> QED BY <1>1, <1>2, HoleOfNumbers

\* A hole is deleted.
LEMMA HoleDeleted ==
  ASSUME NEW s \in Seq(Hole), NEW i \in 1 .. Len(s), Ascend(s)
  PROVE  /\ RemoveAt(s, i) \in Seq(Hole) /\ Len(RemoveAt(s, i)) = Len(s) - 1
         /\ Ascend(RemoveAt(s, i))
         /\ \A j \in 1 .. Len(s) - 1 : RemoveAt(s, i)[j] = IF j < i THEN s[j] ELSE s[j + 1]
         /\ \A b \in Int : InList(b, RemoveAt(s, i)) <=> InList(b, s) /\ ~InHole(b, s[i])
<1> DEFINE t == RemoveAt(s, i)
<1>1. /\ t \in Seq(Hole) /\ Len(t) = Len(s) - 1
      /\ \A j \in 1 .. Len(s) - 1 : t[j] = IF j < i THEN s[j] ELSE s[j + 1]
  BY RemoveAtProperties
<1> HIDE DEF t
<1>2. DOMAIN t = 1 .. Len(s) - 1 /\ DOMAIN s = 1 .. Len(s) /\ Len(s) \in Nat BY <1>1
<1>3. \A j \in 1 .. Len(s) : s[j].first \in Int /\ s[j].last \in Int BY HoleBounds
<1>4. Ascend(t)
  <2>1. ASSUME NEW j \in 1 .. Len(s) - 1
        PROVE  \E m \in 1 .. Len(s) : t[j] = s[m] /\ m = IF j < i THEN j ELSE j + 1
    BY <1>1, <1>2
  <2>2. \A j \in 1 .. Len(s) - 1 : t[j].first <= t[j].last BY <2>1, <1>2 DEF Ascend
  <2>3. ASSUME NEW j \in 1 .. Len(s) - 1, NEW k \in 1 .. Len(s) - 1, j < k
        PROVE  t[j].last < t[k].first
    <3>1. PICK m \in 1 .. Len(s) : t[j] = s[m] /\ m = IF j < i THEN j ELSE j + 1 BY <2>1
    <3>2. PICK n \in 1 .. Len(s) : t[k] = s[n] /\ n = IF k < i THEN k ELSE k + 1 BY <2>1
    <3>3. m < n BY <2>3, <3>1, <3>2
    <3> QED BY <3>1, <3>2, <3>3, <1>2 DEF Ascend
  <2> QED BY <2>2, <2>3, <1>2 DEF Ascend
<1>5. ASSUME NEW b \in Int PROVE InList(b, t) <=> InList(b, s) /\ ~InHole(b, s[i])
  <2>1. ASSUME NEW j \in 1 .. Len(s) - 1, InHole(b, t[j])
        PROVE  InList(b, s) /\ ~InHole(b, s[i])
    <3>1. PICK k \in 1 .. Len(s) : k # i /\ t[j] = s[k] BY <1>1, <1>2
    <3>2. k < i \/ i < k BY <3>1
    <3>3. k < i => s[k].last < s[i].first BY <1>2 DEF Ascend
    <3>4. i < k => s[i].last < s[k].first BY <1>2 DEF Ascend
    <3>5. InHole(b, s[k]) BY <2>1, <3>1
    <3>6. ~InHole(b, s[i]) BY <3>2, <3>3, <3>4, <3>5, <1>3 DEF InHole
    <3> QED BY <3>5, <3>6, <1>2 DEF InList
  <2>2. ASSUME NEW j \in 1 .. Len(s), InHole(b, s[j]), ~InHole(b, s[i])
        PROVE  InList(b, t)
    <3>1. CASE j < i
      <4>1. j \in 1 .. Len(s) - 1 /\ t[j] = s[j] BY <3>1, <1>1, <1>2
      <4> QED BY <4>1, <2>2, <1>2 DEF InList
    <3>2. CASE j > i
      <4>1. j - 1 \in 1 .. Len(s) - 1 /\ ~(j - 1 < i) /\ (j - 1) + 1 = j BY <3>2
      <4>2. t[j - 1] = s[j] BY <4>1, <1>1
      <4> QED BY <4>1, <4>2, <2>2, <1>2 DEF InList
    <3> QED BY <3>1, <3>2, <2>2
  <2> QED BY <2>1, <2>2, <1>2 DEF InList
<1> QED BY <1>1, <1>4, <1>5 DEF t

\* A hole shrinks.
LEMMA HoleShrunk ==
  ASSUME NEW s \in Seq(Hole), NEW i \in 1 .. Len(s), Ascend(s), NEW h \in Hole,
         s[i].first <= h.first, h.first <= h.last, h.last <= s[i].last
  PROVE  LET t == [s EXCEPT ![i] = h]
         IN  /\ t \in Seq(Hole) /\ Len(t) = Len(s) /\ Ascend(t)
             /\ \A j \in 1 .. Len(s) : t[j] = IF j = i THEN h ELSE s[j]
             /\ \A b \in Int : InList(b, t) <=> (InList(b, s) /\ ~InHole(b, s[i])) \/ InHole(b, h)
<1> DEFINE t == [s EXCEPT ![i] = h]
<1>1. /\ t \in Seq(Hole) /\ Len(t) = Len(s)
      /\ \A j \in 1 .. Len(s) : t[j] = IF j = i THEN h ELSE s[j]
  OBVIOUS
<1> HIDE DEF t
<1>2. DOMAIN t = 1 .. Len(s) /\ DOMAIN s = 1 .. Len(s) /\ Len(s) \in Nat BY <1>1
<1>3. /\ \A j \in 1 .. Len(s) : s[j].first \in Int /\ s[j].last \in Int
      /\ h.first \in Int /\ h.last \in Int
  BY HoleBounds, HoleOfNumbers
<1>4. Ascend(t)
  <2>1. \A j \in 1 .. Len(s) : t[j].first <= t[j].last BY <1>1, <1>2, <1>3 DEF Ascend
  <2>2. ASSUME NEW j \in 1 .. Len(s), NEW k \in 1 .. Len(s), j < k PROVE t[j].last < t[k].first
    <3>1. s[j].last < s[k].first BY <2>2, <1>2 DEF Ascend
    <3> QED BY <2>2, <3>1, <1>1, <1>3
  <2> QED BY <2>1, <2>2, <1>2 DEF Ascend
<1>5. ASSUME NEW b \in Int
      PROVE  InList(b, t) <=> (InList(b, s) /\ ~InHole(b, s[i])) \/ InHole(b, h)
  <2>1. ASSUME NEW j \in 1 .. Len(s), InHole(b, t[j])
        PROVE  (InList(b, s) /\ ~InHole(b, s[i])) \/ InHole(b, h)
    <3>1. CASE j = i BY <3>1, <2>1, <1>1
    <3>2. CASE j # i
      <4>1. t[j] = s[j] /\ (j < i \/ i < j) BY <3>2, <1>1
      <4>2. j < i => s[j].last < s[i].first BY <1>2 DEF Ascend
      <4>3. i < j => s[i].last < s[j].first BY <1>2 DEF Ascend
      <4>4. InHole(b, s[j]) BY <2>1, <4>1
      <4>5. ~InHole(b, s[i]) BY <4>1, <4>2, <4>3, <4>4, <1>3 DEF InHole
      <4> QED BY <4>4, <4>5, <1>2 DEF InList
    <3> QED BY <3>1, <3>2
  <2>2. ASSUME NEW j \in 1 .. Len(s), InHole(b, s[j]), ~InHole(b, s[i])
        PROVE  InList(b, t)
    BY <2>2, <1>1, <1>2 DEF InList
  <2>3. InHole(b, h) => InList(b, t) BY <1>1, <1>2 DEF InList
  <2> QED BY <2>1, <2>2, <2>3, <1>2 DEF InList
<1> QED BY <1>1, <1>4, <1>5 DEF t

\* A hole is split.
LEMMA HoleSplit ==
  ASSUME NEW s \in Seq(Hole), NEW i \in 1 .. Len(s), Ascend(s), NEW g \in Hole, NEW h \in Hole,
         s[i].first <= g.first, g.first <= g.last, g.last < h.first, h.first <= h.last,
         h.last <= s[i].last
  PROVE  LET t == InsertAt([s EXCEPT ![i] = h], i, g)
         IN  /\ t \in Seq(Hole) /\ Len(t) = Len(s) + 1 /\ Ascend(t)
             /\ \A j \in 1 .. Len(s) + 1 : t[j] =
                  IF j < i THEN s[j] ELSE IF j = i THEN g ELSE IF j = i + 1 THEN h ELSE s[j - 1]
             /\ \A b \in Int : InList(b, t) <=>
                  (InList(b, s) /\ ~InHole(b, s[i])) \/ InHole(b, g) \/ InHole(b, h)
<1> DEFINE r == [s EXCEPT ![i] = h]
           t == InsertAt(r, i, g)
<1>1. /\ r \in Seq(Hole) /\ Len(r) = Len(s)
      /\ \A j \in 1 .. Len(s) : r[j] = IF j = i THEN h ELSE s[j]
  OBVIOUS
<1> HIDE DEF r
<1>2. /\ t \in Seq(Hole) /\ Len(t) = Len(r) + 1
      /\ \A j \in 1 .. Len(r) + 1 : t[j] = IF j < i THEN r[j] ELSE IF j = i THEN g ELSE r[j - 1]
  BY <1>1, InsertAtProperties
<1> HIDE DEF t
<1>3. DOMAIN t = 1 .. Len(s) + 1 /\ DOMAIN s = 1 .. Len(s) /\ Len(s) \in Nat BY <1>1, <1>2
<1>4. ASSUME NEW j \in 1 .. Len(s) + 1
      PROVE  t[j] = IF j < i THEN s[j] ELSE IF j = i THEN g ELSE IF j = i + 1 THEN h ELSE s[j - 1]
  <2>1. CASE j < i
    <3>1. j \in 1 .. Len(s) /\ j \in 1 .. Len(r) + 1 /\ j # i BY <2>1, <1>1, <1>3
    <3> QED BY <2>1, <3>1, <1>1, <1>2
  <2>2. CASE j = i BY <2>2, <1>1, <1>2, <1>3
  <2>3. CASE j > i
    <3>1. j - 1 \in 1 .. Len(s) /\ (j - 1 = i <=> j = i + 1) /\ ~(j < i) /\ j # i BY <2>3, <1>3
    <3>2. t[j] = r[j - 1] BY <3>1, <1>1, <1>2
    <3> QED BY <3>1, <3>2, <1>1
  <2> QED BY <2>1, <2>2, <2>3
<1>5. /\ \A j \in 1 .. Len(s) : s[j].first \in Int /\ s[j].last \in Int
      /\ h.first \in Int /\ h.last \in Int /\ g.first \in Int /\ g.last \in Int
  BY HoleBounds, HoleOfNumbers
<1>6. Ascend(t)
  <2>1. ASSUME NEW j \in 1 .. Len(s) + 1
        PROVE  \E m \in 1 .. Len(s) :
                 /\ m = IF j <= i THEN j ELSE j - 1
                 /\ s[m].first <= t[j].first /\ t[j].first <= t[j].last /\ t[j].last <= s[m].last
                 /\ t[j].first \in Int /\ t[j].last \in Int
    <3> DEFINE m == IF j <= i THEN j ELSE j - 1
    <3>1. m \in 1 .. Len(s) BY <1>3
    <3>2. s[m].first <= s[m].last BY <3>1, <1>3 DEF Ascend
    <3>3. CASE j < i BY <3>1, <3>2, <3>3, <1>4, <1>5
    <3>4. CASE j = i BY <3>1, <3>4, <1>4, <1>5
    <3>5. CASE j = i + 1
      <4>1. m = i /\ t[j] = h BY <3>5, <1>4
      <4> QED BY <3>1, <4>1, <1>5
    <3>6. CASE j > i + 1
      <4>1. m = j - 1 /\ t[j] = s[m] BY <3>6, <1>4
      <4> QED BY <3>1, <3>2, <4>1, <1>5
    <3> QED BY <3>3, <3>4, <3>5, <3>6
  <2>2. ASSUME NEW j \in 1 .. Len(s) + 1, NEW k \in 1 .. Len(s) + 1, j < k
        PROVE  t[j].last < t[k].first
    <3>1. CASE j = i /\ k = i + 1 BY <3>1, <1>4
    <3>2. CASE ~(j = i /\ k = i + 1)
      <4>1. PICK m \in 1 .. Len(s) : m = (IF j <= i THEN j ELSE j - 1)
              /\ t[j].last <= s[m].last /\ t[j].last \in Int
        BY <2>1
      <4>2. PICK n \in 1 .. Len(s) : n = (IF k <= i THEN k ELSE k - 1)
              /\ s[n].first <= t[k].first /\ t[k].first \in Int
        BY <2>1
      <4>3. m < n BY <2>2, <3>2, <4>1, <4>2
      <4>4. s[m].last < s[n].first BY <4>3, <1>3 DEF Ascend
      <4>5. s[m].last \in Int /\ s[n].first \in Int BY <1>5
      <4> QED BY <4>1, <4>2, <4>4, <4>5
    <3> QED BY <3>1, <3>2
  <2> QED BY <2>1, <2>2, <1>3 DEF Ascend
<1>7. ASSUME NEW b \in Int
      PROVE  InList(b, t) <=> (InList(b, s) /\ ~InHole(b, s[i])) \/ InHole(b, g) \/ InHole(b, h)
  <2>1. ASSUME NEW j \in 1 .. Len(s) + 1, InHole(b, t[j]), ~InHole(b, g), ~InHole(b, h)
        PROVE  InList(b, s) /\ ~InHole(b, s[i])
    <3>1. CASE j < i
      <4>1. j \in 1 .. Len(s) /\ t[j] = s[j] BY <3>1, <1>3, <1>4
      <4>2. s[j].last < s[i].first BY <3>1, <4>1, <1>3 DEF Ascend
      <4>3. InHole(b, s[j]) BY <4>1, <2>1
      <4>4. ~InHole(b, s[i])
        <5>1. s[i].first \in Int /\ s[j].last \in Int BY <4>1, <1>5
        <5> QED BY <4>2, <4>3, <5>1 DEF InHole
      <4> QED BY <4>1, <4>3, <4>4, <1>3 DEF InList
    <3>2. CASE j > i + 1
      <4>1. j - 1 \in 1 .. Len(s) /\ t[j] = s[j - 1] /\ i < j - 1 BY <3>2, <1>3, <1>4
      <4>2. s[i].last < s[j - 1].first BY <4>1, <1>3 DEF Ascend
      <4>3. InHole(b, s[j - 1]) BY <4>1, <2>1
      <4>4. ~InHole(b, s[i])
        <5>1. s[j - 1].first \in Int /\ s[i].last \in Int BY <4>1, <1>5
        <5> QED BY <4>2, <4>3, <5>1 DEF InHole
      <4> QED BY <4>1, <4>3, <4>4, <1>3 DEF InList
    <3> QED BY <3>1, <3>2, <2>1, <1>4
  <2>2. ASSUME NEW j \in 1 .. Len(s), InHole(b, s[j]), ~InHole(b, s[i])
        PROVE  InList(b, t)
    <3>1. CASE j < i
      <4>1. j \in 1 .. Len(s) + 1 /\ t[j] = s[j] BY <3>1, <1>3, <1>4
      <4> QED BY <4>1, <2>2, <1>3 DEF InList
    <3>2. CASE j > i
      <4>1. j + 1 \in 1 .. Len(s) + 1 /\ (j + 1) - 1 = j /\ j + 1 > i + 1 BY <3>2, <1>3
      <4>2. t[j + 1] = s[j] BY <4>1, <1>4
      <4> QED BY <4>1, <4>2, <2>2, <1>3 DEF InList
    <3> QED BY <3>1, <3>2, <2>2
  <2>3. InHole(b, g) => InList(b, t)
    <3>1. i \in 1 .. Len(s) + 1 /\ t[i] = g BY <1>3, <1>4
    <3> QED BY <3>1, <1>3 DEF InList
  <2>4. InHole(b, h) => InList(b, t)
    <3>1. i + 1 \in 1 .. Len(s) + 1 /\ t[i + 1] = h BY <1>3, <1>4
    <3> QED BY <3>1, <1>3 DEF InList
  <2> QED BY <2>1, <2>2, <2>3, <2>4, <1>3 DEF InList
<1>8. Len(t) = Len(s) + 1 BY <1>1, <1>2
<1> QED BY <1>2, <1>4, <1>6, <1>7, <1>8 DEF t, r

-----------------------------------------------------------------------------
(* The steps of the walks.                                                 *)

\* The definitions, in terms of lists.
LEMMA ListDef ==
  /\ HolesAscend <=> Ascend(hole_list)
  /\ hole_list \in Seq(Hole) => \A b : b \in Missing <=> b \in Int /\ InList(b, hole_list)
<1>1. HolesAscend <=> Ascend(hole_list) BY DEF HolesAscend, Ascend
<1>2. ASSUME hole_list \in Seq(Hole), NEW b
      PROVE  b \in Missing <=> b \in Int /\ InList(b, hole_list)
  <2>1. \A i \in DOMAIN hole_list : b \in hole_list[i].first .. hole_list[i].last
                                  <=> b \in Int /\ InHole(b, hole_list[i])
    BY <1>2, HoleBounds DEF InHole
  <2>2. b \in Missing <=> \E i \in DOMAIN hole_list : b \in hole_list[i].first .. hole_list[i].last
    BY DEF Missing, Range
  <2> QED BY <2>1, <2>2 DEF InList
<1> QED BY <1>1, <1>2

\* The same of the next state.
LEMMA NextListDef ==
  /\ HolesAscend' <=> Ascend(hole_list')
  /\ hole_list' \in Seq(Hole) => \A b : b \in Missing' <=> b \in Int /\ InList(b, hole_list')
<1>1. HolesAscend' <=> Ascend(hole_list') BY DEF HolesAscend, Ascend
<1>2. ASSUME hole_list' \in Seq(Hole), NEW b
      PROVE  b \in Missing' <=> b \in Int /\ InList(b, hole_list')
  <2>1. \A i \in DOMAIN hole_list' : b \in hole_list'[i].first .. hole_list'[i].last
                                  <=> b \in Int /\ InHole(b, hole_list'[i])
    BY <1>2, HoleBounds DEF InHole
  <2>2. b \in Missing' <=> \E i \in DOMAIN hole_list' : b \in hole_list'[i].first .. hole_list'[i].last
    BY DEF Missing, Range
  <2> QED BY <2>1, <2>2 DEF InList
<1> QED BY <1>1, <1>2

\* A fragment has numbers.
LEMMA FragmentNumbers ==
  ASSUME IpReassAssumption, NEW f \in Input
  PROVE  /\ f.first \in 0 .. Top /\ f.len \in 0 .. Top + 1 /\ f.more \in BOOLEAN
         /\ data_last(f) \in Int /\ data_last(f) = f.first + f.len - 1 /\ Top \in Nat
         /\ Usable(f) => f.first <= data_last(f) /\ data_last(f) <= Top
<1>1. f \in [first : {u \in 0 .. Top : u % Unit = 0}, len : 0 .. Top + 1, more : BOOLEAN]
  BY DEF IpReassAssumption
<1>2. f.first \in 0 .. Top /\ f.len \in 0 .. Top + 1 /\ f.more \in BOOLEAN BY <1>1
<1>3. Top \in Nat BY DEF IpReassAssumption
<1> QED BY <1>2, <1>3 DEF data_last, Usable

\* The packet of a call.
LEMMA PacketOfCall ==
  ASSUME IpReassAssumption, TypeOK, Calling, pc # "idle"
  PROVE  /\ pkt \in Input /\ Usable(pkt) /\ pkt = packet_list[Len(packet_list)]
         /\ Len(packet_list) \in DOMAIN packet_list
         /\ pkt.first \in Nat /\ data_last(pkt) \in Nat /\ pkt.first <= data_last(pkt)
<1>1. packet_list # << >> /\ packet_list \in Seq(Input) /\ Usable(pkt) BY DEF Calling, TypeOK
<1>2. Len(packet_list) \in DOMAIN packet_list /\ packet_list[Len(packet_list)] \in Input
  BY <1>1
<1>3. pkt \in Input /\ pkt = packet_list[Len(packet_list)] BY <1>2 DEF pkt, Last
<1> QED BY <1>1, <1>2, <1>3, FragmentNumbers

\* The bytes that the walks of the call will leave in the list.
Left(b, s, where) ==
  /\ InList(b, s)
  /\ where = "clip" => b <= most_restricting_last
  /\ where # "idle" => ~(pkt.first <= b /\ b <= data_last(pkt))

\* A turn of a walk that keeps these bytes changes nothing that can be seen
\* from outside, and every other byte can be supplied.
LEMMA Unseen ==
  ASSUME IpReassAssumption, TypeOK, Calling, Covered, pc # "idle",
         UNCHANGED <<packet_list, most_restricting_last>>,
         hole_list' \in Seq(Hole),
         \A b \in Int : Left(b, hole_list, pc) <=> Left(b, hole_list', pc')
  PROVE  Covered' /\ StillMissing' = StillMissing
<1> DEFINE D == pkt.first .. data_last(pkt)
<1>1. /\ pkt.first \in Nat /\ data_last(pkt) \in Nat /\ Usable(pkt)
      /\ pkt = packet_list[Len(packet_list)] /\ Len(packet_list) \in DOMAIN packet_list
  BY PacketOfCall
<1>2. hole_list \in Seq(Hole) /\ most_restricting_last \in 0 .. Top /\ Top \in Nat
  BY DEF TypeOK, IpReassAssumption
<1>3. \A b : b \in Missing <=> b \in Int /\ InList(b, hole_list) BY <1>2, ListDef
<1>4. \A b : b \in Missing' <=> b \in Int /\ InList(b, hole_list') BY NextListDef
<1>5. pkt' = pkt BY DEF pkt
<1>6. \A b \in Int : b \in D <=> pkt.first <= b /\ b <= data_last(pkt) BY <1>1
<1> HIDE DEF D
<1>7. \A b : b \in StillMissing <=> b \in Int /\ Left(b, hole_list, pc)
  BY <1>3, <1>6 DEF StillMissing, Entering, Left, D
<1>8. \A b : b \in StillMissing' <=> b \in Int /\ Left(b, hole_list', pc')
  BY <1>4, <1>5, <1>6 DEF StillMissing, Entering, Left, D, data_last
<1>9. StillMissing' = StillMissing BY <1>7, <1>8
<1>10. ASSUME NEW b \in 0 .. most_restricting_last PROVE b \in Missing' \/ Supplied(b)'
  <2>1. Supplied(b)' <=> Supplied(b) BY DEF Supplied
  <2>2. b \in D => Supplied(b) BY <1>1 DEF Supplied, D
  <2>3. b \in Int /\ b <= most_restricting_last BY <1>2
  <2>4. b \in Missing /\ b \notin D => Left(b, hole_list, pc) BY <2>3, <1>3, <1>6 DEF Left
  <2>5. Left(b, hole_list', pc') => b \in Missing' BY <2>3, <1>4 DEF Left
  <2>6. b \in Missing \/ Supplied(b) BY DEF Covered
  <2> QED BY <2>1, <2>2, <2>3, <2>4, <2>5, <2>6
<1> QED BY <1>9, <1>10 DEF Covered

\* What a turn of a walk has at hand.
LEMMA AtTurn ==
  ASSUME IpReassAssumption, IInv, pc # "idle"
  PROVE  /\ hole_list \in Seq(Hole) /\ Ascend(hole_list) /\ Len(hole_list) \in Nat
         /\ DOMAIN hole_list = 1 .. Len(hole_list) /\ iter \in 1 .. Len(hole_list) + 1
         /\ \A i \in 1 .. Len(hole_list) : /\ hole_list[i] \in Hole
                                           /\ hole_list[i].first \in Nat /\ hole_list[i].last \in Nat
                                           /\ hole_list[i].first <= hole_list[i].last
         /\ most_restricting_last \in Nat
<1>1. hole_list \in Seq(Hole) /\ Ascend(hole_list) BY ListDef DEF IInv, TypeOK
<1>2. \A h \in Hole : h.first \in Nat /\ h.last \in Nat BY DEF Hole
<1>3. DOMAIN hole_list = 1 .. Len(hole_list) /\ Len(hole_list) \in Nat BY <1>1
<1>4. \A i \in 1 .. Len(hole_list) : hole_list[i] \in Hole BY <1>1
<1>5. iter \in 1 .. Len(hole_list) + 1 /\ most_restricting_last \in Nat
  BY DEF IInv, TypeOK, IpReassAssumption
<1> QED BY <1>1, <1>2, <1>3, <1>4, <1>5 DEF Ascend

\* A turn of a walk: what is left to show of it.
LEMMA TurnKeeps ==
  ASSUME IpReassAssumption, IInv, pc # "idle",
         UNCHANGED <<packet_list, most_restricting_last>>,
         pc' \in {"idle", "clip", "enter"}, hole_list' \in Seq(Hole), Ascend(hole_list'),
         iter' \in 1 .. Len(hole_list') + 1, pc' = "idle" => iter' = 1,
         \A i \in 1 .. Len(hole_list') :
           (pc' = "clip" => i < iter') => hole_list'[i].last <= most_restricting_last,
         pc' = "enter" => \A i \in 1 .. Len(hole_list') :
           i < iter' => hole_list'[i].last < pkt.first,
         \A b \in Int : Left(b, hole_list, pc) <=> Left(b, hole_list', pc')
  PROVE  IInv' /\ StillMissing' = StillMissing
<1>1. Covered' /\ StillMissing' = StillMissing BY Unseen DEF IInv
<1>2. TypeOK' BY DEF IInv, TypeOK
<1>3. pkt' = pkt BY DEF pkt
<1>4. Calling' BY <1>3 DEF IInv, Calling, Usable, data_last
<1>5. HolesAscend' BY NextListDef
<1>6. DOMAIN hole_list' = 1 .. Len(hole_list') OBVIOUS
<1>7. Clipped' BY <1>6 DEF Clipped
<1>8. Passed' BY <1>3, <1>6 DEF Passed
<1> QED BY <1>1, <1>2, <1>4, <1>5, <1>7, <1>8 DEF IInv

\* Data that ends in a hole is in no other.
LEMMA DataInHole ==
  ASSUME IpReassAssumption, IInv, pc = "enter", iter \in DOMAIN hole_list,
         data_last(pkt) <= hole.last, NEW b \in Int, InList(b, hole_list),
         pkt.first <= b, b <= data_last(pkt)
  PROVE  InHole(b, hole_list[iter])
<1>1. PICK j \in 1 .. Len(hole_list) : InHole(b, hole_list[j]) BY AtTurn DEF InList
<1>2. iter \in 1 .. Len(hole_list) BY AtTurn
<1>3. /\ hole_list[j].first \in Nat /\ hole_list[j].last \in Nat
      /\ hole_list[iter].first \in Nat /\ hole_list[iter].last \in Nat
      /\ pkt.first \in Nat /\ data_last(pkt) \in Nat
  BY <1>2, AtTurn, PacketOfCall DEF IInv
<1>4. j < iter => hole_list[j].last < pkt.first BY AtTurn DEF IInv, Passed
<1>5. iter < j => hole_list[iter].last < hole_list[j].first BY <1>2, AtTurn DEF Ascend
<1>6. ~(j < iter) BY <1>1, <1>3, <1>4 DEF InHole
<1>7. ~(iter < j) BY <1>1, <1>3, <1>5 DEF InHole, hole
<1>8. j = iter BY <1>2, <1>6, <1>7, AtTurn
<1> QED BY <1>1, <1>8

\* A hole past the end is deleted.
LEMMA ClipDeleteKeeps ==
  ASSUME IpReassAssumption, IInv, ClipDelete PROVE IInv' /\ StillMissing' = StillMissing
<1> DEFINE t == RemoveAt(hole_list, iter)
<1>1. /\ pc = "clip" /\ pc' = "clip" /\ iter' = iter /\ hole_list' = t
      /\ iter \in 1 .. Len(hole_list) /\ hole_list[iter].first > most_restricting_last
      /\ UNCHANGED <<packet_list, most_restricting_last>>
  BY AtTurn DEF ClipDelete, Turn, InLoop, Delete, Continue, hole
<1>2. /\ t \in Seq(Hole) /\ Len(t) = Len(hole_list) - 1 /\ Ascend(t)
      /\ \A j \in 1 .. Len(hole_list) - 1 :
           t[j] = IF j < iter THEN hole_list[j] ELSE hole_list[j + 1]
      /\ \A b \in Int : InList(b, t) <=> InList(b, hole_list) /\ ~InHole(b, hole_list[iter])
  BY <1>1, AtTurn, HoleDeleted
<1> HIDE DEF t
<1>3. iter' \in 1 .. Len(t) + 1 BY <1>1, <1>2, AtTurn
<1>4. ASSUME NEW j \in 1 .. Len(t), j < iter PROVE t[j].last <= most_restricting_last
  <2>1. j \in DOMAIN hole_list /\ t[j] = hole_list[j] BY <1>1, <1>2, <1>4, AtTurn
  <2> QED BY <2>1, <1>1, <1>4 DEF IInv, Clipped
<1>5. ASSUME NEW b \in Int PROVE Left(b, hole_list, pc) <=> Left(b, t, pc')
  <2>1. b <= most_restricting_last => ~InHole(b, hole_list[iter]) BY <1>1, AtTurn DEF InHole
  <2> QED BY <2>1, <1>1, <1>2 DEF Left
<1> QED BY <1>1, <1>2, <1>3, <1>4, <1>5, TurnKeeps

\* A hole across the end is cut.
LEMMA ClipCutKeeps ==
  ASSUME IpReassAssumption, IInv, ClipCut PROVE IInv' /\ StillMissing' = StillMissing
<1> DEFINE h == Cut(hole)
           t == [hole_list EXCEPT ![iter] = h]
<1>1. /\ pc = "clip" /\ pc' = "clip" /\ iter' = iter + 1 /\ hole_list' = t
      /\ iter \in 1 .. Len(hole_list) /\ hole_list[iter].first <= most_restricting_last
      /\ UNCHANGED <<packet_list, most_restricting_last>>
  BY AtTurn DEF ClipCut, Turn, InLoop, Leave, Continue, hole
<1>2. /\ h \in Hole /\ h.first = hole_list[iter].first
      /\ h.last = IF hole_list[iter].last > most_restricting_last
                    THEN most_restricting_last ELSE hole_list[iter].last
  BY <1>1, AtTurn DEF Cut, Hole, hole
<1> HIDE DEF h
<1>3. hole_list[iter].first <= h.first /\ h.first <= h.last /\ h.last <= hole_list[iter].last
  BY <1>1, <1>2, AtTurn
<1>4. /\ t \in Seq(Hole) /\ Len(t) = Len(hole_list) /\ Ascend(t)
      /\ \A j \in 1 .. Len(hole_list) : t[j] = IF j = iter THEN h ELSE hole_list[j]
      /\ \A b \in Int : InList(b, t) <=>
           (InList(b, hole_list) /\ ~InHole(b, hole_list[iter])) \/ InHole(b, h)
  BY <1>1, <1>2, <1>3, AtTurn, HoleShrunk
<1> HIDE DEF t
<1>5. iter' \in 1 .. Len(t) + 1 BY <1>1, <1>4, AtTurn
<1>6. ASSUME NEW j \in 1 .. Len(t), j < iter' PROVE t[j].last <= most_restricting_last
  <2>1. CASE j = iter BY <2>1, <1>1, <1>2, <1>4, AtTurn
  <2>2. CASE j # iter
    <3>1. j \in DOMAIN hole_list /\ t[j] = hole_list[j] /\ j < iter BY <2>2, <1>1, <1>4, <1>6, AtTurn
    <3> QED BY <3>1, <1>1 DEF IInv, Clipped
  <2> QED BY <2>1, <2>2
<1>7. ASSUME NEW b \in Int PROVE Left(b, hole_list, pc) <=> Left(b, t, pc')
  <2>1. b <= most_restricting_last => (InHole(b, h) <=> InHole(b, hole_list[iter]))
    BY <1>1, <1>2, AtTurn DEF InHole
  <2>2. InHole(b, hole_list[iter]) => InList(b, hole_list) BY <1>1, AtTurn DEF InList
  <2> QED BY <2>1, <2>2, <1>1, <1>4 DEF Left
<1> QED BY <1>1, <1>4, <1>5, <1>6, <1>7, TurnKeeps

\* A walk comes to the end of the list.
LEMMA LoopEndsKeeps ==
  ASSUME IpReassAssumption, IInv, LoopEnds("clip", "enter") \/ LoopEnds("enter", "idle")
  PROVE  IInv' /\ StillMissing' = StillMissing
<1>1. /\ pc # "idle" /\ pc' \in {"idle", "enter"} /\ (pc' = "idle" <=> pc = "enter")
      /\ (pc' = "enter" <=> pc = "clip") /\ pc \in {"clip", "enter"}
      /\ iter = Len(hole_list) + 1 /\ iter' = 1
      /\ UNCHANGED <<hole_list, packet_list, most_restricting_last>>
  BY DEF LoopEnds, InLoop
<1>2. \A i \in 1 .. Len(hole_list) : hole_list[i].last <= most_restricting_last
  BY <1>1, AtTurn DEF IInv, Clipped
<1>3. pc = "enter" => \A i \in 1 .. Len(hole_list) : hole_list[i].last < pkt.first
  BY <1>1, AtTurn DEF IInv, Passed
<1>4. pkt.first \in Nat BY <1>1, PacketOfCall DEF IInv
<1>5. ASSUME NEW b \in Int PROVE Left(b, hole_list, pc) <=> Left(b, hole_list, pc')
  <2>1. InList(b, hole_list) => b <= most_restricting_last
    BY <1>1, <1>2, AtTurn DEF InList, InHole
  <2>2. InList(b, hole_list) /\ pc = "enter" => b < pkt.first
    BY <1>1, <1>3, <1>4, AtTurn DEF InList, InHole
  <2>3. CASE pc = "clip" BY <2>3, <2>1, <1>1 DEF Left
  <2>4. CASE pc = "enter" BY <2>4, <2>2, <1>1, <1>4 DEF Left
  <2> QED BY <2>3, <2>4, <1>1
<1>6. \A i \in 1 .. Len(hole_list) : ~(i < 1) OBVIOUS
<1>7. 1 \in 1 .. Len(hole_list) + 1 BY <1>1, AtTurn
<1> QED BY <1>1, <1>2, <1>5, <1>6, <1>7, AtTurn, TurnKeeps

\* What a turn of the walk that enters the data has at hand.
LEMMA AtEnter ==
  ASSUME IpReassAssumption, IInv, Turn("enter")
  PROVE  /\ pc = "enter" /\ iter \in 1 .. Len(hole_list)
         /\ UNCHANGED <<packet_list, most_restricting_last>>
         /\ hole_list[iter].first \in Nat /\ hole_list[iter].last \in Nat
         /\ hole_list[iter].first <= hole_list[iter].last /\ hole_list[iter] \in Hole
         /\ pkt.first \in Nat /\ data_last(pkt) \in Nat /\ pkt.first <= data_last(pkt)
         /\ \A i \in 1 .. Len(hole_list) : hole_list[i].last <= most_restricting_last
         /\ \A i \in 1 .. Len(hole_list) : i < iter => hole_list[i].last < pkt.first
<1>1. pc = "enter" /\ iter \in 1 .. Len(hole_list) /\ UNCHANGED <<packet_list, most_restricting_last>>
  BY AtTurn DEF Turn, InLoop
<1>2. \A i \in 1 .. Len(hole_list) : hole_list[i].last <= most_restricting_last
  BY <1>1, AtTurn DEF IInv, Clipped
<1>3. \A i \in 1 .. Len(hole_list) : i < iter => hole_list[i].last < pkt.first
  BY <1>1, AtTurn DEF IInv, Passed
<1> QED BY <1>1, <1>2, <1>3, AtTurn, PacketOfCall DEF IInv

\* The hole is deleted: no byte of it but the data goes, and what went was the
\* rest of the data if the call returns.
LEMMA EnterDeletes ==
  ASSUME IpReassAssumption, IInv, Turn("enter"), pkt.first <= hole.first,
         data_last(pkt) >= hole.last, hole_list' = RemoveAt(hole_list, iter),
         \/ pc' = "enter" /\ iter' = iter
         \/ pc' = "idle" /\ iter' = 1 /\ data_last(pkt) = hole.last
  PROVE  IInv' /\ StillMissing' = StillMissing
<1> DEFINE t == RemoveAt(hole_list, iter)
<1>1. /\ t \in Seq(Hole) /\ Len(t) = Len(hole_list) - 1 /\ Ascend(t)
      /\ \A j \in 1 .. Len(hole_list) - 1 :
           t[j] = IF j < iter THEN hole_list[j] ELSE hole_list[j + 1]
      /\ \A b \in Int : InList(b, t) <=> InList(b, hole_list) /\ ~InHole(b, hole_list[iter])
  BY AtEnter, AtTurn, HoleDeleted
<1> HIDE DEF t
<1>2. iter' \in 1 .. Len(t) + 1 BY <1>1, AtEnter, AtTurn
<1>3. ASSUME NEW j \in 1 .. Len(t)
      PROVE  t[j].last <= most_restricting_last /\ (j < iter => t[j].last < pkt.first)
  <2>1. PICK k \in 1 .. Len(hole_list) : t[j] = hole_list[k] /\ (j < iter => k < iter)
    BY <1>1, AtEnter, AtTurn
  <2> QED BY <2>1, AtEnter
<1>4. ASSUME NEW b \in Int PROVE Left(b, hole_list, pc) <=> Left(b, t, pc')
  <2>1. InHole(b, hole_list[iter]) => pkt.first <= b /\ b <= data_last(pkt)
    BY AtEnter DEF InHole, hole
  <2>2. pc' = "idle" /\ InList(b, hole_list) /\ pkt.first <= b /\ b <= data_last(pkt)
        => InHole(b, hole_list[iter])
    BY AtEnter, AtTurn, DataInHole DEF hole
  <2> QED BY <2>1, <2>2, <1>1, AtEnter DEF Left
<1> QED BY <1>1, <1>2, <1>3, <1>4, AtEnter, TurnKeeps DEF t

\* The hole shrinks to h: of its bytes only data goes, and no data stays if
\* the call returns.
LEMMA EnterShrinks ==
  ASSUME IpReassAssumption, IInv, Turn("enter"), NEW h \in Hole,
         hole.first <= h.first, h.first <= h.last, h.last <= hole.last,
         hole_list' = [hole_list EXCEPT ![iter] = h],
         \A b \in Int : InHole(b, h) <=>
           InHole(b, hole) /\ ~(pkt.first <= b /\ b <= data_last(pkt)),
         \/ pc' = "enter" /\ iter' = iter + 1 /\ h.last < pkt.first
         \/ pc' = "idle" /\ iter' = 1 /\ data_last(pkt) <= hole.last
  PROVE  IInv' /\ StillMissing' = StillMissing
<1> DEFINE t == [hole_list EXCEPT ![iter] = h]
<1>0. hole = hole_list[iter] BY DEF hole
<1>1. /\ t \in Seq(Hole) /\ Len(t) = Len(hole_list) /\ Ascend(t)
      /\ \A j \in 1 .. Len(hole_list) : t[j] = IF j = iter THEN h ELSE hole_list[j]
      /\ \A b \in Int : InList(b, t) <=>
           (InList(b, hole_list) /\ ~InHole(b, hole_list[iter])) \/ InHole(b, h)
  BY <1>0, AtEnter, AtTurn, HoleShrunk
<1> HIDE DEF t
<1>2. iter' \in 1 .. Len(t) + 1 BY <1>1, AtEnter, AtTurn
<1>3. h.first \in Nat /\ h.last \in Nat /\ most_restricting_last \in Nat
  BY AtTurn, AtEnter DEF Hole
<1>4. ASSUME NEW j \in 1 .. Len(t)
      PROVE  t[j].last <= most_restricting_last /\ (pc' = "enter" /\ j < iter' => t[j].last < pkt.first)
  <2>1. CASE j = iter BY <2>1, <1>0, <1>1, <1>3, AtEnter, AtTurn
  <2>2. CASE j # iter
    <3>1. t[j] = hole_list[j] /\ j \in 1 .. Len(hole_list) BY <2>2, <1>1
    <3>2. pc' = "enter" /\ j < iter' => j < iter BY <2>2, <3>1, AtEnter, AtTurn
    <3> QED BY <3>1, <3>2, AtEnter
  <2> QED BY <2>1, <2>2
<1>5. ASSUME NEW b \in Int PROVE Left(b, hole_list, pc) <=> Left(b, t, pc')
  <2>1. pc' = "idle" /\ InList(b, hole_list) /\ pkt.first <= b /\ b <= data_last(pkt)
        => InHole(b, hole_list[iter])
    BY AtEnter, AtTurn, DataInHole
  <2>2. InHole(b, hole_list[iter]) => InList(b, hole_list) BY AtEnter, AtTurn DEF InList
  <2> QED BY <2>1, <2>2, <1>0, <1>1, AtEnter DEF Left
<1> QED BY <1>1, <1>2, <1>4, <1>5, AtEnter, TurnKeeps DEF t

\* The two parts of a hole around the data.
LEMMA Parts ==
  ASSUME IpReassAssumption, IInv, Turn("enter")
  PROVE  /\ hole = hole_list[iter] /\ hole \in Hole
         /\ hole.first \in Nat /\ hole.last \in Nat /\ hole.first <= hole.last
         /\ pkt.first \in Nat /\ data_last(pkt) \in Nat /\ pkt.first <= data_last(pkt)
         /\ Before.first = hole.first /\ Before.last = pkt.first - 1
         /\ After.first = data_last(pkt) + 1 /\ After.last = hole.last
         /\ After \in Hole /\ (hole.first < pkt.first => Before \in Hole)
<1>1. hole = hole_list[iter] BY DEF hole
<1>2. /\ hole \in Hole /\ hole.first \in Nat /\ hole.last \in Nat /\ hole.first <= hole.last
      /\ pkt.first \in Nat /\ data_last(pkt) \in Nat /\ pkt.first <= data_last(pkt)
  BY <1>1, AtEnter
<1>3. /\ Before = [first |-> hole.first, last |-> pkt.first - 1]
      /\ After = [first |-> data_last(pkt) + 1, last |-> hole.last]
  BY <1>2 DEF Before, After, Hole
<1>4. After \in Hole /\ (hole.first < pkt.first => Before \in Hole) BY <1>2, <1>3 DEF Hole
<1> QED BY <1>1, <1>2, <1>3, <1>4

\* The data ends where the hole ends.
LEMMA EnterSameKeeps ==
  ASSUME IpReassAssumption, IInv, EnterSame PROVE IInv' /\ StillMissing' = StillMissing
<1>1. /\ Turn("enter") /\ data_last(pkt) = hole.last /\ pc' = "idle" /\ iter' = 1
  BY DEF EnterSame, Return
<1>2. CASE Covers
  <2>1. hole_list' = RemoveAt(hole_list, iter) /\ pkt.first <= hole.first
    BY <1>2 DEF EnterSame, Covers
  <2>2. data_last(pkt) >= hole.last BY <1>1, Parts
  <2> QED BY <1>1, <2>1, <2>2, EnterDeletes
<1>3. CASE ~Covers
  <2>1. hole_list' = [hole_list EXCEPT ![iter] = Before] BY <1>3 DEF EnterSame
  <2>2. hole.first < pkt.first BY <1>1, <1>3, Parts DEF Covers
  <2>3. /\ Before \in Hole /\ hole.first <= Before.first /\ Before.first <= Before.last
        /\ Before.last <= hole.last /\ data_last(pkt) <= hole.last
    BY <1>1, <2>2, Parts
  <2>4. \A b \in Int : InHole(b, Before) <=>
          InHole(b, hole) /\ ~(pkt.first <= b /\ b <= data_last(pkt))
    BY <1>1, <2>2, Parts DEF InHole
  <2> QED BY <1>1, <2>1, <2>3, <2>4, EnterShrinks
<1> QED BY <1>2, <1>3

\* The data ends beyond the hole.
LEMMA EnterBeyondKeeps ==
  ASSUME IpReassAssumption, IInv, EnterBeyond PROVE IInv' /\ StillMissing' = StillMissing
<1>1. Turn("enter") /\ data_last(pkt) > hole.last /\ pc' = "enter"
  BY AtEnter DEF EnterBeyond, Continue
<1>2. CASE Covers
  <2>1. hole_list' = RemoveAt(hole_list, iter) /\ iter' = iter /\ pkt.first <= hole.first
    BY <1>2 DEF EnterBeyond, Delete, Covers
  <2>2. data_last(pkt) >= hole.last BY <1>1, Parts
  <2> QED BY <1>1, <2>1, <2>2, EnterDeletes
<1>3. CASE ~Covers
  <2> DEFINE h == IF hole.last > pkt.first - 1 THEN Before ELSE hole
  <2>1. hole_list' = [hole_list EXCEPT ![iter] = h] /\ iter' = iter + 1
    BY <1>3 DEF EnterBeyond, Leave
  <2>2. hole.first < pkt.first BY <1>1, <1>3, Parts DEF Covers
  <2>3. /\ h \in Hole /\ hole.first <= h.first /\ h.first <= h.last
        /\ h.last <= hole.last /\ h.last < pkt.first
    BY <1>1, <2>2, Parts
  <2>4. \A b \in Int : InHole(b, h) <=>
          InHole(b, hole) /\ ~(pkt.first <= b /\ b <= data_last(pkt))
    BY <1>1, <2>2, Parts DEF InHole
  <2> HIDE DEF h
  <2> QED BY <1>1, <2>1, <2>3, <2>4, EnterShrinks
<1> QED BY <1>2, <1>3

\* The data ends inside the hole.
LEMMA EnterBeforeKeeps ==
  ASSUME IpReassAssumption, IInv, EnterBefore PROVE IInv' /\ StillMissing' = StillMissing
<1>1. Turn("enter") /\ data_last(pkt) < hole.last /\ pc' = "idle" /\ iter' = 1
  BY DEF EnterBefore, Return
<1>2. CASE Covers
  <2> DEFINE h == IF data_last(pkt) + 1 > hole.first THEN After ELSE hole
  <2>1. hole_list' = [hole_list EXCEPT ![iter] = h]
    BY <1>1, <1>2, Parts, AtTurn, AtEnter DEF EnterBefore, hole
  <2>2. pkt.first <= hole.first BY <1>2 DEF Covers
  <2>3. /\ h \in Hole /\ hole.first <= h.first /\ h.first <= h.last
        /\ h.last <= hole.last /\ data_last(pkt) <= hole.last
    BY <1>1, <2>2, Parts
  <2>4. \A b \in Int : InHole(b, h) <=>
          InHole(b, hole) /\ ~(pkt.first <= b /\ b <= data_last(pkt))
    BY <1>1, <2>2, Parts DEF InHole
  <2> HIDE DEF h
  <2> QED BY <1>1, <2>1, <2>3, <2>4, EnterShrinks
<1>3. CASE ~Covers
  <2> DEFINE g == Before
             h == After
             t == InsertAt([hole_list EXCEPT ![iter] = h], iter, g)
  <2>1. hole_list' = t BY <1>3 DEF EnterBefore
  <2>2. hole.first < pkt.first BY <1>1, <1>3, Parts DEF Covers
  <2>3. /\ h \in Hole /\ g \in Hole /\ hole_list[iter].first <= g.first
        /\ g.first <= g.last /\ g.last < h.first /\ h.first <= h.last
        /\ h.last <= hole_list[iter].last
    BY <1>1, <2>2, Parts
  <2>8. hole_list \in Seq(Hole) /\ iter \in 1 .. Len(hole_list) /\ Ascend(hole_list)
    BY <1>1, AtEnter, AtTurn
  <2> HIDE DEF g, h
  <2>4. /\ t \in Seq(Hole) /\ Len(t) = Len(hole_list) + 1 /\ Ascend(t)
        /\ \A j \in 1 .. Len(hole_list) + 1 : t[j] =
             IF j < iter THEN hole_list[j] ELSE IF j = iter THEN g
             ELSE IF j = iter + 1 THEN h ELSE hole_list[j - 1]
        /\ \A b \in Int : InList(b, t) <=>
             (InList(b, hole_list) /\ ~InHole(b, hole_list[iter])) \/ InHole(b, g) \/ InHole(b, h)
    BY <2>8, <2>3, HoleSplit
  <2> HIDE DEF t
  <2>5. ASSUME NEW j \in 1 .. Len(t) PROVE t[j].last <= most_restricting_last
    <3>1. /\ g.last <= most_restricting_last /\ h.last <= most_restricting_last
      BY <1>1, <2>2, Parts, AtEnter, AtTurn DEF g, h
    <3>2. \/ t[j] = g \/ t[j] = h \/ \E k \in 1 .. Len(hole_list) : t[j] = hole_list[k]
      <4>1. CASE j < iter
        <5>1. j \in 1 .. Len(hole_list) /\ t[j] = hole_list[j] BY <4>1, <2>8, <2>4
        <5> QED BY <5>1
      <4>2. CASE j = iter \/ j = iter + 1 BY <4>2, <2>8, <2>4
      <4>3. CASE j > iter + 1
        <5>1. j - 1 \in 1 .. Len(hole_list) /\ t[j] = hole_list[j - 1] BY <4>3, <2>8, <2>4
        <5> QED BY <5>1
      <4> QED BY <4>1, <4>2, <4>3, <2>8, <2>4
    <3> QED BY <1>1, <3>1, <3>2, AtEnter
  <2>6. ASSUME NEW b \in Int PROVE Left(b, hole_list, pc) <=> Left(b, t, pc')
    <3>1. InHole(b, g) \/ InHole(b, h)
          <=> InHole(b, hole) /\ ~(pkt.first <= b /\ b <= data_last(pkt))
      BY <1>1, <2>2, Parts DEF InHole, g, h
    <3>2. data_last(pkt) <= hole.last BY <1>1, Parts
    <3>3. InList(b, hole_list) /\ pkt.first <= b /\ b <= data_last(pkt)
          => InHole(b, hole_list[iter])
      BY <1>1, <3>2, AtEnter, AtTurn, DataInHole
    <3>4. InHole(b, hole_list[iter]) => InList(b, hole_list) BY <1>1, AtEnter, AtTurn DEF InList
    <3> QED BY <1>1, <2>4, <3>1, <3>3, <3>4, Parts, AtEnter DEF Left
  <2>7. iter' \in 1 .. Len(t) + 1 BY <1>1, <2>4, AtTurn
  <2> QED BY <1>1, <2>1, <2>4, <2>5, <2>6, <2>7, AtEnter, TurnKeeps
<1> QED BY <1>2, <1>3

-----------------------------------------------------------------------------
(* The calls.                                                              *)

\* One hole from the first byte to the last.
LEMMA WholeHole ==
  ASSUME IpReassAssumption
  PROVE  LET s == << [first |-> 0, last |-> Top] >>
         IN  /\ s \in Seq(Hole) /\ Len(s) = 1 /\ Ascend(s) /\ s[1] = [first |-> 0, last |-> Top]
             /\ \A b \in Int : InList(b, s) <=> b \in 0 .. Top
<1> DEFINE h == [first |-> 0, last |-> Top]
           s == << h >>
<1>1. h \in Hole /\ h.first = 0 /\ h.last = Top /\ Top \in Nat BY DEF Hole, IpReassAssumption
<1> HIDE DEF h
<1>2. s \in Seq(Hole) /\ Len(s) = 1 /\ DOMAIN s = 1 .. 1 /\ s[1] = h BY <1>1
<1> HIDE DEF s
<1>3. Ascend(s) BY <1>1, <1>2 DEF Ascend
<1>4. \A b \in Int : InList(b, s) <=> b \in 0 .. Top BY <1>1, <1>2 DEF InList, InHole
<1> QED BY <1>2, <1>3, <1>4 DEF s, h

\* The initial context.
LEMMA InitKeeps ==
  ASSUME IpReassAssumption, reassctx_init
  PROVE  IInv /\ StillMissing = 0 .. Top
<1> DEFINE s == << [first |-> 0, last |-> Top] >>
<1>1. /\ hole_list = s /\ packet_list = << >> /\ most_restricting_last = Top
      /\ pc = "idle" /\ iter = 1
  BY DEF reassctx_init
<1>2. /\ s \in Seq(Hole) /\ Len(s) = 1 /\ Ascend(s) /\ s[1] = [first |-> 0, last |-> Top]
      /\ \A b \in Int : InList(b, s) <=> b \in 0 .. Top
  BY WholeHole
<1> HIDE DEF s
<1>3. Top \in Nat BY DEF IpReassAssumption
<1>4. \A b : b \in Missing <=> b \in Int /\ InList(b, s) BY <1>1, <1>2, ListDef
<1>5. \A b : b \in Missing <=> b \in 0 .. Top BY <1>2, <1>3, <1>4
<1>6. StillMissing = 0 .. Top BY <1>1, <1>5 DEF StillMissing, Entering
<1>7. Covered BY <1>1, <1>5 DEF Covered
<1>8. TypeOK BY <1>1, <1>2, <1>3 DEF TypeOK
<1>9. HolesAscend BY <1>1, <1>2, ListDef
<1>10. DOMAIN s = 1 .. 1 BY <1>2
<1>11. Clipped BY <1>1, <1>2, <1>3, <1>10 DEF Clipped
<1> QED BY <1>1, <1>6, <1>7, <1>8, <1>9, <1>11 DEF IInv, Calling, Passed

\* reassctx_free leaves such a context.
LEMMA FreeKeeps ==
  ASSUME IpReassAssumption, IInv, reassctx_free
  PROVE  IInv' /\ StillMissing' = 0 .. Top
<1> DEFINE s == << [first |-> 0, last |-> Top] >>
<1>1. /\ hole_list' = s /\ packet_list' = << >> /\ most_restricting_last' = Top
      /\ pc' = "idle" /\ iter' = 1
  BY DEF reassctx_free, IInv, TypeOK
<1>2. /\ s \in Seq(Hole) /\ Len(s) = 1 /\ Ascend(s) /\ s[1] = [first |-> 0, last |-> Top]
      /\ \A b \in Int : InList(b, s) <=> b \in 0 .. Top
  BY WholeHole
<1> HIDE DEF s
<1>3. Top \in Nat BY DEF IpReassAssumption
<1>4. \A b : b \in Missing' <=> b \in Int /\ InList(b, s) BY <1>1, <1>2, NextListDef
<1>5. \A b : b \in Missing' <=> b \in 0 .. Top BY <1>2, <1>3, <1>4
<1>6. StillMissing' = 0 .. Top BY <1>1, <1>5 DEF StillMissing, Entering
<1>7. Covered' BY <1>1, <1>5 DEF Covered
<1>8. TypeOK' BY <1>1, <1>2, <1>3 DEF TypeOK
<1>9. HolesAscend' BY <1>1, <1>2, NextListDef
<1>10. DOMAIN s = 1 .. 1 BY <1>2
<1>11. Clipped' BY <1>1, <1>2, <1>3, <1>10 DEF Clipped
<1> QED BY <1>1, <1>6, <1>7, <1>8, <1>9, <1>11 DEF IInv, Calling, Passed

\* reassctx_add: the packet joins its list; of the missing bytes, those go that
\* are past the end or that the packet has brought.
LEMMA AddKeeps ==
  ASSUME IpReassAssumption, IInv, NEW f \in Input, reassctx_add(f)
  PROVE  /\ IInv'
         /\ packet_list' # << >> /\ pkt' = f
         /\ ~Usable(f) => StillMissing' = StillMissing /\ UNCHANGED most_restricting_last
         /\ Usable(f) =>
              /\ most_restricting_last' = IF ~f.more /\ most_restricting_last > data_last(f)
                                            THEN data_last(f) ELSE most_restricting_last
              /\ StillMissing' = {b \in StillMissing : b <= most_restricting_last'}
                                   \ f.first .. data_last(f)
<1> DEFINE L == most_restricting_last
           n == Len(packet_list)
<1>1. /\ hole_list \in Seq(Hole) /\ L \in 0 .. Top /\ Top \in Nat /\ pc = "idle" /\ iter = 1
      /\ packet_list \in Seq(Input) /\ packet_list' = Append(packet_list, f)
      /\ UNCHANGED <<hole_list, iter>>
  BY DEF IInv, TypeOK, reassctx_add, IpReassAssumption
<1>2. /\ packet_list' \in Seq(Input) /\ Len(packet_list') = n + 1 /\ n \in Nat
      /\ packet_list'[n + 1] = f /\ \A k \in 1 .. n : packet_list'[k] = packet_list[k]
      /\ DOMAIN packet_list = 1 .. n /\ DOMAIN packet_list' = 1 .. n + 1
  BY <1>1
<1>3. packet_list' # << >> /\ pkt' = f BY <1>2 DEF pkt, Last
<1>4. /\ f.first \in 0 .. Top /\ f.len \in 0 .. Top + 1 /\ f.more \in BOOLEAN /\ data_last(f) \in Int
      /\ Usable(f) => f.first <= data_last(f) /\ data_last(f) <= Top
  BY FragmentNumbers
<1>5. /\ ~Usable(f) => pc' = "idle" /\ UNCHANGED most_restricting_last
      /\ Usable(f) =>
           /\ most_restricting_last' = IF ~f.more /\ L > data_last(f) THEN data_last(f) ELSE L
           /\ pc' = IF ~f.more /\ L > data_last(f) THEN "clip" ELSE "enter"
  BY <1>1 DEF reassctx_add
<1>6. most_restricting_last' \in 0 .. Top /\ most_restricting_last' <= L BY <1>1, <1>4, <1>5
<1>7. /\ pc' \in {"idle", "clip", "enter"} /\ (pc' # "idle" <=> Usable(f))
      /\ (pc' # "clip" => most_restricting_last' = L)
  BY <1>5
<1>8. Missing' = Missing BY <1>1 DEF Missing
<1>9. \A b \in Missing : b \in Int /\ b <= L
  <2>1. \A i \in 1 .. Len(hole_list) : hole_list[i].last <= L BY <1>1 DEF IInv, Clipped
  <2>2. \A i \in DOMAIN hole_list : i \in 1 .. Len(hole_list) /\ hole_list[i].last \in Int
                                  /\ hole_list[i].first \in Int
    BY <1>1, HoleBounds
  <2> QED BY <1>1, <2>1, <2>2, ListDef DEF InList, InHole
<1>10. StillMissing = Missing BY <1>1 DEF StillMissing, Entering
<1>11. StillMissing' = {b \in Missing : pc' = "clip" => b <= most_restricting_last'}
                        \ (IF pc' = "idle" THEN {} ELSE f.first .. data_last(f))
  BY <1>3, <1>8 DEF StillMissing, Entering, data_last
<1>12. Usable(f) => StillMissing' = {b \in StillMissing : b <= most_restricting_last'}
                                     \ f.first .. data_last(f)
  BY <1>7, <1>9, <1>10, <1>11
<1>13. ~Usable(f) => StillMissing' = StillMissing BY <1>7, <1>10, <1>11
<1>14. TypeOK' BY <1>1, <1>2, <1>6, <1>7 DEF TypeOK, IInv
<1>15. Calling' BY <1>3, <1>7 DEF Calling, Usable, data_last
<1>16. HolesAscend' BY <1>1, ListDef, NextListDef DEF IInv
<1>17. DOMAIN hole_list = 1 .. Len(hole_list) BY <1>1
<1>18. Clipped'
  <2> SUFFICES ASSUME NEW i \in 1 .. Len(hole_list), pc' = "clip" => i < 1
               PROVE  hole_list[i].last <= most_restricting_last'
    BY <1>1, <1>17 DEF Clipped
  <2>1. pc' # "clip" OBVIOUS
  <2> QED BY <2>1, <1>1, <1>7, <1>17 DEF IInv, Clipped
<1>19. Passed' BY <1>1, <1>17 DEF Passed
<1>20. Covered'
  <2> SUFFICES ASSUME NEW b \in 0 .. most_restricting_last' PROVE b \in Missing \/ Supplied(b)'
    BY <1>8 DEF Covered
  <2>1. b \in 0 .. L BY <1>1, <1>6
  <2>2. Supplied(b) => Supplied(b)' BY <1>2 DEF Supplied, Usable, data_last
  <2> QED BY <2>1, <2>2 DEF IInv, Covered
<1> QED BY <1>3, <1>5, <1>12, <1>13, <1>14, <1>15, <1>16, <1>18, <1>19, <1>20 DEF IInv

\* A turn of a walk.
LEMMA StepKeeps ==
  ASSUME IpReassAssumption, IInv, Step PROVE IInv' /\ StillMissing' = StillMissing
BY ClipDeleteKeeps, ClipCutKeeps, LoopEndsKeeps, EnterSameKeeps, EnterBeforeKeeps, EnterBeyondKeeps
   DEF Step, Clip, Enter

\* The invariant is inductive.
LEMMA HoleListInvariant == ASSUME IpReassAssumption PROVE Spec => []IInv
<1>1. reassctx_init => IInv BY InitKeeps
<1>2. IInv /\ [Next]_vars => IInv'
  <2> SUFFICES ASSUME IInv, [Next]_vars PROVE IInv' OBVIOUS
  <2>1. CASE reassctx_free BY <2>1, FreeKeeps
  <2>2. CASE Step BY <2>2, StepKeeps
  <2>3. CASE \E f \in Input : reassctx_add(f) BY <2>3, AddKeeps
  <2>4. CASE UNCHANGED vars
    BY <2>4 DEF vars, IInv, TypeOK, Calling, HolesAscend, Clipped, Passed, Covered, Supplied,
                Missing, pkt, Usable, data_last
  <2> QED BY <2>1, <2>2, <2>3, <2>4 DEF Next
<1> QED BY <1>1, <1>2, PTL DEF Spec

-----------------------------------------------------------------------------
(* The results.                                                            *)

\* What reassctx_reassemble copies of a packet that does not start past the end:
\* its data up to the end; the length does not wrap.
LEMMA CopyOfPacket ==
  ASSUME IpReassAssumption, NEW f \in Input, most_restricting_last \in 0 .. Top,
         f.first <= most_restricting_last
  PROVE  \A b : b \in Copied(f) <=>
                b \in Int /\ f.first <= b /\ b <= data_last(f) /\ b <= most_restricting_last
<1> DEFINE L == most_restricting_last
<1>1. /\ f.first \in Nat /\ f.len \in Nat /\ data_last(f) \in Int /\ Top \in Nat
      /\ data_last(f) = f.first + f.len - 1
  BY FragmentNumbers
<1>2. L \in Nat /\ L <= Top BY <1>1
<1> HIDE DEF L
<1>3. (1 + L - f.first) % (4 * (Top + 1)) = 1 + L - f.first
  <2> DEFINE a == 1 + L - f.first
             m == 4 * (Top + 1)
  <2>1. a \in Nat /\ m \in Nat \ {0} /\ a < m BY <1>1, <1>2 DEF L
  <2> HIDE DEF a, m
  <2>2. a % m = a BY <2>1
  <2> QED BY <2>2 DEF a, m
<1>4. CASE data_last(f) > L
  <2>1. CopyLength(f) = 1 + L - f.first BY <1>3, <1>4 DEF CopyLength, UIntRange, L
  <2>2. f.first + CopyLength(f) - 1 = L BY <2>1, <1>1, <1>2
  <2> QED BY <2>2, <1>1, <1>2, <1>4 DEF Copied, L
<1>5. CASE ~(data_last(f) > L)
  <2>1. CopyLength(f) = f.len BY <1>5 DEF CopyLength, L
  <2>2. f.first + CopyLength(f) - 1 = data_last(f) BY <2>1, <1>1
  <2> QED BY <2>2, <1>1, <1>2, <1>5 DEF Copied, L
<1> QED BY <1>4, <1>5

\* The holes ascend, also in the middle of a walk, and if no packet starts past
\* the end of a complete datagram reassctx_reassemble writes every byte of it
\* and none past its end.
THEOREM CopiesFillDatagram == ASSUME IpReassAssumption PROVE Spec => []CopiesFill
<1>1. IInv => CopiesFill
  <2> SUFFICES ASSUME IInv PROVE CopiesFill OBVIOUS
  <2> DEFINE L == most_restricting_last
  <2>1. HolesAscend BY DEF IInv
  <2>2. ASSUME reassctx_complete, \A f \in Range(packet_list) : f.first <= L
        PROVE  Assembled
    <3>1. packet_list \in Seq(Input) /\ L \in 0 .. Top /\ Top \in Nat
      BY DEF IInv, TypeOK, IpReassAssumption
    <3>2. ASSUME NEW f \in Range(packet_list)
          PROVE  f \in Input /\ f.first \in Nat
                 /\ \A b : b \in Copied(f) <=> b \in Int /\ f.first <= b /\ b <= data_last(f) /\ b <= L
      <4>1. f \in Input BY <3>1, <3>2 DEF Range
      <4>2. f.first \in Nat BY <4>1, <3>1, FragmentNumbers
      <4> QED BY <4>1, <4>2, <3>1, <2>2, CopyOfPacket
    <3>3. ASSUME NEW f \in Range(packet_list), NEW b \in Copied(f) PROVE b \in 0 .. L
      BY <3>1, <3>2
    <3>4. ASSUME NEW b \in 0 .. L PROVE \E f \in Range(packet_list) : b \in Copied(f)
      <4>1. b \notin Missing
        <5>1. Range(hole_list) = {} BY <2>2 DEF reassctx_complete, Range
        <5> QED BY <5>1 DEF Missing
      <4>2. Supplied(b) BY <4>1 DEF IInv, Covered
      <4>3. PICK k \in DOMAIN packet_list :
              Usable(packet_list[k]) /\ b \in packet_list[k].first .. data_last(packet_list[k])
        BY <4>2 DEF Supplied
      <4>4. packet_list[k] \in Range(packet_list) BY DEF Range
      <4>5. packet_list[k].first \in Nat /\ data_last(packet_list[k]) \in Int
        BY <3>2, <4>4, FragmentNumbers
      <4>6. b \in Int /\ packet_list[k].first <= b /\ b <= data_last(packet_list[k]) /\ b <= L
        BY <3>1, <4>3, <4>5
      <4> QED BY <3>2, <4>4, <4>6
    <3> QED BY <3>3, <3>4 DEF Assembled
  <2> QED BY <2>1, <2>2 DEF CopiesFill
<1> QED BY <1>1, HoleListInvariant, PTL

\* The list of holes implements Reassembly: when the walks of a call are over
\* it holds exactly the missing bytes, whatever the order and the overlap of the
\* fragments and however often the end is lowered.
THEOREM HoleListImplements == ASSUME IpReassAssumption PROVE Spec => IpReassImplements
<1> DEFINE frag == IF packet_list = << >> THEN [first |-> 0, len |-> 0, more |-> FALSE] ELSE pkt
<1>1. reassctx_init => Abstract!Init
  BY InitKeeps DEF reassctx_init, Abstract!Init, Abstract!NoFragment
<1>2. IInv /\ [Next]_vars => [Abstract!Next]_(Abstract!vars)
  <2> SUFFICES ASSUME IInv, [Next]_vars PROVE [Abstract!Next]_(Abstract!vars) OBVIOUS
  <2>1. CASE reassctx_free
    <3>1. StillMissing' = 0 .. Top /\ packet_list' = << >> /\ most_restricting_last' = Top
      BY <2>1, FreeKeeps DEF reassctx_free
    <3> QED BY <3>1 DEF Abstract!Next, Abstract!Restart, Abstract!NoFragment
  <2>2. CASE Step
    <3>1. StillMissing' = StillMissing BY <2>2, StepKeeps
    <3>2. UNCHANGED <<packet_list, most_restricting_last>>
      BY <2>2 DEF Step, Clip, Enter, ClipDelete, ClipCut, LoopEnds, EnterSame, EnterBefore,
                  EnterBeyond, Turn, InLoop
    <3>3. pkt' = pkt BY <3>2 DEF pkt
    <3> QED BY <3>1, <3>2, <3>3 DEF Abstract!vars
  <2>3. CASE \E f \in Input : reassctx_add(f)
    <3>1. PICK f \in Input : reassctx_add(f) BY <2>3
    <3>2. f \in Abstract!Fragment BY DEF IpReassAssumption, Abstract!Fragment
    <3>3. frag' = f BY <3>1, AddKeeps
    <3> HIDE DEF frag
    <3>4. Abstract!data_last(f) = data_last(f) /\ (Abstract!Usable(f) <=> Usable(f))
      BY DEF Abstract!data_last, data_last, Abstract!Usable, Usable
    <3>5. CASE Usable(f)
      <4>1. /\ most_restricting_last' = Abstract!Lower(f)
            /\ StillMissing' = {b \in StillMissing : b <= most_restricting_last'}
                                 \ f.first .. data_last(f)
        BY <3>1, <3>4, <3>5, AddKeeps DEF Abstract!Lower
      <4>2. Abstract!Arrive(f) BY <3>3, <3>4, <3>5, <4>1 DEF Abstract!Arrive, frag
      <4> QED BY <3>2, <4>2 DEF Abstract!Next
    <3>6. CASE ~Usable(f)
      <4>1. StillMissing' = StillMissing /\ UNCHANGED most_restricting_last
        BY <3>1, <3>6, AddKeeps
      <4>2. Abstract!Ignore(f) BY <3>3, <3>4, <3>6, <4>1 DEF Abstract!Ignore, frag
      <4> QED BY <3>2, <4>2 DEF Abstract!Next
    <3> QED BY <3>5, <3>6
  <2>4. CASE UNCHANGED vars
    BY <2>4 DEF vars, Abstract!vars, StillMissing, Missing, Entering, pkt, data_last
  <2> QED BY <2>1, <2>2, <2>3, <2>4 DEF Next
<1> QED BY <1>1, <1>2, HoleListInvariant, PTL DEF Spec, IpReassImplements, Abstract!Spec
=============================================================================
