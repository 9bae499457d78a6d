-------------------------- MODULE ReassemblyProofs --------------------------
(***************************************************************************)
(* Proofs that reassembly is right, for every size of a datagram and every *)
(* set of fragments or segments.  With a tree of holes (RbExplicit),       *)
(* whichever of several overlapping holes the search meets first, the      *)
(* holes never overlap, they are the missing bytes, the packets that are   *)
(* kept can supply the others, and with the ipv6 flag exactly the          *)
(* fragments that overlap are refused.  With a bitmap (Rfc791), whatever   *)
(* the size of a word.  With a tree of TCP segments (TcpReass), wherever   *)
(* the sequence numbers wrap.                                              *)
(***************************************************************************)
EXTENDS RbExplicit, TcpReass, TLAPS

\* The bitmap; the other constants and variables of Rfc791 are those of RbExplicit.
CONSTANT WordBits
VARIABLES bits, got, plain

Bitmap == INSTANCE Rfc791

\* Holes, as the tree holds them.
Hole == [first : 0 .. Top, last : 0 .. Top]

\* The types.
TypeOK ==
  /\ hole_tree \subseteq Hole
  /\ most_restricting_last \in 0 .. Top
  /\ pc \in {"idle", "search", "found"}
  /\ frag \in [first : 0 .. Top, len : 0 .. Top + 1, more : BOOLEAN]
  /\ mod \in BOOLEAN /\ overlap \in BOOLEAN

\* The holes are not empty and lie before the end.
Within(tree, last) == \A h \in tree : h.first <= h.last /\ h.last <= last
\* Between two holes there is at least one byte.
Apart(tree) == \A g, h \in tree : g # h => g.last + 1 < h.first \/ h.last + 1 < g.first

\* During a search the fragment has passed the tests of its length.
Searching == pc = "search" => Usable(frag) /\ ~overlap

\* Of the fragment at hand the search has entered what it could.
Entered == pc # "idle" /\ mod /\ ~overlap /\ (Ipv6 => pc = "found")

\* Every byte is missing, in a packet that was kept, or in the fragment at
\* hand.
Covered == \A b \in 0 .. most_restricting_last :
  b \in Missing \/ b \in kept \/ (Entered /\ b \in Data)

\* The holes are in order.
TreeInv == Within(hole_tree, most_restricting_last) /\ Apart(hole_tree)

\* The inductive invariant.
IInv == TypeOK /\ TreeInv /\ Searching /\ Covered

-----------------------------------------------------------------------------
\* A byte is missing if it is in a hole.
LEMMA MissingDef ==
  /\ \A b : b \in Missing <=> \E h \in hole_tree : b \in h.first .. h.last
  /\ \A b : b \in Missing' <=> \E h \in hole_tree' : b \in h.first .. h.last
BY DEF Missing, Bytes

\* repair_most_restricting: after a fragment that says where the datagram ends,
\* the holes stay apart and are the missing bytes up to the end.
LEMMA RepairTree ==
  ASSUME TypeOK, TreeInv, NEW last \in 0 .. Top, last < most_restricting_last,
         hole_tree' = repair_most_restricting(last)
  PROVE  /\ hole_tree' \subseteq Hole
         /\ Within(hole_tree', last) /\ Apart(hole_tree')
         /\ Missing' = {b \in Missing : b <= last}
<1> DEFINE cut(h) == [h EXCEPT !.last = IF @ > last THEN last ELSE @]
<1>1. ASSUME NEW h \in hole_tree, h.first <= last
      PROVE  /\ cut(h) \in Hole /\ cut(h).first = h.first
             /\ cut(h).last = IF h.last > last THEN last ELSE h.last
             /\ h.first \in Int /\ h.last \in Int /\ h.first <= h.last
             /\ cut(h) \in hole_tree'
  BY <1>1 DEF TypeOK, Hole, TreeInv, Within, repair_most_restricting
<1>2. ASSUME NEW g \in hole_tree'
      PROVE  \E h \in hole_tree : h.first <= last /\ g = cut(h)
  BY <1>2 DEF repair_most_restricting
<1> HIDE DEF cut
<1>3. hole_tree' \subseteq Hole BY <1>1, <1>2
<1>4. Within(hole_tree', last) BY <1>1, <1>2 DEF Within
<1>5. Apart(hole_tree')
  <2> SUFFICES ASSUME NEW g \in hole_tree', NEW h \in hole_tree', g # h
               PROVE  g.last + 1 < h.first \/ h.last + 1 < g.first
    BY DEF Apart
  <2>1. PICK g0 \in hole_tree : g0.first <= last /\ g = cut(g0) BY <1>2
  <2>2. PICK h0 \in hole_tree : h0.first <= last /\ h = cut(h0) BY <1>2
  <2>3. g0.last + 1 < h0.first \/ h0.last + 1 < g0.first
    BY <2>1, <2>2 DEF TreeInv, Apart
  <2> QED BY <2>1, <2>2, <2>3, <1>1
<1>6. Missing' = {b \in Missing : b <= last}
  <2>1. ASSUME NEW b \in Missing' PROVE b \in Missing /\ b <= last
    <3>1. PICK g \in hole_tree' : b \in g.first .. g.last BY MissingDef
    <3>2. PICK h \in hole_tree : h.first <= last /\ g = cut(h) BY <1>2
    <3>3. b \in h.first .. h.last /\ b <= last BY <1>1, <3>1, <3>2
    <3> QED BY <3>3, MissingDef
  <2>2. ASSUME NEW b \in Missing, b <= last PROVE b \in Missing'
    <3>1. PICK h \in hole_tree : b \in h.first .. h.last BY MissingDef
    <3>2. h.first <= last /\ cut(h) \in hole_tree' /\ b \in cut(h).first .. cut(h).last
      BY <1>1, <2>2, <3>1 DEF TypeOK, Hole
    <3> QED BY <3>2, MissingDef
  <2> QED BY <2>1, <2>2
<1> QED BY <1>3, <1>4, <1>5, <1>6

\* What Split, Delete, TrimLast and TrimFirst share.
Cuts(h, new) ==
  /\ new \subseteq Hole /\ Apart(new)
  /\ \A n \in new : h.first <= n.first /\ n.first <= n.last /\ n.last <= h.last
  /\ \A b \in Int : (\E n \in new : b \in n.first .. n.last) <=> b \in h.first .. h.last /\ b \notin Data

\* Replacing a hole by what the data leaves of it keeps the holes apart and
\* takes just the data out of the missing bytes.
LEMMA CutTree ==
  ASSUME TypeOK, TreeInv, NEW h \in hole_tree, NEW new, Cuts(h, new),
         hole_tree' = (hole_tree \ {h}) \cup new
  PROVE  /\ hole_tree' \subseteq Hole
         /\ Within(hole_tree', most_restricting_last) /\ Apart(hole_tree')
         /\ Missing' = Missing \ (Bytes(h) \cap Data)
<1>1. \A g \in hole_tree :
        /\ g.first \in Int /\ g.last \in Int /\ g.first <= g.last
        /\ g.last <= most_restricting_last
  BY DEF TypeOK, Hole, TreeInv, Within
<1>2. \A g \in new :
        /\ g.first \in Int /\ g.last \in Int /\ h.first <= g.first
        /\ g.first <= g.last /\ g.last <= h.last
  BY DEF Cuts, Hole
<1>3. hole_tree' \subseteq Hole /\ Within(hole_tree', most_restricting_last)
  BY <1>1, <1>2 DEF Cuts, TypeOK, Within
<1>4. Apart(hole_tree')
  BY <1>1, <1>2 DEF Cuts, TreeInv, Apart
<1>5. ASSUME NEW b \in Missing' PROVE b \in Missing /\ b \notin Bytes(h) \cap Data
  <2>1. PICK g \in hole_tree' : b \in g.first .. g.last BY MissingDef
  <2>2. CASE g \in new
    <3>1. b \in h.first .. h.last /\ b \notin Data BY <2>1, <2>2, <1>2 DEF Cuts
    <3> QED BY <3>1, MissingDef
  <2>3. CASE g \in hole_tree \ {h}
    <3>1. b \notin Bytes(h) BY <2>1, <2>3, <1>1 DEF TreeInv, Apart, Bytes
    <3> QED BY <2>1, <2>3, <3>1, MissingDef
  <2> QED BY <2>2, <2>3
<1>6. ASSUME NEW b \in Missing, b \notin Bytes(h) \cap Data PROVE b \in Missing'
  <2>1. PICK g \in hole_tree : b \in g.first .. g.last BY MissingDef
  <2>2. CASE g = h
    <3>1. \E n \in new : b \in n.first .. n.last
      BY <1>6, <2>1, <2>2, <1>1 DEF Cuts, Bytes
    <3> QED BY <3>1, MissingDef
  <2>3. CASE g # h BY <2>1, <2>3, MissingDef
  <2> QED BY <2>2, <2>3
<1> QED BY <1>3, <1>4, <1>5, <1>6

\* The four ways.
LEMMA ChangeCuts ==
  ASSUME RbExplicitAssumption, TypeOK, TreeInv, Searching, NEW h \in hole_tree,
         Split(h) \/ Delete(h) \/ TrimLast(h) \/ TrimFirst(h)
  PROVE  \E new : Cuts(h, new) /\ hole_tree' = (hole_tree \ {h}) \cup new
<1>0. /\ h \in Hole /\ h.first \in 0 .. Top /\ h.last \in 0 .. Top /\ h.first <= h.last
      /\ data_first \in 0 .. Top /\ data_last \in 0 .. Top /\ data_first <= data_last
      /\ Data = data_first .. data_last
      /\ h.last >= data_first /\ h.first <= data_last
  BY DEF TypeOK, TreeInv, Within, Hole, Searching, Usable, data_first, data_last, Data, Split,
     Delete, TrimLast, TrimFirst,
     Change, Search, Overlaps
<1> DEFINE before == [h EXCEPT !.last = data_first - 1]
           after == [h EXCEPT !.first = data_last + 1]
<1>1. CASE Split(h)
  <2>1. /\ h.last > data_last /\ h.first < data_first
        /\ hole_tree' = (hole_tree \ {h}) \cup {before, after}
    BY <1>1 DEF Split, Change
  <2>2. /\ before \in Hole /\ before.first = h.first /\ before.last = data_first - 1
        /\ after \in Hole /\ after.first = data_last + 1 /\ after.last = h.last
    BY <1>0, <2>1 DEF Hole, RbExplicitAssumption
  <2> HIDE DEF before, after
  <2>3. Cuts(h, {before, after})
    BY <1>0, <2>1, <2>2 DEF Cuts, Apart
  <2> QED BY <2>1, <2>3
<1>2. CASE Delete(h)
  <2>1. h.last <= data_last /\ h.first >= data_first /\ hole_tree' = (hole_tree \ {h}) \cup {}
    BY <1>2 DEF Delete, Change
  <2>2. Cuts(h, {}) BY <1>0, <2>1 DEF Cuts, Apart
  <2> QED BY <2>1, <2>2
<1>3. CASE TrimLast(h)
  <2>1. h.last <= data_last /\ h.first < data_first /\ hole_tree' = (hole_tree \ {h}) \cup {before}
    BY <1>3 DEF TrimLast, Change
  <2>2. before \in Hole /\ before.first = h.first /\ before.last = data_first - 1
    BY <1>0, <2>1 DEF Hole, RbExplicitAssumption
  <2> HIDE DEF before, after
  <2>3. Cuts(h, {before}) BY <1>0, <2>1, <2>2 DEF Cuts, Apart
  <2> QED BY <2>1, <2>3
<1>4. CASE TrimFirst(h)
  <2>1. h.last > data_last /\ h.first >= data_first /\ hole_tree' = (hole_tree \ {h}) \cup {after}
    BY <1>4 DEF TrimFirst, Change
  <2>2. after \in Hole /\ after.first = data_last + 1 /\ after.last = h.last
    BY <1>0, <2>1 DEF Hole, RbExplicitAssumption
  <2> HIDE DEF before, after
  <2>3. Cuts(h, {after}) BY <1>0, <2>1, <2>2 DEF Cuts, Apart
  <2> QED BY <2>1, <2>3
<1> QED BY <1>1, <1>2, <1>3, <1>4

-----------------------------------------------------------------------------
\* A new context has one hole, the whole datagram.
LEMMA InitialType ==
  ASSUME RbExplicitAssumption
  PROVE  /\ Initial \subseteq Hole
         /\ NoFragment \in [first : 0 .. Top, len : 0 .. Top + 1, more : BOOLEAN]
         /\ Top \in 0 .. Top
<1>1. Initial \subseteq Hole BY DEF Initial, Hole, RbExplicitAssumption
<1>2. 0 \in 0 .. Top /\ 0 \in 0 .. Top + 1 BY DEF RbExplicitAssumption
<1>3. NoFragment \in [first : 0 .. Top, len : 0 .. Top + 1, more : BOOLEAN]
  BY <1>2, Zenon DEF NoFragment
<1> QED BY <1>1, <1>3 DEF RbExplicitAssumption

\* rb_explicit_reassctx_init: everything is missing.
LEMMA InitInv ==
  ASSUME RbExplicitAssumption, rb_explicit_reassctx_init
  PROVE  IInv
<1> USE DEF rb_explicit_reassctx_init, RbExplicitAssumption
<1>1. TypeOK BY InitialType, Zenon DEF TypeOK
<1>2. TreeInv BY DEF TreeInv, Within, Apart, Initial
<1>3. Covered BY MissingDef DEF Covered, Initial
<1> QED BY <1>1, <1>2, <1>3 DEF IInv, Searching

\* No call and no step of the search breaks the invariant.
LEMMA NextInv ==
  ASSUME RbExplicitAssumption, IInv, [Next]_vars
  PROVE  IInv'
<1>0. TypeOK /\ TreeInv /\ Searching /\ Covered BY DEF IInv
<1> DEFINE Same == hole_tree' = hole_tree
<1>1. Same => Missing' = Missing BY DEF Missing
<1>2. CASE rb_explicit_reassctx_free
  <2>1. rb_explicit_reassctx_init'
    BY <1>2 DEF rb_explicit_reassctx_free, rb_explicit_reassctx_init
  <2> USE DEF RbExplicitAssumption
  <2>2. TypeOK' BY <1>2, <1>0, InitialType, Zenon DEF rb_explicit_reassctx_free, TypeOK
  <2>3. TreeInv' BY <1>2 DEF rb_explicit_reassctx_free, TreeInv, Within, Apart, Initial
  <2>4. Covered' BY <1>2, MissingDef DEF rb_explicit_reassctx_free, Covered, Initial
  <2> QED BY <1>2, <2>2, <2>3, <2>4 DEF IInv, Searching, rb_explicit_reassctx_free
<1>3. ASSUME NEW f \in Input, AddUnusable(f) PROVE IInv'
  BY <1>0, <1>1, <1>3 DEF AddUnusable, IInv, TypeOK, TreeInv, Searching, Covered,
     RbExplicitAssumption, Entered, Within, Apart
<1>4. ASSUME NEW f \in Input, rb_explicit_reassctx_add(f) PROVE IInv'
  <2> DEFINE last == f.first + f.len - 1
  <2>1. f.first \in 0 .. Top /\ f.len \in 0 .. Top + 1 /\ f.more \in BOOLEAN /\ last \in 0 .. Top /\ Usable(f)
    BY <1>4 DEF rb_explicit_reassctx_add, RbExplicitAssumption, Usable
  <2>2. f \in [first : 0 .. Top, len : 0 .. Top + 1, more : BOOLEAN] /\ Searching'
    BY <1>4, <2>1 DEF rb_explicit_reassctx_add, RbExplicitAssumption, Searching
  <2>3. CASE ~f.more /\ most_restricting_last > last
    <3>1. /\ most_restricting_last' = last /\ hole_tree' = repair_most_restricting(last)
          /\ kept' = kept
      BY <1>4, <2>3 DEF rb_explicit_reassctx_add
    <3>2. /\ hole_tree' \subseteq Hole
          /\ Within(hole_tree', last) /\ Apart(hole_tree')
          /\ Missing' = {b \in Missing : b <= last}
      BY <1>0, <2>1, <2>3, <3>1, RepairTree
    <3>3. TypeOK' BY <1>4, <2>1, <2>2, <3>1, <3>2 DEF rb_explicit_reassctx_add, TypeOK
    <3>4. TreeInv' BY <3>1, <3>2 DEF TreeInv
    <3>5. Covered'
      BY <1>0, <1>4, <2>1, <2>3, <3>1, <3>2 DEF rb_explicit_reassctx_add, Covered, Entered,
         TypeOK, RbExplicitAssumption
    <3> QED BY <2>2, <3>3, <3>4, <3>5 DEF IInv
  <2>4. CASE ~(~f.more /\ most_restricting_last > last)
    <3>1. most_restricting_last' = most_restricting_last /\ hole_tree' = hole_tree /\ kept' = kept
      BY <1>4, <2>4 DEF rb_explicit_reassctx_add
    <3>2. TypeOK' BY <1>0, <1>4, <2>1, <2>2, <3>1 DEF rb_explicit_reassctx_add, TypeOK
    <3>3. TreeInv' BY <1>0, <3>1 DEF TreeInv, Within, Apart
    <3>4. Covered' BY <1>0, <1>1, <1>4, <3>1 DEF rb_explicit_reassctx_add, Covered, Entered
    <3> QED BY <2>2, <3>2, <3>3, <3>4 DEF IInv
  <2> QED BY <2>3, <2>4
<1>5. CASE SearchEmpty
  BY <1>0, <1>1, <1>5 DEF SearchEmpty, Search, IInv, TypeOK, TreeInv, Searching, Covered,
     Entered, Within, Apart, RbExplicitAssumption, Data, data_first, data_last
<1>6. ASSUME NEW h \in hole_tree, SearchRefused(h) PROVE IInv'
  BY <1>0, <1>1, <1>6 DEF SearchRefused, Refused, Search, IInv, TypeOK, TreeInv, Searching,
     Covered, Entered, Within, Apart, RbExplicitAssumption, Data, data_first, data_last
<1>7. ASSUME NEW h \in hole_tree, Split(h) \/ Delete(h) \/ TrimLast(h) \/ TrimFirst(h) PROVE IInv'
  <2>1. PICK new : Cuts(h, new) /\ hole_tree' = (hole_tree \ {h}) \cup new
    BY <1>0, <1>7, ChangeCuts
  <2>2. /\ hole_tree' \subseteq Hole
        /\ Within(hole_tree', most_restricting_last) /\ Apart(hole_tree')
        /\ Missing' = Missing \ (Bytes(h) \cap Data)
    BY <1>0, <2>1, CutTree
  <2>3. /\ pc = "search" /\ mod' = TRUE /\ UNCHANGED <<most_restricting_last, kept, frag, overlap>>
        /\ pc' \in {"search", "found"} /\ (Ipv6 => pc' = "found")
    BY <1>7 DEF Split, Delete, TrimLast, TrimFirst, Change, Search, Again, RbExplicitAssumption
  <2>4. Data' = Data BY <2>3 DEF Data, data_first, data_last
  <2>5. TypeOK' /\ TreeInv' /\ Searching'
    BY <1>0, <2>2, <2>3 DEF TypeOK, TreeInv, Searching, Usable
  <2>6. Covered' BY <1>0, <2>2, <2>3, <2>4 DEF Covered, Entered, Searching
  <2> QED BY <2>5, <2>6 DEF IInv
<1>8. CASE AddReturn
  BY <1>0, <1>1, <1>8 DEF AddReturn, Keep, IInv, TypeOK, TreeInv, Searching, Covered, Entered,
     Within, Apart, RbExplicitAssumption, Data, data_first, data_last
<1>9. CASE UNCHANGED vars
  BY <1>0, <1>1, <1>9 DEF vars, IInv, TypeOK, TreeInv, Searching, Covered, Entered, Within,
     Apart, Data, data_first, data_last
<1> QED BY <1>2, <1>3, <1>4, <1>5, <1>6, <1>7, <1>8, <1>9 DEF Next, Step

\* The invariant: the holes are never adjacent, let alone overlapping, and
\* every byte is missing, can be copied from a packet that is kept, or is in
\* the fragment at hand, which will be kept.
THEOREM RbExplicitSafe == ASSUME RbExplicitAssumption PROVE Spec => []IInv
<1>1. rb_explicit_reassctx_init => IInv BY InitInv
<1>2. IInv /\ [Next]_vars => IInv' BY NextInv
<1> QED BY <1>1, <1>2, PTL DEF Spec

\* rb_hole_tree_cmp never aborts, for the holes never overlap; and freeing a
\* packet that changed no hole loses nothing.
THEOREM RbExplicitKeptSuffices ==
  ASSUME RbExplicitAssumption PROVE Spec => []KeptSuffices
<1>1. IInv => TreeOrdered
  BY DEF IInv, TypeOK, TreeInv, Within, Apart, Hole, TreeOrdered
<1>2. IInv => KeptSuffices BY <1>1 DEF IInv, Covered, Entered, KeptSuffices
<1> QED BY <1>2, RbExplicitSafe, PTL

\* During a search the data and the holes are not empty.
LEMMA DataRange ==
  ASSUME IInv, pc = "search"
  PROVE  /\ data_first \in Int /\ data_last \in Int /\ data_first <= data_last
         /\ Data = data_first .. data_last
         /\ \A h \in hole_tree : h.first \in Int /\ h.last \in Int /\ h.first <= h.last
BY DEF IInv, TypeOK, Hole, TreeInv, Within, Searching, Usable, Data, data_first, data_last

\* With the ipv6 flag a fragment is refused exactly if one of its bytes is not
\* missing: looking at one hole is enough, because the byte next to a hole is
\* never missing.
THEOREM RbExplicitRefusesOverlap ==
  ASSUME RbExplicitAssumption PROVE Spec => RefusedIfOverlap
<1>1. ASSUME IInv, [Next]_vars, pc = "search", pc' = "found", Ipv6
      PROVE  overlap' <=> ~(Data \subseteq Missing)
  <2>1. CASE SearchEmpty
    <3>1. overlap' BY <1>1, <2>1 DEF SearchEmpty
    <3>2. data_first \in Data /\ data_first \notin Missing
      BY <1>1, <2>1, DataRange, MissingDef DEF SearchEmpty, Overlaps
    <3> QED BY <3>1, <3>2
  <2>2. ASSUME NEW h \in hole_tree, SearchRefused(h)
        PROVE  overlap' /\ ~(Data \subseteq Missing)
    <3>1. /\ overlap' /\ h.last >= data_first /\ h.first <= data_last
          /\ h.first > data_first \/ h.last < data_last
      BY <2>2 DEF SearchRefused, Overlaps, Refused
    <3>2. \A g \in hole_tree : g # h => g.last + 1 < h.first \/ h.last + 1 < g.first
      BY <1>1 DEF IInv, TreeInv, Apart
    <3>3. CASE h.first > data_first
      <4> DEFINE b == h.first - 1
      <4>1. b \in Int /\ b \in Data BY <1>1, <3>1, <3>3, DataRange
      <4>2. \A g \in hole_tree : g.first \in Int /\ g.last \in Int /\ ~(g.first <= b /\ b <= g.last)
        BY <1>1, <3>2, DataRange
      <4> HIDE DEF b
      <4>3. b \notin Missing BY <4>1, <4>2, MissingDef
      <4> QED BY <3>1, <4>1, <4>3
    <3>4. CASE h.last < data_last
      <4> DEFINE b == h.last + 1
      <4>1. b \in Int /\ b \in Data BY <1>1, <3>1, <3>4, DataRange
      <4>2. \A g \in hole_tree : g.first \in Int /\ g.last \in Int /\ ~(g.first <= b /\ b <= g.last)
        BY <1>1, <3>2, DataRange
      <4> HIDE DEF b
      <4>3. b \notin Missing BY <4>1, <4>2, MissingDef
      <4> QED BY <3>1, <4>1, <4>3
    <3> QED BY <3>1, <3>3, <3>4
  <2>3. ASSUME NEW h \in hole_tree, Split(h) \/ Delete(h) \/ TrimLast(h) \/ TrimFirst(h)
        PROVE  ~overlap' /\ Data \subseteq Missing
    <3>1. overlap' = overlap /\ ~(h.first > data_first \/ h.last < data_last)
      BY <1>1, <2>3 DEF Split, Delete, TrimLast, TrimFirst, Change, Refused
    <3>2. ~overlap BY <1>1 DEF IInv, Searching
    <3>3. Data \subseteq Missing BY <1>1, <3>1, DataRange, MissingDef
    <3> QED BY <3>1, <3>2, <3>3
  <2>4. ~rb_explicit_reassctx_free /\ ~AddReturn
        /\ (\A f \in Input : ~AddUnusable(f) /\ ~rb_explicit_reassctx_add(f)) /\ ~UNCHANGED vars
    BY <1>1 DEF rb_explicit_reassctx_free, AddReturn, AddUnusable, rb_explicit_reassctx_add, vars
  <2> QED BY <1>1, <2>1, <2>2, <2>3, <2>4 DEF Next, Step
<1>2. IInv /\ [Next]_vars
      => [(pc = "search" /\ pc' = "found" /\ Ipv6) => (overlap' <=> ~(Data \subseteq Missing))]_vars
  BY <1>1
<1> QED BY <1>2, RbExplicitSafe, PTL DEF Spec, RefusedIfOverlap

-----------------------------------------------------------------------------
(* Without the flag the tree implements the set of missing bytes.          *)

\* The missing bytes as the set has them: those of the fragment at hand have
\* arrived.
missing == IF pc = "search" THEN Missing \ Data ELSE Missing

\* In a new context all bytes are missing.
LEMMA InitialMissing ==
  /\ hole_tree = Initial => Missing = 0 .. Top
  /\ hole_tree' = Initial => Missing' = 0 .. Top
<1>1. [first |-> 0, last |-> Top].first = 0 /\ [first |-> 0, last |-> Top].last = Top
  OBVIOUS
<1> QED BY <1>1, MissingDef, Zenon DEF Initial

\* Every step of a call is a step of the set of missing bytes or changes
\* nothing there: the fragment arrives when the call begins, and the search
\* only catches up.
LEMMA StepImplements ==
  ASSUME RbExplicitAssumption, Ipv6 = FALSE, IInv, [Next]_vars
  PROVE  [Abstract!Next]_(Abstract!vars)
<1>0. TypeOK /\ TreeInv /\ Searching BY DEF IInv
<1>1. Input \subseteq Abstract!Fragment BY DEF RbExplicitAssumption, Abstract!Fragment
<1>2. SUFFICES \/ Abstract!Restart
               \/ \E f \in Input : Abstract!Arrive(f) \/ Abstract!Ignore(f)
               \/ UNCHANGED <<frag, most_restricting_last, missing>>
  BY <1>1, Zenon DEF Abstract!Next, Abstract!vars, missing
<1>3. hole_tree' = hole_tree => Missing' = Missing BY DEF Missing
<1>4. frag' = frag => Data' = Data BY DEF Data, data_first, data_last
<1>5. CASE rb_explicit_reassctx_free
  <2>1. pc' = "idle" /\ Missing' = 0 .. Top
    BY <1>5, InitialMissing DEF rb_explicit_reassctx_free
  <2> QED BY <1>5, <2>1 DEF rb_explicit_reassctx_free, Abstract!Restart, missing, NoFragment,
     Abstract!NoFragment
<1>6. ASSUME NEW f \in Input, AddUnusable(f) PROVE Abstract!Ignore(f)
  BY <1>3, <1>6 DEF AddUnusable, Abstract!Ignore, Usable, Abstract!Usable, Abstract!data_last
<1>7. ASSUME NEW f \in Input, rb_explicit_reassctx_add(f) PROVE Abstract!Arrive(f)
  <2> DEFINE last == f.first + f.len - 1
             bytes == {b \in Missing : b <= most_restricting_last'}
  <2>1. /\ last \in 0 .. Top /\ Usable(f) /\ frag' = f
        /\ pc = "idle" /\ pc' = "search"
    BY <1>7 DEF rb_explicit_reassctx_add, RbExplicitAssumption, Usable
  <2>2. most_restricting_last' = Abstract!Lower(f)
    BY <1>7 DEF rb_explicit_reassctx_add, Abstract!Lower, Abstract!data_last
  <2>3. Missing' = bytes
    <3>1. CASE ~f.more /\ most_restricting_last > last
      <4>1. most_restricting_last' = last /\ hole_tree' = repair_most_restricting(last)
        BY <1>7, <3>1 DEF rb_explicit_reassctx_add
      <4> QED BY <1>0, <2>1, <3>1, <4>1, RepairTree
    <3>2. CASE ~(~f.more /\ most_restricting_last > last)
      <4>1. most_restricting_last' = most_restricting_last /\ hole_tree' = hole_tree
        BY <1>7, <3>2 DEF rb_explicit_reassctx_add
      <4>2. \A b \in Missing : b <= most_restricting_last
        BY <1>0, MissingDef DEF TypeOK, Hole, TreeInv, Within
      <4> QED BY <1>3, <4>1, <4>2
    <3> QED BY <3>1, <3>2
  <2>4. Data' = f.first .. last BY <2>1 DEF Data, data_first, data_last
  <2>5. Abstract!Usable(f) /\ Abstract!data_last(f) = last
    BY <2>1 DEF Usable, Abstract!Usable, Abstract!data_last
  <2> HIDE DEF last
  <2> QED BY <2>1, <2>2, <2>3, <2>4, <2>5, Zenon DEF Abstract!Arrive
<1>8. CASE SearchEmpty
  <2>1. Missing \ Data = Missing
    BY <1>8, DataRange, MissingDef DEF SearchEmpty, Search, Overlaps
  <2> QED BY <1>3, <1>4, <1>8, <2>1 DEF SearchEmpty, Search, missing
<1>9. ASSUME NEW h \in hole_tree, SearchRefused(h) PROVE FALSE
  BY <1>9 DEF SearchRefused, Refused
<1>10. ASSUME NEW h \in hole_tree, Split(h) \/ Delete(h) \/ TrimLast(h) \/ TrimFirst(h)
       PROVE  UNCHANGED <<frag, most_restricting_last, missing>>
  <2>1. PICK new : Cuts(h, new) /\ hole_tree' = (hole_tree \ {h}) \cup new
    BY <1>0, <1>10, ChangeCuts
  <2>2. Missing' = Missing \ (Bytes(h) \cap Data)
    BY <1>0, <2>1, CutTree
  <2>3. /\ pc = "search" /\ UNCHANGED <<most_restricting_last, frag>>
        /\ \/ pc' = "search"
           \/ pc' = "found" /\ h.last > data_last /\ h.first < data_first
    BY <1>10 DEF Split, Delete, TrimLast, TrimFirst, Change, Search, Again
  <2>4. CASE pc' = "search" BY <1>4, <2>2, <2>3, <2>4 DEF missing
  <2>5. CASE pc' = "found"
    <3>1. Data \subseteq Bytes(h) BY <2>3, <2>5, DataRange DEF Bytes
    <3> QED BY <1>4, <2>2, <2>3, <2>5, <3>1 DEF missing
  <2> QED BY <2>3, <2>4, <2>5
<1>11. CASE AddReturn BY <1>3, <1>11 DEF AddReturn, missing
<1>12. CASE UNCHANGED vars BY <1>3, <1>4, <1>12 DEF vars, missing
<1> QED BY <1>5, <1>6, <1>7, <1>8, <1>9, <1>10, <1>11, <1>12 DEF Next, Step

\* Without the ipv6 flag the tree of holes implements the set of missing bytes,
\* whatever hole the search meets first.
THEOREM RbExplicitImplements ==
  ASSUME RbExplicitAssumption, Ipv6 = FALSE PROVE Spec => ImplementsReassembly
<1>1. rb_explicit_reassctx_init => Abstract!Init
  BY InitialMissing DEF rb_explicit_reassctx_init, Abstract!Init, NoFragment, Abstract!NoFragment
<1>2. IInv /\ [Next]_vars => [Abstract!Next]_(Abstract!vars) BY StepImplements
<1> QED BY <1>1, <1>2, RbExplicitSafe, PTL DEF Spec, ImplementsReassembly, Abstract!Spec

-----------------------------------------------------------------------------
(* The bitmap.                                                             *)

\* Multiples are ordered as their factors are.
LEMMA MultiplesOrdered ==
  ASSUME NEW u \in Nat \ {0}, NEW a \in Int, NEW b \in Int
  PROVE  (a <= b <=> u * a <= u * b) /\ (a < b <=> u * a + u <= u * b) /\ u * a \in Int
         /\ u * (a + 1) = u * a + u
OBVIOUS

\* Quotients lie between multiples.
LEMMA QuotientBounds ==
  ASSUME NEW u \in Nat \ {0}, NEW n \in Nat
  PROVE  n \div u \in Nat /\ u * (n \div u) <= n /\ n < u * (n \div u) + u
         /\ n % u \in 0 .. u - 1 /\ n = u * (n \div u) + (n % u)
OBVIOUS

\* A number of words, in bytes.
LEMMA MultiplyOut ==
  ASSUME NEW u \in Nat, NEW w \in Nat, NEW n \in Nat
  PROVE  (u * w) * n = u * (n * w)
OBVIOUS

\* The three loops of rfc791ctx_add set what the plain loop would set.
LEMMA LoopsArePlain ==
  ASSUME Bitmap!Rfc791Assumption, NEW first \in Nat, first % Unit = 0, NEW last \in Nat,
         first <= last
  PROVE  Bitmap!BitsOf(first, last) = first \div Unit .. (last + 1) \div Unit - 1
<1> DEFINE a == first \div Unit
           p == (last + 1) \div Unit
           w == Unit * WordBits
           F == Bitmap!FirstTotal(first)
           L == (last + 1) \div w
<1>1. Unit \in Nat \ {0} /\ WordBits \in Nat \ {0} /\ w \in Nat \ {0}
  BY DEF Bitmap!Rfc791Assumption
<1>2. a \in Nat /\ first = Unit * a BY <1>1, QuotientBounds
<1>3. p \in Nat /\ Unit * p <= last + 1 /\ last + 1 < Unit * p + Unit BY <1>1
<1>4. F \in Nat /\ w * F <= first + w - 1 /\ first + w - 1 < w * F + w
  <2> DEFINE n == first + w - 1
  <2>1. n \in Nat BY <1>1
  <2> HIDE DEF n
  <2>2. n \div w \in Nat /\ w * (n \div w) <= n /\ n < w * (n \div w) + w
    BY <1>1, <2>1, QuotientBounds
  <2> QED BY <2>2 DEF Bitmap!FirstTotal, n
<1>5. L \in Nat /\ w * L <= last + 1 /\ last + 1 < w * L + w
  <2> DEFINE n == last + 1
  <2>1. n \in Nat OBVIOUS
  <2> HIDE DEF n
  <2>2. n \div w \in Nat /\ w * (n \div w) <= n /\ n < w * (n \div w) + w
    BY <1>1, <2>1, QuotientBounds
  <2> QED BY <2>2 DEF n
<1> HIDE DEF a, p, F, L
<1>6. w * F = Unit * (F * WordBits) /\ w * L = Unit * (L * WordBits)
  BY <1>1, <1>4, <1>5, MultiplyOut
<1>7. F * WordBits \in Nat /\ L * WordBits \in Nat BY <1>1, <1>4, <1>5
<1> HIDE DEF w
<1>8. a <= F * WordBits
  BY <1>1, <1>2, <1>4, <1>6, <1>7, MultiplesOrdered
<1>9. L * WordBits <= p
  <2>1. Unit * (L * WordBits) < Unit * p + Unit BY <1>1, <1>3, <1>5, <1>6, <1>7
  <2> QED BY <1>1, <1>3, <1>7, <2>1, MultiplesOrdered
<1>10. F <= L \/ p <= F * WordBits
  <2> SUFFICES ASSUME L + 1 <= F PROVE p <= F * WordBits BY <1>4, <1>5
  <2>1. w * L + w <= w * F BY <1>1, <1>4, <1>5, MultiplesOrdered
  <2>2. Unit * p < Unit * (F * WordBits) + Unit
    BY <1>1, <1>3, <1>5, <1>6, <1>7, <2>1
  <2> QED BY <1>1, <1>3, <1>7, <2>2, MultiplesOrdered
<1>11. F <= L => F * WordBits <= L * WordBits
  BY <1>1, <1>4, <1>5
<1> DEFINE x == F * WordBits
           y == L * WordBits
<1>12. Bitmap!BitsOf(first, last) =
         a .. Bitmap!Least(x, p) - 1 \cup x .. y - 1 \cup Bitmap!Largest(y, a) .. p - 1
  BY DEF Bitmap!BitsOf, a, p, w, F, L
<1>13. x \in Nat /\ y \in Nat /\ a <= x /\ y <= p /\ (x <= y \/ p <= x)
  BY <1>7, <1>8, <1>9, <1>10, <1>11
<1> HIDE DEF x, y
<1>14. a .. Bitmap!Least(x, p) - 1 \cup x .. y - 1 \cup Bitmap!Largest(y, a) .. p - 1 = a .. p - 1
  BY <1>2, <1>3, <1>13 DEF Bitmap!Least, Bitmap!Largest
<1> QED BY <1>12, <1>14 DEF a, p

\* A fragment sets the bits of the units whose last byte it has; it has all of
\* each of them.
LEMMA FragmentUnits ==
  ASSUME Bitmap!Rfc791Assumption, NEW first \in Nat, first % Unit = 0, NEW last \in Nat,
         first <= last,
         NEW b \in Nat
  PROVE  /\ b \in first \div Unit .. (last + 1) \div Unit - 1
              <=> Unit * b + Unit - 1 \in first .. last
         /\ b \in first \div Unit .. (last + 1) \div Unit - 1
              => \A k \in 0 .. Unit - 1 : Unit * b + k \in first .. last
<1> DEFINE a == first \div Unit
           p == (last + 1) \div Unit
<1>1. Unit \in Nat \ {0} BY DEF Bitmap!Rfc791Assumption
<1>2. a \in Nat /\ first = Unit * a BY <1>1, QuotientBounds
<1>3. p \in Nat /\ Unit * p <= last + 1 /\ last + 1 < Unit * p + Unit BY <1>1
<1> HIDE DEF a, p
<1>4. /\ a <= b <=> Unit * a <= Unit * b
      /\ b < p <=> Unit * b + Unit <= Unit * p
      /\ b < a <=> Unit * b + Unit <= Unit * a
      /\ p <= b <=> Unit * p <= Unit * b
      /\ Unit * a \in Int /\ Unit * b \in Int /\ Unit * p \in Int
  BY <1>1, <1>2, <1>3, MultiplesOrdered
<1>5. b \in a .. p - 1 <=> Unit * b + Unit - 1 \in first .. last BY <1>1, <1>2, <1>3, <1>4
<1>6. b \in a .. p - 1 => \A k \in 0 .. Unit - 1 : Unit * b + k \in first .. last
  BY <1>1, <1>2, <1>3, <1>4
<1> QED BY <1>5, <1>6 DEF a, p

\* The invariant: a bit is set exactly if the last byte of its unit has arrived,
\* and then the whole unit has; and of the unit in which the datagram ends all
\* bytes up to the end have arrived.
BitmapInv ==
  /\ bits \subseteq 0 .. Top \div Unit /\ bits = plain
  /\ most_restricting_last \in 0 .. Top /\ got \subseteq 0 .. Top
  /\ \A b \in Nat : b \in bits <=> Unit * b + Unit - 1 \in got
  /\ \A b \in bits, k \in 0 .. Unit - 1 : Unit * b + k \in got
  /\ most_restricting_last # Top =>
       \A k \in Unit * (most_restricting_last \div Unit) .. most_restricting_last : k \in got

\* rfc791ctx_init and rfc791ctx_free leave nothing.
LEMMA BitmapEmpty ==
  ASSUME Bitmap!Rfc791Assumption
  PROVE  Bitmap!rfc791ctx_init => BitmapInv
BY DEF Bitmap!Rfc791Assumption, Bitmap!rfc791ctx_init, BitmapInv

\* rfc791ctx_add.
LEMMA BitmapAdd ==
  ASSUME Bitmap!Rfc791Assumption, BitmapInv, NEW f \in Input, Bitmap!rfc791ctx_add(f)
  PROVE  BitmapInv'
<1> DEFINE first == f.first
           last == Bitmap!data_last(f)
           new == first \div Unit .. (last + 1) \div Unit - 1
<1>1. /\ Unit \in Nat \ {0} /\ Top \in Nat
      /\ first \in Nat /\ first % Unit = 0 /\ last \in Nat /\ first <= last /\ last <= Top
  BY DEF Bitmap!Rfc791Assumption, Bitmap!rfc791ctx_add, Bitmap!Usable, Bitmap!data_last
<1>2. bits' = bits \cup new /\ plain' = plain \cup new /\ got' = got \cup first .. last
  BY <1>1, LoopsArePlain DEF Bitmap!rfc791ctx_add
<1>3. \/ most_restricting_last' = most_restricting_last
      \/ most_restricting_last' = last
  BY DEF Bitmap!rfc791ctx_add
<1> HIDE DEF last, first
<1>4. \A b \in Nat : /\ b \in new <=> Unit * b + Unit - 1 \in first .. last
                     /\ b \in new => \A k \in 0 .. Unit - 1 : Unit * b + k \in first .. last
  BY <1>1, FragmentUnits
<1>5. new \subseteq 0 .. Top \div Unit
  <2>1. Top \div Unit \in Nat /\ Top < Unit * (Top \div Unit) + Unit
    BY <1>1, QuotientBounds
  <2>2. (last + 1) \div Unit \in Nat /\ Unit * ((last + 1) \div Unit) <= last + 1
        /\ first \div Unit \in Nat
    BY <1>1
  <2> DEFINE p == (last + 1) \div Unit
             t == Top \div Unit
  <2>3. p \in Nat /\ t \in Nat /\ Unit * p < Unit * (t + 1) + 1
    BY <1>1, <2>1, <2>2, MultiplesOrdered
  <2> HIDE DEF p, t
  <2>4. p <= t + 1
    <3>1. t + 1 < p => Unit * (t + 1) + Unit <= Unit * p BY <1>1, <2>3, MultiplesOrdered
    <3>2. Unit * (t + 1) \in Int /\ Unit * p \in Int BY <1>1, <2>3, MultiplesOrdered
    <3> QED BY <1>1, <2>3, <3>1, <3>2
  <2> QED BY <1>1, <2>2, <2>3, <2>4 DEF p, t
<1> HIDE DEF new
<1>6. bits' \subseteq 0 .. Top \div Unit /\ bits' = plain' /\ got' \subseteq 0 .. Top
      /\ most_restricting_last' \in 0 .. Top
  BY <1>1, <1>2, <1>3, <1>5 DEF BitmapInv
<1>7. \A b \in Nat : b \in bits' <=> Unit * b + Unit - 1 \in got'
  BY <1>2, <1>4 DEF BitmapInv
<1>8. ASSUME NEW b \in bits', NEW k \in 0 .. Unit - 1 PROVE Unit * b + k \in got'
  <2>1. CASE b \in bits BY <1>2, <2>1 DEF BitmapInv
  <2>2. CASE b \in new
    <3>1. Top \div Unit \in Nat BY <1>1, QuotientBounds
    <3>2. b \in Nat BY <1>5, <2>2, <3>1
    <3> QED BY <1>2, <1>4, <2>2, <3>2
  <2> QED BY <1>2, <2>1, <2>2
<1>9. ASSUME most_restricting_last' # Top,
             NEW k \in Unit * (most_restricting_last' \div Unit) .. most_restricting_last'
      PROVE  k \in got'
  <2>1. CASE most_restricting_last' = most_restricting_last
    BY <1>2, <1>9, <2>1 DEF BitmapInv
  <2>2. CASE most_restricting_last' = last
    <3> DEFINE q == last \div Unit
               a == first \div Unit
    <3>1. q \in Nat /\ last < Unit * q + Unit /\ a \in Nat /\ first = Unit * a
      BY <1>1
    <3>2. k \in Unit * q .. last BY <1>9, <2>2
    <3> HIDE DEF q, a
    <3>3. a <= q
      <4>1. Unit * q \in Int /\ Unit * a \in Int /\ (q < a => Unit * q + Unit <= Unit * a)
        BY <1>1, <3>1, MultiplesOrdered
      <4> QED BY <1>1, <3>1, <4>1
    <3>4. Unit * a <= Unit * q /\ Unit * a \in Int /\ Unit * q \in Int
      BY <1>1, <3>1, <3>3, MultiplesOrdered
    <3> QED BY <1>1, <1>2, <3>1, <3>2, <3>4
  <2> QED BY <1>3, <2>1, <2>2
<1> QED BY <1>6, <1>7, <1>8, <1>9 DEF BitmapInv

\* What is proved of the bitmap.
LEMMA BitmapFacts ==
  ASSUME Bitmap!Rfc791Assumption, BitmapInv
  PROVE  Bitmap!BitsArePlain /\ Bitmap!CompleteIsSound /\ Bitmap!CompleteWhenBroken
<1> DEFINE m == most_restricting_last
           q == m \div Unit
<1>1. Unit \in Nat \ {0} /\ Top \in Nat /\ m \in Nat /\ m <= Top
  BY DEF Bitmap!Rfc791Assumption, BitmapInv
<1>2. q \in Nat /\ m % Unit \in 0 .. Unit - 1 /\ m = Unit * q + (m % Unit)
  BY <1>1, QuotientBounds
<1>3. Bitmap!BitsArePlain BY DEF Bitmap!BitsArePlain, BitmapInv
<1>4. Bitmap!CompleteIsSound
  <2> SUFFICES ASSUME Bitmap!rfc791ctx_complete, NEW n \in 0 .. m PROVE n \in got
    BY DEF Bitmap!CompleteIsSound
  <2>1. m # Top /\ 0 .. q - 1 \subseteq bits BY DEF Bitmap!rfc791ctx_complete
  <2> DEFINE b == n \div Unit
             k == n % Unit
  <2>2. b \in Nat /\ k \in 0 .. Unit - 1 /\ n = Unit * b + k BY <1>1
  <2>3. CASE n >= Unit * q
    BY <1>1, <1>2, <2>1, <2>3 DEF BitmapInv
  <2>4. CASE n < Unit * q
    <3> HIDE DEF b, k, q
    <3>1. b < q
      <4>1. Unit * b \in Int /\ Unit * q \in Int /\ (q <= b => Unit * q <= Unit * b)
        BY <1>1, <1>2, <2>2, MultiplesOrdered
      <4> QED BY <1>1, <1>2, <2>2, <2>4, <4>1
    <3>2. b \in bits BY <1>2, <2>1, <2>2, <3>1
    <3> QED BY <2>2, <3>2 DEF BitmapInv
  <2> QED BY <1>1, <1>2, <2>3, <2>4
<1>5. Bitmap!CompleteWhenBroken
  <2> SUFFICES ASSUME (m + 1) % Unit # 0, got = 0 .. m, m # Top
               PROVE  Bitmap!rfc791ctx_complete
    BY DEF Bitmap!CompleteWhenBroken
  <2>1. m % Unit # Unit - 1
    <3> SUFFICES ASSUME m % Unit = Unit - 1 PROVE FALSE OBVIOUS
    <3>1. m + 1 = Unit * q + Unit BY <1>1, <1>2
    <3>2. m + 1 = Unit * (q + 1) BY <1>1, <1>2, <3>1, MultiplesOrdered
    <3> HIDE DEF q
    <3>3. (Unit * (q + 1)) % Unit = 0 BY <1>1, <1>2
    <3> QED BY <3>2, <3>3
  <2>2. q \notin bits
    BY <1>1, <1>2, <2>1 DEF BitmapInv
  <2>3. ASSUME NEW b \in 0 .. q - 1 PROVE b \in bits
    <3>1. b \in Nat /\ b < q BY <1>2, <2>3
    <3> HIDE DEF q
    <3>2. Unit * b + Unit <= Unit * q /\ Unit * b \in Nat /\ Unit * q \in Nat
      BY <1>1, <1>2, <3>1, MultiplesOrdered
    <3>3. Unit * b + Unit - 1 \in 0 .. m BY <1>1, <1>2, <3>2
    <3> QED BY <3>1, <3>3 DEF BitmapInv
  <2> QED BY <2>2, <2>3 DEF Bitmap!rfc791ctx_complete
<1> QED BY <1>3, <1>4, <1>5

\* The word-wise loops of rfc791ctx_add set exactly the bits of the plain one,
\* for every size of a word; a datagram that rfc791ctx_complete calls complete
\* is; and one that ends inside a unit is called so once it has all its bytes.
THEOREM BitmapExact ==
  ASSUME Bitmap!Rfc791Assumption
  PROVE  Bitmap!Spec =>
           [](Bitmap!BitsArePlain /\ Bitmap!CompleteIsSound /\ Bitmap!CompleteWhenBroken)
<1>1. Bitmap!rfc791ctx_init => BitmapInv BY BitmapEmpty
<1>2. BitmapInv /\ [Bitmap!Next]_(Bitmap!vars) => BitmapInv'
  <2> SUFFICES ASSUME BitmapInv, [Bitmap!Next]_(Bitmap!vars) PROVE BitmapInv' OBVIOUS
  <2>1. CASE Bitmap!rfc791ctx_free
    BY <2>1 DEF Bitmap!rfc791ctx_free, BitmapInv, Bitmap!Rfc791Assumption
  <2>2. CASE UNCHANGED Bitmap!vars BY <2>2 DEF Bitmap!vars, BitmapInv
  <2> QED BY <2>1, <2>2, BitmapAdd DEF Bitmap!Next
<1>3. BitmapInv =>
        Bitmap!BitsArePlain /\ Bitmap!CompleteIsSound /\ Bitmap!CompleteWhenBroken
  BY BitmapFacts
<1> QED BY <1>1, <1>2, <1>3, PTL DEF Bitmap!Spec

-----------------------------------------------------------------------------
(* TCP: sequence numbers and positions.                                    *)

\* The sequence number of a position.
Num(i) == (Isn + 1 + i) % Wrap

\* The eighth and the half of the space of numbers.
LEMMA WrapParts ==
  ASSUME TcpReassAssumption
  PROVE  /\ Wrap \in Nat \ {0} /\ Isn \in Nat /\ Wrap \div 8 \in Nat \ {0}
         /\ Wrap = 8 * (Wrap \div 8) /\ Wrap \div 2 = 4 * (Wrap \div 8)
BY DEF TcpReassAssumption

\* Quotient and remainder.
LEMMA Remainder ==
  ASSUME NEW w \in Nat \ {0}, NEW n \in Int
  PROVE  n \div w \in Int /\ n % w \in 0 .. w - 1 /\ n = w * (n \div w) + (n % w)
OBVIOUS

\* A remainder is what its defining equation says.
LEMMA RemainderUnique ==
  ASSUME NEW w \in Nat \ {0}, NEW n \in Int, NEW k \in Int, NEW r \in 0 .. w - 1, n = w * k + r
  PROVE  n % w = r
<1> DEFINE q == n \div w
           s == n % w
<1>1. q \in Int /\ s \in 0 .. w - 1 /\ n = w * q + s OBVIOUS
<1> HIDE DEF q, s
<1>2. /\ w * q \in Int /\ w * k \in Int /\ (q < k => w * q + w <= w * k)
      /\ (k < q => w * k + w <= w * q)
  BY <1>1
<1>3. q = k BY <1>1, <1>2
<1>4. s = r BY <1>1, <1>2, <1>3
<1> QED BY <1>4 DEF s

\* Adding to a remainder.
LEMMA RemainderPlus ==
  ASSUME NEW w \in Nat \ {0}, NEW x \in Int, NEW n \in Int
  PROVE  ((x % w) + n) % w = (x + n) % w
<1> DEFINE q == x \div w
           r == x % w
           y == r + n
           a == y \div w
           s == y % w
<1>1. q \in Int /\ r \in Int /\ x = w * q + r OBVIOUS
<1> HIDE DEF q, r
<1>2. y \in Int BY <1>1
<1> HIDE DEF y
<1>3. a \in Int /\ s \in 0 .. w - 1 /\ y = w * a + s BY <1>2
<1> HIDE DEF a, s
<1>4. w * (q + a) = w * q + w * a BY <1>1, <1>3
<1>5. x + n = w * (q + a) + s
  <2>1. w * q \in Int /\ w * a \in Int BY <1>1, <1>3
  <2>2. y = r + n BY DEF y
  <2> QED BY <1>1, <1>2, <1>3, <1>4, <2>1, <2>2
<1>6. q + a \in Int /\ x + n \in Int BY <1>1, <1>3
<1>7. (x + n) % w = s BY <1>3, <1>5, <1>6, RemainderUnique
<1> QED BY <1>7 DEF s, y, r

\* The number of a position, and of the one n later.
LEMMA NumPlus ==
  ASSUME TcpReassAssumption, NEW i \in Int, NEW n \in Int
  PROVE  Plus(Num(i), n) = Num(i + n) /\ Num(i) \in 0 .. Wrap - 1
<1> DEFINE x == Isn + 1 + i
<1>1. x \in Int /\ Wrap \in Nat \ {0} BY WrapParts
<1>2. Isn + 1 + (i + n) = x + n BY WrapParts
<1> HIDE DEF x
<1>3. ((x % Wrap) + n) % Wrap = (x + n) % Wrap BY <1>1, RemainderPlus
<1>4. x % Wrap \in 0 .. Wrap - 1 BY <1>1
<1> QED BY <1>2, <1>3, <1>4 DEF Plus, Num, x

\* The signed difference of two numbers is that of their positions, if these are
\* less than half of the space apart.
LEMMA NumDiff ==
  ASSUME TcpReassAssumption, NEW i \in Int, NEW j \in Int,
         i - j \in -(Wrap \div 2) .. Wrap \div 2 - 1
  PROVE  SeqDiff(Num(i), Num(j)) = i - j
<1> DEFINE w == Wrap
           h == Wrap \div 2
           a == Isn + 1 + i
           b == Isn + 1 + j
           d == i - j
<1>1. w \in Nat \ {0} /\ a \in Int /\ b \in Int /\ h \in Int /\ w = 2 * h /\ d \in Int
      /\ -h <= d /\ d < h
  BY WrapParts
<1>2. d = a - b BY WrapParts
<1> HIDE DEF w, h, a, b, d
<1> DEFINE p == a \div w
           q == b \div w
           x == a % w
           y == b % w
<1>3. p \in Int /\ q \in Int /\ x \in Int /\ y \in Int /\ a = w * p + x /\ b = w * q + y
  <2>1. w \in Nat \ {0} /\ a \in Int BY <1>1
  <2>2. w \in Nat \ {0} /\ b \in Int BY <1>1
  <2>3. p \in Int /\ x \in 0 .. w - 1 /\ a = w * p + x BY <2>1, Remainder, Zenon
  <2>4. q \in Int /\ y \in 0 .. w - 1 /\ b = w * q + y BY <2>2, Remainder, Zenon
  <2> HIDE DEF p, q, x, y
  <2> QED BY <1>1, <2>3, <2>4
<1> HIDE DEF p, q, x, y
<1>4. /\ w * (q - p) = w * q - w * p /\ w * (q - p - 1) = w * q - w * p - w
      /\ w * p \in Int /\ w * q \in Int
  BY <1>1, <1>3
<1>5. x - y = w * (q - p) + d /\ x - y = w * (q - p - 1) + (d + w)
  BY <1>1, <1>2, <1>3, <1>4
<1>6. q - p \in Int /\ q - p - 1 \in Int /\ x - y \in Int BY <1>3
<1>9. SeqDiff(Num(i), Num(j)) = IF (x - y) % w >= h THEN ((x - y) % w) - w ELSE (x - y) % w
  BY DEF SeqDiff, Num, w, h, a, b, x, y
<1>7. CASE d >= 0
  <2>1. d \in 0 .. w - 1 BY <1>1, <1>7
  <2>2. (x - y) % w = d BY <1>1, <1>5, <1>6, <2>1, RemainderUnique
  <2>3. ~(d >= h) BY <1>1
  <2> QED BY <1>9, <2>2, <2>3 DEF d
<1>8. CASE d < 0
  <2> DEFINE e == d + w
             k == q - p - 1
  <2>1. e \in 0 .. w - 1 /\ e >= h /\ e - w = d BY <1>1, <1>8
  <2>2. x - y = w * k + e /\ k \in Int BY <1>5, <1>6
  <2> HIDE DEF e, k
  <2>3. (x - y) % w = e BY <1>1, <1>6, <2>1, <2>2, RemainderUnique
  <2> QED BY <1>9, <2>1, <2>3 DEF d
<1> QED BY <1>1, <1>7, <1>8

\* So comparisons of numbers are comparisons of positions.
LEMMA NumCompare ==
  ASSUME TcpReassAssumption, NEW i \in Int, NEW j \in Int,
         i - j < Wrap \div 2, j - i < Wrap \div 2
  PROVE  /\ Before(Num(i), Num(j)) <=> i < j
         /\ UpTo(Num(i), Num(j)) <=> i <= j
         /\ seq_valid(Num(i), Num(j)) <=> i - j <= Wrap \div 8 /\ j - i <= Wrap \div 8
<1>1. Wrap \div 2 \in Int /\ Wrap \div 8 \in Int BY WrapParts
<1>2. i - j \in -(Wrap \div 2) .. Wrap \div 2 - 1 /\ j - i \in -(Wrap \div 2) .. Wrap \div 2 - 1
  BY <1>1
<1>3. SeqDiff(Num(i), Num(j)) = i - j /\ SeqDiff(Num(j), Num(i)) = j - i
  BY <1>2, NumDiff
<1> QED BY <1>1, <1>3 DEF Before, UpTo, seq_valid

-----------------------------------------------------------------------------
(* TCP: the segments that wait.                                            *)

\* The largest distance that seq_cmp accepts.
Window == Wrap \div 8

\* A segment as the tree holds it, from position i to j.
Seg(i, j) == [first |-> Num(i), last |-> Num(j)]

\* The position of a number, seen from the stream that ends at n.
At(x, n) == n + SeqDiff(x, Num(n))

\* The first and the last position of a segment.
Lo(h, n) == At(h.first, n)
Hi(h, n) == At(h.last, n)

\* A segment waits ahead of n, within the window.
Waits(h, n) ==
  /\ Lo(h, n) \in n .. n + Window /\ Hi(h, n) \in n .. n + Window
  /\ Lo(h, n) <= Hi(h, n)
  /\ h = Seg(Lo(h, n), Hi(h, n))

\* The segments wait ahead of n, and no two overlap.
Waiting(tree, n) ==
  /\ \A h \in tree : Waits(h, n)
  /\ \A g, h \in tree : g # h => Hi(g, n) < Lo(h, n) \/ Hi(h, n) < Lo(g, n)

\* From n on, they and the new segment hold the positions in taken, and no other.
Holds(tree, n, taken, new) ==
  \A p \in Int : p >= n => (p \in taken <=> p \in new \/ \E h \in tree : p \in Lo(h, n) .. Hi(h, n))

\* An eighth of the space is the window; half of it is four windows.
LEMMA WindowType ==
  ASSUME TcpReassAssumption
  PROVE  Window \in Nat \ {0} /\ Wrap \div 2 = 4 * Window /\ Wrap \div 8 = Window
BY WrapParts DEF Window

\* Comparisons of numbers whose positions are near.
LEMMA Compare ==
  ASSUME TcpReassAssumption, NEW i \in Int, NEW j \in Int, i - j < 4 * Window, j - i < 4 * Window
  PROVE  /\ Before(Num(i), Num(j)) <=> i < j
         /\ UpTo(Num(i), Num(j)) <=> i <= j
         /\ seq_valid(Num(i), Num(j)) <=> i - j <= Window /\ j - i <= Window
BY WindowType, NumCompare

\* The position of the number of a near position.
LEMMA AtNum ==
  ASSUME TcpReassAssumption, NEW n \in Int, NEW i \in Int, i - n < 4 * Window, n - i < 4 * Window
  PROVE  At(Num(i), n) = i
<1>1. i - n \in -(Wrap \div 2) .. Wrap \div 2 - 1 BY WindowType
<1>2. SeqDiff(Num(i), Num(n)) = i - n BY <1>1, NumDiff
<1> QED BY <1>2 DEF At

\* A segment of two positions ahead of the stream waits there.
LEMMA SegWaits ==
  ASSUME TcpReassAssumption, NEW n \in Int, NEW i \in n .. n + Window,
         NEW j \in n .. n + Window, i <= j
  PROVE  Waits(Seg(i, j), n) /\ Lo(Seg(i, j), n) = i /\ Hi(Seg(i, j), n) = j
<1>1. i \in Int /\ j \in Int /\ i - n < 4 * Window /\ n - i < 4 * Window
      /\ j - n < 4 * Window /\ n - j < 4 * Window
  BY WindowType
<1>2. At(Num(i), n) = i /\ At(Num(j), n) = j BY <1>1, AtNum
<1>3. Seg(i, j).first = Num(i) /\ Seg(i, j).last = Num(j) BY DEF Seg
<1> QED BY <1>2, <1>3 DEF Waits, Lo, Hi

\* The parts of a waiting segment.
LEMMA WaitsParts ==
  ASSUME TcpReassAssumption, NEW n \in Int, NEW h, Waits(h, n)
  PROVE  /\ Lo(h, n) \in Int /\ Hi(h, n) \in Int
         /\ n <= Lo(h, n) /\ Lo(h, n) <= Hi(h, n) /\ Hi(h, n) <= n + Window
         /\ h = Seg(Lo(h, n), Hi(h, n))
         /\ h.first = Num(Lo(h, n)) /\ h.last = Num(Hi(h, n))
<1>1. Lo(h, n) \in n .. n + Window /\ Hi(h, n) \in n .. n + Window BY DEF Waits
<1>2. h = Seg(Lo(h, n), Hi(h, n)) /\ Lo(h, n) <= Hi(h, n) BY DEF Waits
<1> DEFINE i == Lo(h, n)
           j == Hi(h, n)
<1>3. h = Seg(i, j) BY <1>2
<1>4. i \in n .. n + Window /\ j \in n .. n + Window /\ i <= j BY <1>1, <1>2
<1> HIDE DEF i, j
<1>5. h.first = Num(i) /\ h.last = Num(j) BY <1>3 DEF Seg
<1>6. i \in Int /\ j \in Int /\ n <= i /\ i <= j /\ j <= n + Window BY <1>4, WindowType
<1> QED BY <1>3, <1>5, <1>6 DEF i, j

\* A segment that waits behind a later end of the stream has the same positions there.
LEMMA WaitsLater ==
  ASSUME TcpReassAssumption, NEW n \in Int, NEW m \in Int, n <= m, NEW h, Waits(h, n),
         m <= Lo(h, n)
  PROVE  Waits(h, m) /\ Lo(h, m) = Lo(h, n) /\ Hi(h, m) = Hi(h, n)
<1> DEFINE i == Lo(h, n)
           j == Hi(h, n)
<1>1. i \in Int /\ j \in Int /\ m <= i /\ i <= j /\ j <= n + Window /\ h = Seg(i, j)
  BY WaitsParts
<1> HIDE DEF i, j
<1>2. i \in m .. m + Window /\ j \in m .. m + Window BY <1>1, WindowType
<1> QED BY <1>1, <1>2, SegWaits DEF i, j

\* Comparisons of a waiting segment with a near position.
LEMMA CompareWaits ==
  ASSUME TcpReassAssumption, NEW n \in Int, NEW h, Waits(h, n),
         NEW k \in Int, n - 1 <= k, k <= n + Window + 1
  PROVE  /\ Before(h.last, Num(k)) <=> Hi(h, n) < k
         /\ Before(h.first, Num(k)) <=> Lo(h, n) < k
         /\ Before(Num(k), h.last) <=> k < Hi(h, n)
         /\ Before(Num(k), h.first) <=> k < Lo(h, n)
         /\ UpTo(h.last, Num(k)) <=> Hi(h, n) <= k
         /\ UpTo(h.first, Num(k)) <=> Lo(h, n) <= k
         /\ UpTo(Num(k), h.last) <=> k <= Hi(h, n)
         /\ UpTo(Num(k), h.first) <=> k <= Lo(h, n)
         /\ seq_valid(h.last, Num(k)) <=> Hi(h, n) - k <= Window /\ k - Hi(h, n) <= Window
         /\ seq_valid(h.first, Num(k)) <=> Lo(h, n) - k <= Window /\ k - Lo(h, n) <= Window
<1> DEFINE i == Lo(h, n)
           j == Hi(h, n)
<1>1. i \in Int /\ j \in Int /\ n <= i /\ i <= j /\ j <= n + Window
      /\ h.first = Num(i) /\ h.last = Num(j)
  BY WaitsParts
<1> HIDE DEF i, j
<1>2. i - k < 4 * Window /\ k - i < 4 * Window /\ j - k < 4 * Window /\ k - j < 4 * Window
  BY <1>1, WindowType
<1>3. /\ Before(Num(i), Num(k)) <=> i < k
      /\ Before(Num(k), Num(i)) <=> k < i
      /\ UpTo(Num(i), Num(k)) <=> i <= k
      /\ UpTo(Num(k), Num(i)) <=> k <= i
      /\ seq_valid(Num(i), Num(k)) <=> i - k <= Window /\ k - i <= Window
  BY <1>1, <1>2, Compare
<1>4. /\ Before(Num(j), Num(k)) <=> j < k
      /\ Before(Num(k), Num(j)) <=> k < j
      /\ UpTo(Num(j), Num(k)) <=> j <= k
      /\ UpTo(Num(k), Num(j)) <=> k <= j
      /\ seq_valid(Num(j), Num(k)) <=> j - k <= Window /\ k - j <= Window
  BY <1>1, <1>2, Compare
<1> QED BY <1>1, <1>3, <1>4 DEF i, j

-----------------------------------------------------------------------------
(* TCP: what the operations make of the tree.                              *)

\* The types of the positions of a tree.
LEMMA WaitingTypes ==
  ASSUME TcpReassAssumption, NEW n \in Int, NEW tree, Waiting(tree, n)
  PROVE  \A h \in tree : Lo(h, n) \in Int /\ Hi(h, n) \in Int /\ n <= Lo(h, n) /\ Lo(h, n) <= Hi(h, n)
                         /\ Hi(h, n) <= n + Window
BY WaitsParts DEF Waiting

\* Deleting a segment that the new one contains.
LEMMA DeleteHolds ==
  ASSUME TcpReassAssumption, NEW n \in Int, NEW tree, NEW taken, NEW i \in Int, NEW j \in Int,
         Waiting(tree, n), Holds(tree, n, taken, i .. j),
         NEW h \in tree, i <= Lo(h, n), Hi(h, n) <= j
  PROVE  Waiting(tree \ {h}, n) /\ Holds(tree \ {h}, n, taken, i .. j)
<1>1. Waiting(tree \ {h}, n) BY DEF Waiting
<1>2. Lo(h, n) \in Int /\ Hi(h, n) \in Int BY WaitingTypes
<1>3. \A p \in Int : p \in Lo(h, n) .. Hi(h, n) => p \in i .. j BY <1>2
<1>4. Holds(tree \ {h}, n, taken, i .. j) BY <1>3 DEF Holds
<1> QED BY <1>1, <1>4

\* Cutting from a segment what it shares with the new one.
LEMMA CutHolds ==
  ASSUME TcpReassAssumption, NEW n \in Int, NEW tree, NEW taken, NEW i \in Int, NEW j \in Int,
         Waiting(tree, n), Holds(tree, n, taken, i .. j), NEW h \in tree,
         NEW x, Waits(x, n), Lo(h, n) <= Lo(x, n), Hi(x, n) <= Hi(h, n),
         \A p \in Int : p \in Lo(h, n) .. Hi(h, n) => p \in i .. j \/ p \in Lo(x, n) .. Hi(x, n)
  PROVE  Waiting((tree \ {h}) \cup {x}, n) /\ Holds((tree \ {h}) \cup {x}, n, taken, i .. j)
<1> DEFINE t == (tree \ {h}) \cup {x}
<1>1. Lo(x, n) \in Int /\ Hi(x, n) \in Int BY WaitsParts
<1>2. \A g \in tree : Lo(g, n) \in Int /\ Hi(g, n) \in Int BY WaitingTypes
<1>3. Waiting(t, n)
  <2>1. \A g \in t : Waits(g, n) BY DEF Waiting
  <2>2. \A g \in tree \ {h} : Hi(g, n) < Lo(x, n) \/ Hi(x, n) < Lo(g, n)
    BY <1>1, <1>2 DEF Waiting
  <2>3. \A g, k \in tree : g # k => Hi(g, n) < Lo(k, n) \/ Hi(k, n) < Lo(g, n) BY DEF Waiting
  <2> QED BY <2>1, <2>2, <2>3 DEF Waiting
<1>4. Holds(t, n, taken, i .. j)
  <2> SUFFICES ASSUME NEW p \in Int, p >= n
               PROVE  p \in taken <=> p \in i .. j \/ \E g \in t : p \in Lo(g, n) .. Hi(g, n)
    BY DEF Holds
  <2>1. p \in taken <=> p \in i .. j \/ \E g \in tree : p \in Lo(g, n) .. Hi(g, n) BY DEF Holds
  <2>2. p \in Lo(x, n) .. Hi(x, n) => p \in Lo(h, n) .. Hi(h, n) BY <1>1, <1>2
  <2> QED BY <2>1, <2>2
<1> QED BY <1>3, <1>4

\* Inserting the new segment, which meets no other.
LEMMA InsertHolds ==
  ASSUME TcpReassAssumption, NEW n \in Int, NEW tree, NEW taken,
         NEW i \in n .. n + Window, NEW j \in n .. n + Window, i <= j,
         Waiting(tree, n), Holds(tree, n, taken, i .. j),
         \A h \in tree : Hi(h, n) < i \/ j < Lo(h, n)
  PROVE  Waiting(tree \cup {Seg(i, j)}, n) /\ Holds(tree \cup {Seg(i, j)}, n, taken, {})
<1> DEFINE x == Seg(i, j)
<1>1. Waits(x, n) /\ Lo(x, n) = i /\ Hi(x, n) = j BY SegWaits
<1> HIDE DEF x
<1>2. Waiting(tree \cup {x}, n) BY <1>1 DEF Waiting
<1>3. Holds(tree \cup {x}, n, taken, {})
  <2> SUFFICES ASSUME NEW p \in Int, p >= n
               PROVE  p \in taken <=> \E g \in tree \cup {x} : p \in Lo(g, n) .. Hi(g, n)
    BY DEF Holds
  <2>1. p \in taken <=> p \in i .. j \/ \E g \in tree : p \in Lo(g, n) .. Hi(g, n) BY DEF Holds
  <2> QED BY <1>1, <2>1
<1> QED BY <1>2, <1>3 DEF x

\* Refusing the new segment, which another contains.
LEMMA RefuseHolds ==
  ASSUME TcpReassAssumption, NEW n \in Int, NEW tree, NEW taken, NEW i \in Int, NEW j \in Int,
         Waiting(tree, n), Holds(tree, n, taken, i .. j),
         NEW h \in tree, Lo(h, n) < i, j < Hi(h, n)
  PROVE  Holds(tree, n, taken, {})
<1>1. Lo(h, n) \in Int /\ Hi(h, n) \in Int BY WaitingTypes
<1>2. \A p \in Int : p \in i .. j => p \in Lo(h, n) .. Hi(h, n) BY <1>1
<1> QED BY <1>2 DEF Holds

\* Fetching the segment that the stream has reached.
LEMMA FetchHolds ==
  ASSUME TcpReassAssumption, NEW n \in Int, NEW tree, NEW taken,
         Waiting(tree, n), Holds(tree, n, taken, {}),
         NEW h \in tree, Lo(h, n) = n
  PROVE  Waiting(tree \ {h}, Hi(h, n) + 1) /\ Holds(tree \ {h}, Hi(h, n) + 1, taken, {})
<1> DEFINE m == Hi(h, n) + 1
<1>1. \A g \in tree :
        /\ Lo(g, n) \in Int /\ Hi(g, n) \in Int /\ n <= Lo(g, n)
        /\ Lo(g, n) <= Hi(g, n)
  BY WaitingTypes
<1>2. m \in Int /\ n <= m /\ Hi(h, n) < m BY <1>1
<1>3. \A g \in tree \ {h} : m <= Lo(g, n)
  <2> SUFFICES ASSUME NEW g \in tree \ {h} PROVE m <= Lo(g, n) OBVIOUS
  <2>1. Hi(g, n) < Lo(h, n) \/ Hi(h, n) < Lo(g, n) BY DEF Waiting
  <2>2. Hi(h, n) < Lo(g, n) BY <1>1, <2>1
  <2> QED BY <1>1, <2>2
<1> HIDE DEF m
<1>4. \A g \in tree \ {h} : Waits(g, m) /\ Lo(g, m) = Lo(g, n) /\ Hi(g, m) = Hi(g, n)
  BY <1>2, <1>3, WaitsLater DEF Waiting
<1>5. Waiting(tree \ {h}, m) BY <1>4 DEF Waiting
<1>6. Holds(tree \ {h}, m, taken, {})
  <2> SUFFICES ASSUME NEW p \in Int, p >= m
               PROVE  p \in taken <=> \E g \in tree \ {h} : p \in Lo(g, m) .. Hi(g, m)
    BY DEF Holds
  <2>1. p >= n /\ p \notin Lo(h, n) .. Hi(h, n) BY <1>1, <1>2
  <2>2. p \in taken <=> \E g \in tree : p \in Lo(g, n) .. Hi(g, n) BY <2>1 DEF Holds
  <2> QED BY <1>4, <2>1, <2>2
<1> QED BY <1>5, <1>6 DEF m

\* What passing the stream on to m leaves of one segment.
LEMMA RepairOne ==
  ASSUME TcpReassAssumption, NEW n \in Int, NEW m \in n .. n + Window, NEW h, Waits(h, n)
  PROVE  /\ \A x \in repair_after_passthrough(h, Num(m)) :
              /\ Waits(x, m) /\ Hi(x, m) = Hi(h, n)
              /\ m <= Hi(h, n)
              /\ Lo(x, m) = IF Lo(h, n) < m THEN m ELSE Lo(h, n)
         /\ m <= Hi(h, n) => \E x : repair_after_passthrough(h, Num(m)) = {x}
         /\ ~(m <= Hi(h, n)) => repair_after_passthrough(h, Num(m)) = {}
<1> DEFINE i == Lo(h, n)
           j == Hi(h, n)
           r == repair_after_passthrough(h, Num(m))
<1>1. i \in Int /\ j \in Int /\ n <= i /\ i <= j /\ j <= n + Window /\ h = Seg(i, j)
  BY WaitsParts
<1>2. m \in Int /\ n <= m /\ n - 1 <= m /\ m <= n + Window + 1 /\ m <= n + Window BY WindowType
<1>3. (Before(h.last, Num(m)) <=> j < m) /\ (Before(h.first, Num(m)) <=> i < m)
  BY <1>2, CompareWaits
<1>4. r = IF j < m THEN {} ELSE IF i < m THEN {[h EXCEPT !.first = Num(m)]} ELSE {h}
  BY <1>3 DEF repair_after_passthrough
<1>5. [h EXCEPT !.first = Num(m)] = Seg(m, j) BY <1>1 DEF Seg
<1>6. CASE j < m
  <2>1. r = {} /\ ~(m <= j) BY <1>1, <1>2, <1>4, <1>6
  <2> QED BY <2>1
<1>7. CASE ~(j < m) /\ i < m
  <2>1. r = {Seg(m, j)} BY <1>4, <1>5, <1>7
  <2>2. m <= j /\ m \in m .. m + Window /\ j \in m .. m + Window BY <1>1, <1>2, <1>7, WindowType
  <2> HIDE DEF i, j, r
  <2>3. Waits(Seg(m, j), m) /\ Lo(Seg(m, j), m) = m /\ Hi(Seg(m, j), m) = j
    BY <1>1, <1>2, <2>2, SegWaits
  <2> QED BY <1>7, <2>1, <2>2, <2>3 DEF i, j, r
<1>8. CASE ~(j < m) /\ ~(i < m)
  <2>1. r = {h} BY <1>4, <1>8
  <2>2. m <= j /\ m <= i BY <1>1, <1>2, <1>8
  <2>3. Waits(h, m) /\ Lo(h, m) = i /\ Hi(h, m) = j BY <1>2, <2>2, WaitsLater
  <2> QED BY <1>8, <2>1, <2>2, <2>3
<1> QED BY <1>6, <1>7, <1>8

\* The new end of the stream leaves of the tree what is not behind it.
LEMMA PassthroughHolds ==
  ASSUME TcpReassAssumption, NEW n \in Int, NEW m \in n .. n + Window,
         NEW tree, NEW taken, Waiting(tree, n), Holds(tree, n, taken, {}),
         NEW more, \A p \in more : p < m
  PROVE  LET t == UNION {repair_after_passthrough(h, Num(m)) : h \in tree}
         IN  Waiting(t, m) /\ Holds(t, m, taken \cup more, {})
<1> DEFINE r(h) == repair_after_passthrough(h, Num(m))
           t == UNION {r(h) : h \in tree}
<1>1. m \in Int /\ n <= m BY WindowType
<1>2. \A h \in tree :
        /\ Lo(h, n) \in Int /\ Hi(h, n) \in Int /\ n <= Lo(h, n)
        /\ Lo(h, n) <= Hi(h, n)
  BY WaitingTypes
<1>3. ASSUME NEW h \in tree
      PROVE  /\ \A x \in r(h) : /\ Waits(x, m) /\ Hi(x, m) = Hi(h, n) /\ m <= Hi(h, n)
                                /\ Lo(x, m) = IF Lo(h, n) < m THEN m ELSE Lo(h, n)
             /\ m <= Hi(h, n) => \E x : r(h) = {x}
             /\ ~(m <= Hi(h, n)) => r(h) = {}
  <2>1. Waits(h, n) BY DEF Waiting
  <2> QED BY <2>1, RepairOne
<1> HIDE DEF r
<1>4. \A h \in tree : \A x, y \in r(h) : x = y
  <2> SUFFICES ASSUME NEW h \in tree, NEW x \in r(h), NEW y \in r(h) PROVE x = y OBVIOUS
  <2>1. CASE m <= Hi(h, n)
    <3>1. PICK z : r(h) = {z} BY <1>3, <2>1
    <3> QED BY <3>1
  <2>2. CASE ~(m <= Hi(h, n)) BY <1>3, <2>2
  <2> QED BY <2>1, <2>2
<1>5. Waiting(t, m)
  <2>1. \A x \in t : Waits(x, m) BY <1>3
  <2>2. ASSUME NEW x \in t, NEW y \in t, x # y
        PROVE  Hi(x, m) < Lo(y, m) \/ Hi(y, m) < Lo(x, m)
    <3>1. PICK g \in tree : x \in r(g) OBVIOUS
    <3>2. PICK h \in tree : y \in r(h) OBVIOUS
    <3>3. g # h BY <1>4, <2>2, <3>1, <3>2
    <3>4. Hi(g, n) < Lo(h, n) \/ Hi(h, n) < Lo(g, n) BY <3>3 DEF Waiting
    <3>5. Hi(x, m) = Hi(g, n) /\ m <= Hi(g, n) /\ Lo(x, m) = IF Lo(g, n) < m THEN m ELSE Lo(g, n)
      BY <1>3, <3>1
    <3>6. Hi(y, m) = Hi(h, n) /\ m <= Hi(h, n) /\ Lo(y, m) = IF Lo(h, n) < m THEN m ELSE Lo(h, n)
      BY <1>3, <3>2
    <3> QED BY <1>1, <1>2, <3>4, <3>5, <3>6
  <2> QED BY <2>1, <2>2 DEF Waiting
<1>6. Holds(t, m, taken \cup more, {})
  <2> SUFFICES ASSUME NEW p \in Int, p >= m
               PROVE  p \in taken \cup more <=> \E x \in t : p \in Lo(x, m) .. Hi(x, m)
    BY DEF Holds
  <2>1. p >= n /\ p \notin more BY <1>1
  <2>2. p \in taken <=> \E h \in tree : p \in Lo(h, n) .. Hi(h, n) BY <2>1 DEF Holds
  <2>3. ASSUME NEW h \in tree, p \in Lo(h, n) .. Hi(h, n)
        PROVE  \E x \in t : p \in Lo(x, m) .. Hi(x, m)
    <3>1. m <= Hi(h, n) BY <1>1, <1>2, <2>3
    <3>2. PICK x : r(h) = {x} BY <1>3, <3>1
    <3>3. Hi(x, m) = Hi(h, n) /\ Lo(x, m) = IF Lo(h, n) < m THEN m ELSE Lo(h, n) BY <1>3, <3>2
    <3>4. p \in Lo(x, m) .. Hi(x, m) BY <1>1, <1>2, <2>3, <3>3
    <3> QED BY <3>2, <3>4
  <2>4. ASSUME NEW x \in t, p \in Lo(x, m) .. Hi(x, m)
        PROVE  \E h \in tree : p \in Lo(h, n) .. Hi(h, n)
    <3>1. PICK h \in tree : x \in r(h) OBVIOUS
    <3>2. Hi(x, m) = Hi(h, n) /\ Lo(x, m) = IF Lo(h, n) < m THEN m ELSE Lo(h, n) BY <1>3, <3>1
    <3>3. p \in Lo(h, n) .. Hi(h, n) BY <1>1, <1>2, <2>4, <3>2
    <3> QED BY <3>3
  <2> QED BY <2>1, <2>2, <2>3, <2>4
<1> QED BY <1>5, <1>6 DEF r

-----------------------------------------------------------------------------
(* TCP: the inductive invariant.                                           *)

\* The segment that add_data is placing: it lies ahead of the stream, within the
\* window, and holds what the tree does not.
Placing(i, j) ==
  /\ i \in Int /\ j \in Int /\ fed < i /\ i <= j /\ j <= fed + Window
  /\ seq_first = Num(i) /\ seq_last = Num(j)
  /\ Holds(packet_tree, fed, received, i .. j)

\* The numbers stand for positions near the end of the stream; the segments wait
\* there, apart; and with the one being placed they hold what was taken.
TcpInv ==
  /\ fed \in Nat /\ last_fed_seq_plus_1 = Num(fed)
  /\ received \subseteq Nat
  /\ Waiting(packet_tree, fed)
  /\ IF tcpPc = "search" THEN \E i, j : Placing(i, j)
                         ELSE Holds(packet_tree, fed, received, {})

\* The numbers of an arriving segment.
LEMMA ArrivingNumbers ==
  ASSUME TcpReassAssumption, NEW s \in Segment
  PROVE  /\ s.pos \in Nat /\ s.len \in Nat /\ 1 <= s.len /\ s.len < Window
         /\ SeqNumber(s) = Num(s.pos) /\ LastNumber(s) = Num(s.pos + s.len)
         /\ Plus(LastNumber(s), 1) = Num(s.pos + s.len + 1)
<1> DEFINE p == s.pos
           e == s.pos + s.len
<1>1. p \in Nat /\ s.len \in Nat /\ 1 <= s.len /\ s.len < Window
  BY WindowType DEF TcpReassAssumption
<1>2. Isn + (1 + p) = Isn + 1 + p BY <1>1, WrapParts
<1>3. SeqNumber(s) = Num(p) BY <1>2 DEF SeqNumber, Plus, Num
<1>4. e \in Int BY <1>1
<1>5. LastNumber(s) = Num(e)
  <2> DEFINE l == s.len
  <2>1. l \in Int /\ p \in Int BY <1>1
  <2>2. LastNumber(s) = Plus(Num(p), l) /\ e = p + l BY <1>3 DEF LastNumber
  <2> HIDE DEF l, p, e
  <2> QED BY <2>1, <2>2, NumPlus
<1> HIDE DEF e
<1>6. Plus(LastNumber(s), 1) = Num(e + 1) BY <1>4, <1>5, NumPlus
<1> QED BY <1>1, <1>3, <1>5, <1>6 DEF e

\* What it means that a segment is in the window.
LEMMA Arriving ==
  ASSUME TcpReassAssumption, fed \in Nat, last_fed_seq_plus_1 = Num(fed),
         NEW s \in Segment, Near(s), InWindow(s)
  PROVE  /\ s.pos + s.len - fed <= Window /\ fed - (s.pos + s.len) <= Window
         /\ Before(LastNumber(s), last_fed_seq_plus_1) <=> s.pos + s.len < fed
         /\ UpTo(last_fed_seq_plus_1, LastNumber(s)) <=> fed <= s.pos + s.len
         /\ UpTo(SeqNumber(s), last_fed_seq_plus_1) <=> s.pos <= fed
         /\ Before(last_fed_seq_plus_1, SeqNumber(s)) <=> fed < s.pos
<1> DEFINE p == s.pos
           e == s.pos + s.len
<1>1. /\ p \in Int /\ e \in Int /\ e - p < Window /\ p <= e /\ SeqNumber(s) = Num(p)
      /\ LastNumber(s) = Num(e)
  BY ArrivingNumbers, WindowType
<1>2. e - fed \in -(Wrap \div 2) .. Wrap \div 2 - 1 BY ArrivingNumbers, WrapParts DEF Near
<1>9. s.pos = p /\ s.pos + s.len = e /\ s.pos \in Int /\ s.len \in Int BY ArrivingNumbers
<1> HIDE DEF p, e
<1>3. seq_valid(Num(e), Num(fed)) BY <1>1 DEF InWindow
<1>4. SeqDiff(Num(e), Num(fed)) = e - fed BY <1>1, <1>2, NumDiff
<1>5. e - fed <= Window /\ fed - e <= Window BY <1>1, <1>3, <1>4, WindowType DEF seq_valid
<1>6. e - fed < 4 * Window /\ fed - e < 4 * Window /\ p - fed < 4 * Window /\ fed - p < 4 * Window
  BY <1>1, <1>5, WindowType
<1>7. /\ Before(Num(e), Num(fed)) <=> e < fed
      /\ UpTo(Num(fed), Num(e)) <=> fed <= e
  BY <1>1, <1>6, Compare
<1>8. /\ UpTo(Num(p), Num(fed)) <=> p <= fed
      /\ Before(Num(fed), Num(p)) <=> fed < p
  BY <1>1, <1>6, Compare
<1>10. /\ Before(LastNumber(s), last_fed_seq_plus_1) <=> e < fed
       /\ UpTo(last_fed_seq_plus_1, LastNumber(s)) <=> fed <= e
       /\ UpTo(SeqNumber(s), last_fed_seq_plus_1) <=> p <= fed
       /\ Before(last_fed_seq_plus_1, SeqNumber(s)) <=> fed < p
  BY <1>1, <1>7, <1>8
<1>11. s.pos + s.len - fed <= Window /\ fed - (s.pos + s.len) <= Window BY <1>5, <1>9, WindowType
<1>12. /\ Before(LastNumber(s), last_fed_seq_plus_1) <=> s.pos + s.len < fed
       /\ UpTo(last_fed_seq_plus_1, LastNumber(s)) <=> fed <= s.pos + s.len
  BY <1>10 DEF e
<1>13. /\ UpTo(SeqNumber(s), last_fed_seq_plus_1) <=> s.pos <= fed
       /\ Before(last_fed_seq_plus_1, SeqNumber(s)) <=> fed < s.pos
  BY <1>10 DEF p
<1> QED BY <1>11, <1>12, <1>13

\* AddPassthrough: the stream moves on by at most a window.
LEMMA PassthroughEnd ==
  ASSUME TcpReassAssumption, TcpInv, NEW s \in Segment, Near(s), AddPassthrough(s)
  PROVE  /\ fed' \in fed .. fed + Window /\ fed' \in Nat
         /\ last_fed_seq_plus_1' = Num(fed') /\ Plus(LastNumber(s), 1) = Num(fed')
         /\ fed' = s.pos + s.len + 1
<1>1. fed \in Nat /\ last_fed_seq_plus_1 = Num(fed) BY DEF TcpInv
<1>2. /\ /\ InWindow(s) /\ UpTo(last_fed_seq_plus_1, LastNumber(s))
      /\ UpTo(SeqNumber(s), last_fed_seq_plus_1)
      /\ last_fed_seq_plus_1' = Plus(LastNumber(s), 1) /\ fed' = s.pos + s.len + 1
  BY DEF AddPassthrough
<1>3. fed <= s.pos + s.len /\ s.pos <= fed BY <1>1, <1>2, Arriving
<1>4. /\ s.pos \in Nat /\ s.len \in Nat /\ s.len < Window
      /\ Plus(LastNumber(s), 1) = Num(s.pos + s.len + 1)
  BY ArrivingNumbers
<1>5. fed' \in fed .. fed + Window /\ fed' \in Nat BY <1>1, <1>2, <1>3, <1>4, WindowType
<1> QED BY <1>2, <1>4, <1>5

\* AddPassthrough keeps the invariant.
LEMMA TcpPassthroughInv ==
  ASSUME TcpReassAssumption, TcpInv, NEW s \in Segment, Near(s), AddPassthrough(s)
  PROVE  TcpInv'
<1>1. /\ fed' \in fed .. fed + Window /\ fed' \in Nat
      /\ last_fed_seq_plus_1' = Num(fed') /\ Plus(LastNumber(s), 1) = Num(fed')
      /\ fed' = s.pos + s.len + 1
  BY PassthroughEnd
<1>2. /\ tcpPc = "idle" /\ tcpPc' = tcpPc /\ received' = received \cup s.pos .. s.pos + s.len
      /\ packet_tree' = UNION {repair_after_passthrough(h, Num(fed')) : h \in packet_tree}
  BY <1>1 DEF AddPassthrough, InWindow, Receive
<1>3. /\ fed \in Int /\ Waiting(packet_tree, fed) /\ Holds(packet_tree, fed, received, {})
      /\ received \subseteq Nat
  BY <1>2 DEF TcpInv
<1>4. s.pos \in Nat /\ s.len \in Nat BY ArrivingNumbers
<1>5. \A p \in s.pos .. s.pos + s.len : p < fed' /\ p \in Nat BY <1>1, <1>4
<1> DEFINE m == fed'
           more == s.pos .. s.pos + s.len
<1>6. m \in fed .. fed + Window /\ \A p \in more : p < m BY <1>1, <1>5
<1>7. packet_tree' = UNION {repair_after_passthrough(h, Num(m)) : h \in packet_tree} BY <1>2
<1>8. received' = received \cup more /\ received' \subseteq Nat BY <1>2, <1>3, <1>5
<1> HIDE DEF m, more
<1>9. Waiting(packet_tree', m) /\ Holds(packet_tree', m, received', {})
  BY <1>3, <1>6, <1>7, <1>8, PassthroughHolds
<1>10. Waiting(packet_tree', fed') /\ Holds(packet_tree', fed', received', {}) BY <1>9 DEF m
<1> QED BY <1>1, <1>2, <1>8, <1>10 DEF TcpInv, Waiting, Holds, Waits, Lo, Hi

\* AddAhead: the segment, ahead of the stream, is to be placed.
LEMMA TcpAheadInv ==
  ASSUME TcpReassAssumption, TcpInv, NEW s \in Segment, Near(s), AddAhead(s)
  PROVE  TcpInv'
<1> DEFINE i == s.pos
           j == s.pos + s.len
<1>1. /\ fed \in Nat /\ last_fed_seq_plus_1 = Num(fed) /\ received \subseteq Nat
      /\ Waiting(packet_tree, fed)
  BY DEF TcpInv
<1>2. /\ InWindow(s) /\ Before(last_fed_seq_plus_1, SeqNumber(s))
      /\ seq_first' = SeqNumber(s) /\ seq_last' = LastNumber(s) /\ tcpPc = "idle" /\ tcpPc' = "search"
      /\ received' = received \cup i .. j
      /\ UNCHANGED <<last_fed_seq_plus_1, packet_tree, fed>>
  BY DEF AddAhead, Receive, InWindow
<1>3. /\ i \in Nat /\ j \in Nat /\ i <= j /\ SeqNumber(s) = Num(i) /\ LastNumber(s) = Num(j)
  BY ArrivingNumbers
<1>4. fed < i /\ j - fed <= Window
  <2>1. s.pos \in Int /\ s.len \in Int BY ArrivingNumbers
  <2>2. fed < s.pos BY <1>1, <1>2, Arriving
  <2>3. s.pos + s.len - fed <= Window BY <1>1, <1>2, <2>1, WindowType, Arriving
  <2> QED BY <1>1, <2>1, <2>2, <2>3, WindowType
<1> HIDE DEF i, j
<1>5. j <= fed + Window BY <1>1, <1>3, <1>4, WindowType
<1>6. Holds(packet_tree, fed, received \cup i .. j, i .. j)
  BY <1>2 DEF TcpInv, Holds
<1>7. received' \subseteq Nat BY <1>1, <1>2, <1>3
<1>8. Placing(i, j)'
  BY <1>2, <1>3, <1>4, <1>5, <1>6 DEF Placing, Holds, Lo, Hi, At, SeqDiff, Num, Window
<1>9. Waiting(packet_tree', fed') BY <1>1, <1>2
<1> QED BY <1>1, <1>2, <1>7, <1>8, <1>9 DEF TcpInv, Waiting, Waits, Lo, Hi

\* tcp_rb_explicit_reassctx_fetch keeps the invariant.
LEMMA TcpFetchInv ==
  ASSUME TcpReassAssumption, TcpInv, NEW h \in packet_tree, tcp_rb_explicit_reassctx_fetch(h)
  PROVE  TcpInv'
<1> DEFINE i == Lo(h, fed)
           j == Hi(h, fed)
           m == j + 1
<1>1. /\ /\ fed \in Nat /\ last_fed_seq_plus_1 = Num(fed) /\ received \subseteq Nat
      /\ Waiting(packet_tree, fed)
      /\ Waits(h, fed)
  BY DEF TcpInv, Waiting
<1>2. /\ tcpPc = "idle" /\ tcpPc' = "idle" /\ received' = received
      /\ packet_tree' = packet_tree \ {h}
      /\ h.first = last_fed_seq_plus_1 /\ last_fed_seq_plus_1' = Plus(h.last, 1) /\ fed' = m
  BY <1>1 DEF tcp_rb_explicit_reassctx_fetch, Position, Hi, At
<1>3. fed \in Int /\ i \in Int /\ j \in Int /\ fed <= i /\ i <= j /\ h.last = Num(j)
  BY <1>1, WaitsParts
<1>4. i = fed
  <2>1. fed - fed < 4 * Window BY <1>1, WindowType
  <2>2. At(Num(fed), fed) = fed BY <1>3, <2>1, AtNum
  <2> QED BY <1>1, <1>2, <2>2 DEF Lo
<1>5. Holds(packet_tree, fed, received, {}) BY <1>2 DEF TcpInv
<1>6. Waiting(packet_tree \ {h}, m) /\ Holds(packet_tree \ {h}, m, received, {})
  BY <1>1, <1>3, <1>4, <1>5, FetchHolds
<1> HIDE DEF i, j
<1>7. m \in Nat /\ last_fed_seq_plus_1' = Num(m) BY <1>1, <1>2, <1>3, NumPlus
<1> HIDE DEF m
<1>8. Waiting(packet_tree', fed') /\ Holds(packet_tree', fed', received', {}) BY <1>2, <1>6
<1> QED BY <1>1, <1>2, <1>7, <1>8 DEF TcpInv, Waiting, Holds, Waits, Lo, Hi

\* An empty tree with nothing taken, after init and free.
LEMMA TcpEmpty ==
  ASSUME TcpReassAssumption
  PROVE  Plus(Isn, 1) = Num(0) /\ Waiting({}, 0) /\ Holds({}, 0, {}, {})
<1>1. Isn + 1 = Isn + 1 + 0 BY WrapParts
<1> QED BY <1>1 DEF Plus, Num, Waiting, Holds

\* The comparisons of add_data, for the segment being placed.
LEMMA PlacingCompares ==
  ASSUME TcpReassAssumption, TcpInv, NEW i, NEW j, Placing(i, j), NEW h \in packet_tree
  PROVE  /\ Waits(h, fed) /\ Lo(h, fed) \in Int /\ Hi(h, fed) \in Int
         /\ fed <= Lo(h, fed) /\ Lo(h, fed) <= Hi(h, fed) /\ Hi(h, fed) <= fed + Window
         /\ Touches(h) <=> i <= Hi(h, fed) /\ Lo(h, fed) <= j
         /\ UpTo(h.last, seq_last) <=> Hi(h, fed) <= j
         /\ UpTo(seq_first, h.first) <=> i <= Lo(h, fed)
         /\ Before(h.first, seq_first) <=> Lo(h, fed) < i
         /\ Before(seq_last, h.last) <=> j < Hi(h, fed)
<1>1. fed \in Int /\ Waits(h, fed) BY DEF TcpInv, Waiting
<1>2. /\ i \in Int /\ j \in Int /\ fed < i /\ i <= j /\ j <= fed + Window
      /\ seq_first = Num(i) /\ seq_last = Num(j)
  BY DEF Placing
<1>3. fed - 1 <= i /\ i <= fed + Window + 1 /\ fed - 1 <= j /\ j <= fed + Window + 1
  BY <1>1, <1>2, WindowType
<1>4. /\ UpTo(Num(i), h.last) <=> i <= Hi(h, fed)
      /\ UpTo(Num(i), h.first) <=> i <= Lo(h, fed)
      /\ Before(h.first, Num(i)) <=> Lo(h, fed) < i
  BY <1>1, <1>2, <1>3, CompareWaits
<1>5. /\ UpTo(h.first, Num(j)) <=> Lo(h, fed) <= j
      /\ UpTo(h.last, Num(j)) <=> Hi(h, fed) <= j
      /\ Before(Num(j), h.last) <=> j < Hi(h, fed)
  BY <1>1, <1>2, <1>3, CompareWaits
<1>6. /\ Lo(h, fed) \in Int /\ Hi(h, fed) \in Int
      /\ fed <= Lo(h, fed) /\ Lo(h, fed) <= Hi(h, fed) /\ Hi(h, fed) <= fed + Window
  BY <1>1, WaitsParts
<1> QED BY <1>1, <1>2, <1>4, <1>5, <1>6 DEF Touches

\* A step of the search that leaves the new segment to be placed.
LEMMA StillPlacing ==
  ASSUME TcpInv, SearchSegments, tcpPc' = tcpPc, NEW i, NEW j, Placing(i, j),
         Waiting(packet_tree', fed), Holds(packet_tree', fed, received, i .. j)
  PROVE  TcpInv'
<1>1. tcpPc = "search" /\ UNCHANGED <<last_fed_seq_plus_1, seq_first, seq_last, fed, received>>
  BY DEF SearchSegments
<1>2. Placing(i, j)' BY <1>1 DEF Placing, Holds, Lo, Hi, At, SeqDiff, Num, Window
<1>3. Waiting(packet_tree', fed') BY <1>1
<1> QED BY <1>1, <1>2, <1>3 DEF TcpInv, Waiting, Waits, Lo, Hi

\* A step of the search that ends it.
LEMMA Placed ==
  ASSUME TcpInv, SearchSegments, tcpPc' = "idle",
         Waiting(packet_tree', fed), Holds(packet_tree', fed, received, {})
  PROVE  TcpInv'
<1>1. tcpPc = "search" /\ UNCHANGED <<last_fed_seq_plus_1, seq_first, seq_last, fed, received>>
  BY DEF SearchSegments
<1>2. Waiting(packet_tree', fed') /\ Holds(packet_tree', fed', received', {}) BY <1>1
<1> QED BY <1>1, <1>2 DEF TcpInv, Waiting, Holds, Waits, Lo, Hi

\* add_data deletes a segment that the new one contains.
LEMMA TcpDeleteInv ==
  ASSUME TcpReassAssumption, TcpInv, NEW h \in packet_tree, DeleteSegment(h)
  PROVE  TcpInv'
<1>1. SearchSegments /\ tcpPc = "search" /\ tcpPc' = tcpPc /\ packet_tree' = packet_tree \ {h}
      /\ UpTo(h.last, seq_last) /\ UpTo(seq_first, h.first)
  BY DEF DeleteSegment, SearchSegments, Swallowed
<1>2. PICK i, j : Placing(i, j) BY <1>1 DEF TcpInv
<1>3. i <= Lo(h, fed) /\ Hi(h, fed) <= j BY <1>1, <1>2, PlacingCompares
<1>4. /\ fed \in Int /\ Waiting(packet_tree, fed) /\ i \in Int /\ j \in Int
      /\ Holds(packet_tree, fed, received, i .. j)
  BY <1>2 DEF TcpInv, Placing
<1>5. Waiting(packet_tree', fed) /\ Holds(packet_tree', fed, received, i .. j)
  BY <1>1, <1>3, <1>4, DeleteHolds
<1> QED BY <1>1, <1>2, <1>5, StillPlacing

\* add_data cuts the end off a segment that the new one follows.
LEMMA TcpCutLastInv ==
  ASSUME TcpReassAssumption, TcpInv, NEW h \in packet_tree, CutLast(h)
  PROVE  TcpInv'
<1>1. SearchSegments /\ tcpPc = "search" /\ tcpPc' = tcpPc
      /\ packet_tree' = (packet_tree \ {h}) \cup {[h EXCEPT !.last = Plus(seq_first, -1)]}
      /\ Touches(h) /\ UpTo(h.last, seq_last) /\ Before(h.first, seq_first)
  BY DEF CutLast, SearchSegments
<1>2. PICK i, j : Placing(i, j) BY <1>1 DEF TcpInv
<1> DEFINE a == Lo(h, fed)
           b == Hi(h, fed)
           e == i - 1
           x == Seg(a, e)
<1>3. /\ a \in Int /\ b \in Int /\ fed <= a /\ b <= fed + Window
      /\ i <= b /\ b <= j /\ a < i /\ Waits(h, fed)
  BY <1>1, <1>2, PlacingCompares
<1>4. /\ fed \in Int /\ Waiting(packet_tree, fed) /\ i \in Int /\ j \in Int /\ seq_first = Num(i)
      /\ Holds(packet_tree, fed, received, i .. j)
  BY <1>2 DEF TcpInv, Placing
<1>5. h = Seg(a, b) BY <1>3, <1>4, WaitsParts
<1>6. Plus(seq_first, -1) = Num(e)
  <2> DEFINE k == -1
  <2>1. k \in Int /\ i + k = e BY <1>4
  <2> HIDE DEF k
  <2>2. Plus(Num(i), k) = Num(i + k) BY <1>4, <2>1, NumPlus
  <2> QED BY <1>4, <2>1, <2>2 DEF k
<1>7. e \in Int /\ a <= e /\ e < b /\ e \in fed .. fed + Window /\ a \in fed .. fed + Window
  BY <1>3, <1>4, WindowType
<1> HIDE DEF a, b
<1>8. [h EXCEPT !.last = Plus(seq_first, -1)] = x BY <1>5, <1>6 DEF Seg
<1>9. \A p \in Int : p \in a .. b => p \in i .. j \/ p \in a .. e BY <1>3, <1>4
<1> HIDE DEF e
<1>10. Waits(x, fed) /\ Lo(x, fed) = a /\ Hi(x, fed) = e BY <1>4, <1>7, SegWaits
<1> HIDE DEF x
<1>11. packet_tree' = (packet_tree \ {h}) \cup {x} BY <1>1, <1>8
<1>12. a <= a /\ e <= b BY <1>3, <1>7
<1>13. /\ Lo(h, fed) <= Lo(x, fed) /\ Hi(x, fed) <= Hi(h, fed)
       /\ \A p \in Int : p \in Lo(h, fed) .. Hi(h, fed) => p \in i .. j \/ p \in Lo(x, fed) .. Hi(x, fed)
  BY <1>9, <1>10, <1>12 DEF a, b
<1>14. Waiting(packet_tree', fed) /\ Holds(packet_tree', fed, received, i .. j)
  BY <1>4, <1>10, <1>11, <1>13, CutHolds
<1> QED BY <1>1, <1>2, <1>14, StillPlacing

\* add_data cuts the start off a segment that follows the new one.
LEMMA TcpCutFirstInv ==
  ASSUME TcpReassAssumption, TcpInv, NEW h \in packet_tree, CutFirst(h)
  PROVE  TcpInv'
<1>1. SearchSegments /\ tcpPc = "search" /\ tcpPc' = tcpPc
      /\ packet_tree' = (packet_tree \ {h}) \cup {[h EXCEPT !.first = Plus(seq_last, 1)]}
      /\ Touches(h) /\ UpTo(seq_first, h.first) /\ Before(seq_last, h.last)
  BY DEF CutFirst, SearchSegments
<1>2. PICK i, j : Placing(i, j) BY <1>1 DEF TcpInv
<1> DEFINE a == Lo(h, fed)
           b == Hi(h, fed)
           e == j + 1
           x == Seg(e, b)
<1>3. /\ a \in Int /\ b \in Int /\ fed <= a /\ b <= fed + Window
      /\ a <= j /\ j < b /\ i <= a /\ Waits(h, fed)
  BY <1>1, <1>2, PlacingCompares
<1>4. /\ fed \in Int /\ Waiting(packet_tree, fed) /\ i \in Int /\ j \in Int /\ seq_last = Num(j)
      /\ Holds(packet_tree, fed, received, i .. j)
  BY <1>2 DEF TcpInv, Placing
<1>5. h = Seg(a, b) BY <1>3, <1>4, WaitsParts
<1>6. Plus(seq_last, 1) = Num(e) BY <1>4, NumPlus
<1>7. e \in Int /\ e <= b /\ a < e /\ e \in fed .. fed + Window /\ b \in fed .. fed + Window
  BY <1>3, <1>4, WindowType
<1> HIDE DEF a, b
<1>8. [h EXCEPT !.first = Plus(seq_last, 1)] = x BY <1>5, <1>6 DEF Seg
<1>9. \A p \in Int : p \in a .. b => p \in i .. j \/ p \in e .. b BY <1>3, <1>4
<1> HIDE DEF e
<1>10. Waits(x, fed) /\ Lo(x, fed) = e /\ Hi(x, fed) = b BY <1>4, <1>7, SegWaits
<1> HIDE DEF x
<1>11. packet_tree' = (packet_tree \ {h}) \cup {x} BY <1>1, <1>8
<1>12. a <= e /\ b <= b BY <1>3, <1>7
<1>13. /\ Lo(h, fed) <= Lo(x, fed) /\ Hi(x, fed) <= Hi(h, fed)
       /\ \A p \in Int : p \in Lo(h, fed) .. Hi(h, fed) => p \in i .. j \/ p \in Lo(x, fed) .. Hi(x, fed)
  BY <1>9, <1>10, <1>12 DEF a, b
<1>14. Waiting(packet_tree', fed) /\ Holds(packet_tree', fed, received, i .. j)
  BY <1>4, <1>10, <1>11, <1>13, CutHolds
<1> QED BY <1>1, <1>2, <1>14, StillPlacing

\* add_data refuses a segment that lies inside one that waits.
LEMMA TcpRefuseInv ==
  ASSUME TcpReassAssumption, TcpInv, NEW h \in packet_tree, Refuse(h)
  PROVE  TcpInv'
<1>1. SearchSegments /\ tcpPc = "search" /\ tcpPc' = "idle" /\ packet_tree' = packet_tree
      /\ Before(seq_last, h.last) /\ Before(h.first, seq_first)
  BY DEF Refuse, SearchSegments
<1>2. PICK i, j : Placing(i, j) BY <1>1 DEF TcpInv
<1>3. Lo(h, fed) < i /\ j < Hi(h, fed) BY <1>1, <1>2, PlacingCompares
<1>4. /\ fed \in Int /\ Waiting(packet_tree, fed) /\ i \in Int /\ j \in Int
      /\ Holds(packet_tree, fed, received, i .. j)
  BY <1>2 DEF TcpInv, Placing
<1>5. Holds(packet_tree, fed, received, {}) BY <1>3, <1>4, RefuseHolds
<1>6. Waiting(packet_tree', fed) /\ Holds(packet_tree', fed, received, {}) BY <1>1, <1>4, <1>5
<1> QED BY <1>1, <1>6, Placed

\* The segment that overlaps no other is inserted.
LEMMA TcpInsertInv ==
  ASSUME TcpReassAssumption, TcpInv, InsertSegment
  PROVE  TcpInv'
<1>1. SearchSegments /\ tcpPc = "search" /\ tcpPc' = "idle"
      /\ packet_tree' = packet_tree \cup {[first |-> seq_first, last |-> seq_last]}
      /\ \A h \in packet_tree : ~Touches(h)
  BY DEF InsertSegment, SearchSegments
<1>2. PICK i, j : Placing(i, j) BY <1>1 DEF TcpInv
<1>3. /\ fed \in Int /\ Waiting(packet_tree, fed) /\ i \in Int /\ j \in Int /\ i <= j
      /\ Holds(packet_tree, fed, received, i .. j) /\ packet_tree' = packet_tree \cup {Seg(i, j)}
  BY <1>1, <1>2 DEF TcpInv, Placing, Seg
<1>4. i \in fed .. fed + Window /\ j \in fed .. fed + Window
  BY <1>2, <1>3, WindowType DEF Placing
<1>5. \A h \in packet_tree : Hi(h, fed) < i \/ j < Lo(h, fed)
  <2> SUFFICES ASSUME NEW h \in packet_tree PROVE Hi(h, fed) < i \/ j < Lo(h, fed) OBVIOUS
  <2>1. Lo(h, fed) \in Int /\ Hi(h, fed) \in Int /\ ~(i <= Hi(h, fed) /\ Lo(h, fed) <= j)
    BY <1>1, <1>2, PlacingCompares
  <2> QED BY <1>3, <2>1
<1>6. Waiting(packet_tree', fed) /\ Holds(packet_tree', fed, received, {})
  BY <1>3, <1>4, <1>5, InsertHolds
<1> QED BY <1>1, <1>6, Placed

\* The invariant holds at first and every step keeps it.
LEMMA TcpInvInductive ==
  ASSUME TcpReassAssumption
  PROVE  (tcp_rb_explicit_reassctx_init => TcpInv) /\ (TcpInv /\ [TcpNext]_tcpVars => TcpInv')
<1>1. tcp_rb_explicit_reassctx_init => TcpInv
  BY TcpEmpty DEF tcp_rb_explicit_reassctx_init, TcpInv
<1>2. ASSUME TcpInv, tcp_rb_explicit_reassctx_free PROVE TcpInv'
  <2>1. /\ last_fed_seq_plus_1' = Plus(Isn, 1) /\ packet_tree' = {} /\ fed' = 0 /\ received' = {}
        /\ tcpPc' = "idle"
    BY <1>2 DEF tcp_rb_explicit_reassctx_free
  <2>2. Waiting(packet_tree', fed') /\ Holds(packet_tree', fed', received', {}) BY <2>1, TcpEmpty
  <2> QED BY <2>1, <2>2, TcpEmpty DEF TcpInv, Waiting, Holds, Waits, Lo, Hi
<1>3. ASSUME TcpInv, UNCHANGED tcpVars PROVE TcpInv'
  BY <1>3 DEF TcpInv, tcpVars, Placing, Waiting, Holds, Waits, Lo, Hi
<1>4. ASSUME TcpInv, NEW s \in Segment, AddAbort(s) PROVE TcpInv'
  BY <1>4 DEF AddAbort, TcpInv, Waiting, Holds, Waits, Lo, Hi
<1>5. ASSUME TcpInv, NEW s \in Segment, AddOld(s) PROVE TcpInv'
  BY <1>3, <1>5 DEF AddOld
<1>6. ASSUME TcpInv, TcpNext PROVE TcpInv'
  BY <1>2, <1>4, <1>5, <1>6, TcpPassthroughInv, TcpAheadInv, TcpFetchInv, TcpDeleteInv,
     TcpCutLastInv,
     TcpCutFirstInv, TcpRefuseInv, TcpInsertInv DEF TcpNext, TcpStep
<1> QED BY <1>1, <1>3, <1>6

\* The tree holds exactly what was taken and not yet fed.
LEMMA TcpExact ==
  ASSUME TcpReassAssumption, TcpInv
  PROVE  TreeIsExact
<1> SUFFICES ASSUME tcpPc = "idle"
             PROVE  {p \in received : p >= fed} = UNION {Positions(h) : h \in packet_tree}
  BY DEF TreeIsExact
<1>1. /\ fed \in Int /\ received \subseteq Nat /\ Waiting(packet_tree, fed)
      /\ Holds(packet_tree, fed, received, {})
  BY DEF TcpInv
<1>2. \A h \in packet_tree : Positions(h) = Lo(h, fed) .. Hi(h, fed)
  BY DEF Positions, Position, Lo, Hi, At, TcpInv
<1>3. \A h \in packet_tree : Lo(h, fed) \in Int /\ Hi(h, fed) \in Int /\ fed <= Lo(h, fed)
  BY <1>1, WaitingTypes
<1>4. ASSUME NEW p, p \in received, p >= fed PROVE \E h \in packet_tree : p \in Positions(h)
  <2>1. p \in Int BY <1>1, <1>4
  <2>2. \E h \in packet_tree : p \in Lo(h, fed) .. Hi(h, fed) BY <1>1, <1>4, <2>1 DEF Holds
  <2> QED BY <1>2, <2>2
<1>5. ASSUME NEW h \in packet_tree, NEW p \in Positions(h) PROVE p \in received /\ p >= fed
  <2>1. p \in Lo(h, fed) .. Hi(h, fed) BY <1>2
  <2>2. p \in Int /\ p >= fed BY <1>1, <1>3, <2>1
  <2>3. p \in received BY <1>1, <2>1, <2>2 DEF Holds
  <2> QED BY <2>2, <2>3
<1> QED BY <1>4, <1>5

\* fetch overlooks nothing.
LEMMA TcpFetchSees ==
  ASSUME TcpReassAssumption, TcpInv
  PROVE  FetchSeesAll
<1> SUFFICES ASSUME NEW h \in packet_tree
             PROVE  UpTo(last_fed_seq_plus_1, h.first) /\ UpTo(h.first, h.last)
  BY DEF FetchSeesAll
<1> DEFINE i == Lo(h, fed)
           j == Hi(h, fed)
<1>1. fed \in Int /\ last_fed_seq_plus_1 = Num(fed) /\ Waits(h, fed) BY DEF TcpInv, Waiting
<1>2. /\ i \in Int /\ j \in Int /\ fed <= i /\ i <= j /\ j <= fed + Window
      /\ h.first = Num(i) /\ h.last = Num(j)
  BY <1>1, WaitsParts
<1> HIDE DEF i, j
<1>3. i - j < 4 * Window /\ j - i < 4 * Window /\ fed - i < 4 * Window /\ i - fed < 4 * Window
  BY <1>1, <1>2, WindowType
<1>4. UpTo(Num(fed), Num(i)) BY <1>1, <1>2, <1>3, Compare
<1>5. UpTo(Num(i), Num(j)) BY <1>2, <1>3, Compare
<1> QED BY <1>1, <1>2, <1>4, <1>5

\* No comparison aborts.
LEMMA TcpComparisons ==
  ASSUME TcpReassAssumption, TcpInv
  PROVE  ComparisonsDefined
<1>1. fed \in Int /\ Waiting(packet_tree, fed) BY DEF TcpInv
<1>2. \A h \in packet_tree :
        /\ Waits(h, fed) /\ Lo(h, fed) \in Int /\ Hi(h, fed) \in Int
        /\ fed <= Lo(h, fed) /\ Lo(h, fed) <= Hi(h, fed) /\ Hi(h, fed) <= fed + Window
        /\ h.first = Num(Lo(h, fed)) /\ h.last = Num(Hi(h, fed))
  BY <1>1, WaitsParts DEF Waiting
<1>3. ASSUME NEW g \in packet_tree, NEW h \in packet_tree
      PROVE  /\ seq_valid(g.last, h.first) /\ seq_valid(g.first, h.last)
             /\ g # h => Before(g.last, h.first) \/ Before(h.last, g.first)
  <2> DEFINE i == Lo(h, fed)
             j == Hi(h, fed)
             a == Lo(g, fed)
             b == Hi(g, fed)
  <2>1. /\ i \in Int /\ j \in Int /\ fed <= i /\ i <= j /\ j <= fed + Window
        /\ h.first = Num(i) /\ h.last = Num(j)
        /\ a \in Int /\ b \in Int /\ fed <= a /\ a <= b /\ b <= fed + Window
        /\ Waits(g, fed) /\ Waits(h, fed) /\ g.first = Num(a)
    BY <1>2
  <2>2. g # h => b < i \/ j < a BY <1>1 DEF Waiting
  <2>3. /\ seq_valid(g.last, Num(i)) <=> b - i <= Window /\ i - b <= Window
        /\ Before(g.last, Num(i)) <=> b < i
    <3> HIDE DEF i, j, a, b
    <3>1. fed - 1 <= i /\ i <= fed + Window + 1 BY <1>1, <2>1, WindowType
    <3> USE DEF b
    <3> QED BY <1>1, <2>1, <3>1, CompareWaits
  <2>4. /\ seq_valid(g.first, Num(j)) <=> a - j <= Window /\ j - a <= Window
    <3> HIDE DEF i, j, a, b
    <3>1. fed - 1 <= j /\ j <= fed + Window + 1 BY <1>1, <2>1, WindowType
    <3> USE DEF a
    <3> QED BY <1>1, <2>1, <3>1, CompareWaits
  <2>5. /\ Before(h.last, Num(a)) <=> j < a
    <3> HIDE DEF i, j, a, b
    <3>1. fed - 1 <= a /\ a <= fed + Window + 1 BY <1>1, <2>1, WindowType
    <3> USE DEF j
    <3> QED BY <1>1, <2>1, <3>1, CompareWaits
  <2> HIDE DEF i, j, a, b
  <2>6. b - i <= Window /\ i - b <= Window /\ a - j <= Window /\ j - a <= Window
    BY <1>1, <2>1, WindowType
  <2> QED BY <2>1, <2>2, <2>3, <2>4, <2>5, <2>6
<1>4. ASSUME tcpPc = "search", NEW h \in packet_tree
      PROVE  /\ seq_valid(h.last, seq_first) /\ seq_valid(h.first, seq_last)
             /\ seq_valid(h.last, seq_last) /\ seq_valid(h.first, seq_first)
             /\ UpTo(h.last, seq_last) => seq_valid(Plus(h.last, 1), seq_first)
             /\ UpTo(seq_first, h.first) => seq_valid(h.first, Plus(seq_last, 1))
  <2>1. PICK i, j : Placing(i, j) BY <1>4 DEF TcpInv
  <2> DEFINE a == Lo(h, fed)
             b == Hi(h, fed)
             c == b + 1
             e == j + 1
  <2>2. /\ i \in Int /\ j \in Int /\ fed < i /\ i <= j /\ j <= fed + Window
        /\ seq_first = Num(i) /\ seq_last = Num(j)
    BY <2>1 DEF Placing
  <2>3. /\ a \in Int /\ b \in Int /\ fed <= a /\ a <= b /\ b <= fed + Window
        /\ h.first = Num(a) /\ h.last = Num(b) /\ Waits(h, fed)
    BY <1>2
  <2>4. (UpTo(h.last, seq_last) <=> b <= j) /\ (UpTo(seq_first, h.first) <=> i <= a)
    BY <2>1, PlacingCompares
  <2> HIDE DEF a, b
  <2>5. Plus(h.last, 1) = Num(c) /\ Plus(seq_last, 1) = Num(e) BY <2>2, <2>3, NumPlus
  <2>6. c \in Int /\ e \in Int BY <2>2, <2>3
  <2>7. /\ b - i <= Window /\ i - b <= Window /\ a - j <= Window /\ j - a <= Window
        /\ b - j <= Window /\ j - b <= Window /\ a - i <= Window /\ i - a <= Window
    BY <1>1, <2>2, <2>3, WindowType
  <2>8. /\ c - i < 4 * Window /\ i - c < 4 * Window /\ a - e < 4 * Window /\ e - a < 4 * Window
        /\ b <= j => c - i <= Window /\ i - c <= Window
        /\ i <= a => a - e <= Window /\ e - a <= Window
    BY <1>1, <2>2, <2>3, WindowType
  <2> HIDE DEF c, e
  <2>9. /\ seq_valid(Num(b), Num(i)) /\ seq_valid(Num(b), Num(j))
    <3>1. /\ b - i < 4 * Window /\ i - b < 4 * Window /\ b - j < 4 * Window /\ j - b < 4 * Window
      BY <2>2, <2>3, <2>7, WindowType
    <3>2. seq_valid(Num(b), Num(i)) BY <2>2, <2>3, <2>7, <3>1, Compare
    <3>3. seq_valid(Num(b), Num(j)) BY <2>2, <2>3, <2>7, <3>1, Compare
    <3> QED BY <3>2, <3>3
  <2>10. /\ seq_valid(Num(a), Num(i)) /\ seq_valid(Num(a), Num(j))
    <3>1. /\ a - i < 4 * Window /\ i - a < 4 * Window /\ a - j < 4 * Window /\ j - a < 4 * Window
      BY <2>2, <2>3, <2>7, WindowType
    <3>2. seq_valid(Num(a), Num(i)) BY <2>2, <2>3, <2>7, <3>1, Compare
    <3>3. seq_valid(Num(a), Num(j)) BY <2>2, <2>3, <2>7, <3>1, Compare
    <3> QED BY <3>2, <3>3
  <2>11. b <= j => seq_valid(Num(c), Num(i)) BY <2>2, <2>6, <2>8, Compare
  <2>12. i <= a => seq_valid(Num(a), Num(e)) BY <2>3, <2>6, <2>8, Compare
  <2> QED BY <2>2, <2>3, <2>4, <2>5, <2>9, <2>10, <2>11, <2>12
<1> QED BY <1>3, <1>4 DEF ComparisonsDefined

\* tcprbexplicit.c, for every space of sequence numbers, every first number and
\* every set of segments shorter than the window: between two calls the tree
\* holds exactly what was taken and not yet fed, in whatever order the search
\* meets what overlaps; fetch overlooks nothing and no comparison aborts.
THEOREM TcpSegmentsExact ==
  ASSUME TcpReassAssumption
  PROVE  TcpSpec => []SegmentsExact
<1>1. TcpInv => SegmentsExact BY TcpExact, TcpFetchSees, TcpComparisons DEF SegmentsExact
<1> QED BY <1>1, TcpInvInductive, PTL DEF TcpSpec

\* repair_after_passthrough: no comparison with the new end of the stream aborts.
THEOREM TcpRepairDefined ==
  ASSUME TcpReassAssumption
  PROVE  TcpSpec => RepairDefined
<1>1. ASSUME TcpInv, NEW s \in Segment, NEW h \in packet_tree, Near(s), AddPassthrough(s)
      PROVE  /\ seq_valid(h.last, last_fed_seq_plus_1')
             /\ seq_valid(h.first, last_fed_seq_plus_1')
  <2> DEFINE m == fed'
             a == Lo(h, fed)
             b == Hi(h, fed)
  <2>1. fed \in Int /\ Waits(h, fed) BY <1>1 DEF TcpInv, Waiting
  <2>2. m \in Int /\ fed <= m /\ m <= fed + Window /\ last_fed_seq_plus_1' = Num(m)
    BY <1>1, <2>1, WindowType, PassthroughEnd
  <2>3. a \in Int /\ b \in Int /\ fed <= a /\ a <= b /\ b <= fed + Window BY <2>1, WaitsParts
  <2> HIDE DEF m
  <2>4. fed - 1 <= m /\ m <= fed + Window + 1 BY <2>1, <2>2, WindowType
  <2>5. /\ seq_valid(h.last, Num(m)) <=> b - m <= Window /\ m - b <= Window
        /\ seq_valid(h.first, Num(m)) <=> a - m <= Window /\ m - a <= Window
    BY <2>1, <2>2, <2>4, CompareWaits
  <2> HIDE DEF a, b
  <2>6. b - m <= Window /\ m - b <= Window /\ a - m <= Window /\ m - a <= Window
    BY <2>1, <2>2, <2>3, WindowType
  <2> QED BY <2>2, <2>5, <2>6
<1>2. TcpInv /\ [TcpNext]_tcpVars =>
        [\A h \in packet_tree, s \in Segment : Near(s) /\ AddPassthrough(s) =>
           /\ seq_valid(h.last, last_fed_seq_plus_1')
           /\ seq_valid(h.first, last_fed_seq_plus_1')]_tcpVars
  BY <1>1
<1> QED BY <1>2, TcpInvInductive, PTL DEF TcpSpec, RepairDefined
=============================================================================
