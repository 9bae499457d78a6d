----------------------------- MODULE RbExplicit -----------------------------
(***************************************************************************)
(* iprbexplicit: reassembly with a red-black tree of holes.  add_data      *)
(* looks for a hole that overlaps the data, changes it and starts again.   *)
(* Which of several such holes the search meets first depends on the shape *)
(* of the tree, so the tree is a set of holes here and any of them may be  *)
(* next.  With the ipv6 flag the search runs once and overlap is refused.  *)
(* A packet that changed nothing is freed; kept holds the bytes that the   *)
(* packets on packet_list can supply.                                      *)
(***************************************************************************)
EXTENDS Integers

CONSTANTS Unit, Top, Input,
          Ipv6   \* ctx->ipv6

RbExplicitAssumption ==
  /\ Unit \in Nat \ {0} /\ Top \in Nat /\ Ipv6 \in BOOLEAN
  /\ Input \subseteq [first : {u \in 0 .. Top : u % Unit = 0}, len : 0 .. Top + 1, more : BOOLEAN]

VARIABLES hole_tree, most_restricting_last, kept,
          pc, frag, mod, overlap   \* the call of add in progress, or the last one

vars == <<hole_tree, most_restricting_last, kept, pc, frag, mod, overlap>>

Bytes(h) == h.first .. h.last
Missing == UNION {Bytes(h) : h \in hole_tree}

data_first == frag.first
data_last == frag.first + frag.len - 1
Data == data_first .. data_last

Usable(f) == f.len > 0 /\ f.first + f.len - 1 <= Top

Initial == {[first |-> 0, last |-> Top]}
NoFragment == [first |-> 0, len |-> 0, more |-> FALSE]

rb_explicit_reassctx_init ==
  /\ hole_tree = Initial /\ most_restricting_last = Top /\ kept = {}
  /\ pc = "idle" /\ frag = NoFragment /\ mod = FALSE /\ overlap = FALSE

rb_explicit_reassctx_complete == hole_tree = {}

\* The holes past the new end go and one across it is cut.
repair_most_restricting(last) ==
  {[h EXCEPT !.last = IF @ > last THEN last ELSE @] : h \in {g \in hole_tree : g.first <= last}}

-----------------------------------------------------------------------------
\* A packet that fails the length tests is freed.
AddUnusable(f) ==
  /\ pc = "idle" /\ ~Usable(f)
  /\ frag' = f
  /\ UNCHANGED <<hole_tree, most_restricting_last, kept, pc, mod, overlap>>

rb_explicit_reassctx_add(f) ==
  /\ pc = "idle" /\ Usable(f)
  /\ LET last == f.first + f.len - 1
         lowers == ~f.more /\ most_restricting_last > last
     IN  /\ most_restricting_last' = IF lowers THEN last ELSE most_restricting_last
         /\ hole_tree' = IF lowers THEN repair_most_restricting(last) ELSE hole_tree
         /\ mod' = lowers
  /\ frag' = f /\ overlap' = FALSE /\ pc' = "search"
  /\ UNCHANGED kept

Overlaps(h) == h.last >= data_first /\ h.first <= data_last

\* After a change the search starts again, unless the flag is set.
Again == pc' = IF Ipv6 THEN "found" ELSE "search"

Search == pc = "search" /\ UNCHANGED <<most_restricting_last, kept, frag>>

\* Mutant: overlap is refused only where nothing is missing.
Refused_lax(h) == Ipv6 /\ h.first > data_first /\ h.last < data_last
Refused(h) == Ipv6 /\ (h.first > data_first \/ h.last < data_last)

SearchEmpty ==
  /\ Search
  /\ \A h \in hole_tree : ~Overlaps(h)
  /\ overlap' = Ipv6
  /\ pc' = "found" /\ UNCHANGED <<hole_tree, mod>>

SearchRefused(h) ==
  /\ Search /\ Overlaps(h) /\ Refused(h)
  /\ overlap' = TRUE
  /\ pc' = "found" /\ UNCHANGED <<hole_tree, mod>>

Change(h, new) ==
  /\ Search /\ Overlaps(h) /\ ~Refused(h)
  /\ hole_tree' = (hole_tree \ {h}) \cup new
  /\ mod' = TRUE
  /\ UNCHANGED overlap

Split(h) ==
  /\ h.last > data_last /\ h.first < data_first
  /\ Change(h, {[h EXCEPT !.last = data_first - 1], [h EXCEPT !.first = data_last + 1]})
  /\ pc' = "found"

Delete(h) ==
  /\ h.last <= data_last /\ h.first >= data_first
  /\ Change(h, {})
  /\ Again

\* Mutant: the hole keeps the byte where the data starts.
TrimLast_same(h) ==
  /\ h.last <= data_last /\ h.first < data_first
  /\ Change(h, {[h EXCEPT !.last = data_first]})
  /\ Again

TrimLast(h) ==
  /\ h.last <= data_last /\ h.first < data_first
  /\ Change(h, {[h EXCEPT !.last = data_first - 1]})
  /\ Again

TrimFirst(h) ==
  /\ h.last > data_last /\ h.first >= data_first
  /\ Change(h, {[h EXCEPT !.first = data_last + 1]})
  /\ Again

\* Mutant: the packet is kept only if it lies inside the datagram.
Keep_inside == mod /\ ~overlap /\ data_last <= most_restricting_last
Keep == mod /\ ~overlap

AddReturn ==
  /\ pc = "found"
  /\ kept' = IF Keep THEN kept \cup Data ELSE kept
  /\ pc' = "idle"
  /\ UNCHANGED <<hole_tree, most_restricting_last, frag, mod, overlap>>

\* The packets are freed and the context is initialised again.
rb_explicit_reassctx_free ==
  /\ pc = "idle"
  /\ hole_tree' = Initial /\ most_restricting_last' = Top /\ kept' = {}
  /\ frag' = NoFragment /\ mod' = FALSE /\ overlap' = FALSE
  /\ UNCHANGED pc

Step == SearchEmpty \/ AddReturn
        \/ \E h \in hole_tree : SearchRefused(h) \/ Split(h) \/ Delete(h)
                                \/ TrimLast(h) \/ TrimFirst(h)

Next == rb_explicit_reassctx_free \/ Step
        \/ \E f \in Input : AddUnusable(f) \/ rb_explicit_reassctx_add(f)

Spec == rb_explicit_reassctx_init /\ [][Next]_vars

\* A call, once made, runs to its end.
FairSpec == Spec /\ WF_vars(Step)

-----------------------------------------------------------------------------
(* Properties.                                                             *)

\* The order of the tree is an order: rb_hole_tree_cmp aborts on two holes that
\* overlap.  Every hole is non-empty and lies before the end.
TreeOrdered ==
  /\ most_restricting_last \in 0 .. Top
  /\ \A h \in hole_tree : 0 <= h.first /\ h.first <= h.last /\ h.last <= most_restricting_last
  /\ \A g, h \in hole_tree : g # h => g.last < h.first \/ h.last < g.first

\* The holes in the tree never overlap, so the comparison never aborts, and
\* freeing a packet that changed no hole loses nothing: every byte up to the end
\* is missing or can be copied from a packet that was kept.
KeptSuffices ==
  /\ TreeOrdered
  /\ pc = "idle" => \A b \in 0 .. most_restricting_last : b \in Missing \/ b \in kept

Abstract == INSTANCE Reassembly WITH
  last <- most_restricting_last,
  missing <- IF pc = "search" THEN Missing \ Data ELSE Missing

\* Whichever of the overlapping holes the search finds first, the tree ends up
\* as exactly the missing bytes (without the ipv6 flag).
ImplementsReassembly == Abstract!Spec

\* With the ipv6 flag a fragment is refused exactly if it is not all missing.
RefusedIfOverlap ==
  [][(pc = "search" /\ pc' = "found" /\ Ipv6) => (overlap' <=> ~(Data \subseteq Missing))]_vars

\* The loop of add_data ends.
AddReturns == pc # "idle" ~> pc = "idle"
=============================================================================
