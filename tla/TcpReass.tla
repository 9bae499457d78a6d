------------------------------ MODULE TcpReass ------------------------------
(***************************************************************************)
(* tcprbexplicit: a TCP stream put back in order.  Segments ahead of the   *)
(* stream wait in a tree, trimmed so that no two overlap; sequence numbers *)
(* are compared by their signed difference and wrap (at Wrap, 2^32 in the  *)
(* code).  A difference of more than Wrap / 8 makes seq_cmp abort.         *)
(*                                                                         *)
(* Segments are given by their position in the stream, which does not      *)
(* wrap; fed, received and carried are history in those positions.         *)
(***************************************************************************)
EXTENDS Integers

CONSTANTS Wrap, Isn,
          Segment   \* the segments that may arrive: records of pos and len

TcpReassAssumption ==
  /\ Wrap \in Nat \ {0} /\ Wrap % 8 = 0 /\ Isn \in 0 .. Wrap - 1
  /\ \A s \in Segment : s.pos \in Nat /\ s.len \in 1 .. Wrap \div 8 - 1

VARIABLES last_fed_seq_plus_1, packet_tree,
          tcpPc, seq_first, seq_last,   \* the call of add in progress, with data_first and data_last
          fed,       \* the position that last_fed_seq_plus_1 stands for
          received,  \* the positions of all segments taken, as the code counts them
          carried    \* the positions of the bytes those segments carry

tcpVars == <<last_fed_seq_plus_1, packet_tree, tcpPc, seq_first, seq_last, fed, received, carried>>

-----------------------------------------------------------------------------
(* Sequence numbers.                                                       *)

SeqDiff(x, y) == LET d == (x - y) % Wrap IN IF d >= Wrap \div 2 THEN d - Wrap ELSE d

seq_valid(x, y) == SeqDiff(x, y) \in -(Wrap \div 8) .. Wrap \div 8

Before(x, y) == SeqDiff(x, y) < 0

UpTo(x, y) == ~Before(y, x)

Plus(x, n) == (x + n) % Wrap

Position(x) == fed + SeqDiff(x, last_fed_seq_plus_1)

Positions(h) == Position(h.first) .. Position(h.last)

-----------------------------------------------------------------------------
tcp_rb_explicit_reassctx_init ==
  /\ last_fed_seq_plus_1 = Plus(Isn, 1)
  /\ packet_tree = {}
  /\ tcpPc = "idle" /\ seq_first = 0 /\ seq_last = 0
  /\ fed = 0 /\ received = {} /\ carried = {}

SeqNumber(s) == Plus(Isn, 1 + s.pos)

\* The last position, as add computes it: one more than the segment carries.
LastNumber(s) == Plus(SeqNumber(s), s.len)

\* A segment that is half the space of numbers away would be taken for another:
\* TCP does not let one live so long.
Near(s) == s.pos + s.len - fed \in -(Wrap \div 2) .. Wrap \div 2 - 1

Receive(s) ==
  /\ received' = received \cup s.pos .. s.pos + s.len
  /\ carried' = carried \cup s.pos .. s.pos + s.len - 1

\* The comparison with the stream aborts before seq_valid is asked.
AddAbort(s) ==
  /\ tcpPc = "idle"
  /\ ~seq_valid(LastNumber(s), last_fed_seq_plus_1)
  /\ tcpPc' = "aborted"
  /\ UNCHANGED <<last_fed_seq_plus_1, packet_tree, seq_first, seq_last, fed, received, carried>>

InWindow(s) == tcpPc = "idle" /\ seq_valid(LastNumber(s), last_fed_seq_plus_1)

AddOld(s) ==
  /\ InWindow(s)
  /\ Before(LastNumber(s), last_fed_seq_plus_1)
  /\ UNCHANGED tcpVars

\* Mutant: the segment that the new end falls into keeps its start.
repair_delete(h, next) == IF Before(h.last, next) THEN {} ELSE {h}

\* What the passing of the stream to next leaves of a waiting segment: of the
\* leftmost ones the loop deletes those before next, and cuts one.
repair_after_passthrough(h, next) ==
  IF Before(h.last, next) THEN {}
  ELSE IF Before(h.first, next) THEN {[h EXCEPT !.first = next]} ELSE {h}

\* A segment that starts at or before the end of the stream is returned at once.
AddPassthrough(s) ==
  /\ InWindow(s)
  /\ UpTo(last_fed_seq_plus_1, LastNumber(s))
  /\ UpTo(SeqNumber(s), last_fed_seq_plus_1)
  /\ last_fed_seq_plus_1' = Plus(LastNumber(s), 1)
  /\ packet_tree' = UNION {repair_after_passthrough(h, Plus(LastNumber(s), 1)) : h \in packet_tree}
  /\ fed' = s.pos + s.len + 1
  /\ Receive(s)
  /\ UNCHANGED <<tcpPc, seq_first, seq_last>>

AddAhead(s) ==
  /\ InWindow(s)
  /\ Before(last_fed_seq_plus_1, SeqNumber(s))
  /\ seq_first' = SeqNumber(s) /\ seq_last' = LastNumber(s)
  /\ tcpPc' = "search"
  /\ Receive(s)
  /\ UNCHANGED <<last_fed_seq_plus_1, packet_tree, fed>>

-----------------------------------------------------------------------------
(* add_data and the insertion after it.  The search may meet any segment   *)
(* that overlaps; after each change it starts again.                       *)

Touches(h) == UpTo(seq_first, h.last) /\ UpTo(h.first, seq_last)

SearchSegments ==
  tcpPc = "search" /\ UNCHANGED <<last_fed_seq_plus_1, seq_first, seq_last, fed, received, carried>>

Swallowed(h) == UpTo(h.last, seq_last) /\ UpTo(seq_first, h.first)

DeleteSegment(h) ==
  /\ SearchSegments /\ Touches(h) /\ Swallowed(h)
  /\ packet_tree' = packet_tree \ {h}
  /\ UNCHANGED tcpPc

CutLast(h) ==
  /\ SearchSegments /\ Touches(h) /\ UpTo(h.last, seq_last) /\ Before(h.first, seq_first)
  /\ packet_tree' = (packet_tree \ {h}) \cup {[h EXCEPT !.last = Plus(seq_first, -1)]}
  /\ UNCHANGED tcpPc

CutFirst(h) ==
  /\ SearchSegments /\ Touches(h) /\ UpTo(seq_first, h.first) /\ Before(seq_last, h.last)
  /\ packet_tree' = (packet_tree \ {h}) \cup {[h EXCEPT !.first = Plus(seq_last, 1)]}
  /\ UNCHANGED tcpPc

\* -EEXIST: the new segment lies inside one that waits, and is freed.
Refuse(h) ==
  /\ SearchSegments /\ Before(seq_last, h.last) /\ Before(h.first, seq_first)
  /\ tcpPc' = "idle" /\ UNCHANGED packet_tree

InsertSegment ==
  /\ SearchSegments /\ \A h \in packet_tree : ~Touches(h)
  /\ packet_tree' = packet_tree \cup {[first |-> seq_first, last |-> seq_last]}
  /\ tcpPc' = "idle"

tcp_rb_explicit_reassctx_fetch(h) ==
  /\ tcpPc = "idle"
  /\ h.first = last_fed_seq_plus_1
  /\ packet_tree' = packet_tree \ {h}
  /\ last_fed_seq_plus_1' = Plus(h.last, 1)
  /\ fed' = Position(h.last) + 1
  /\ UNCHANGED <<tcpPc, seq_first, seq_last, received, carried>>

\* The segments are freed; the context may be initialised again.
tcp_rb_explicit_reassctx_free ==
  /\ tcpPc = "idle"
  /\ last_fed_seq_plus_1' = Plus(Isn, 1)
  /\ packet_tree' = {} /\ fed' = 0 /\ received' = {} /\ carried' = {}
  /\ UNCHANGED <<tcpPc, seq_first, seq_last>>

TcpStep == InsertSegment \/ \E h \in packet_tree : DeleteSegment(h) \/ CutLast(h) \/ CutFirst(h) \/ Refuse(h)

TcpNext ==
  \/ TcpStep
  \/ tcp_rb_explicit_reassctx_free
  \/ \E h \in packet_tree : tcp_rb_explicit_reassctx_fetch(h)
  \/ \E s \in Segment : Near(s) /\ (AddAbort(s) \/ AddOld(s) \/ AddPassthrough(s) \/ AddAhead(s))

TcpSpec == tcp_rb_explicit_reassctx_init /\ [][TcpNext]_tcpVars

-----------------------------------------------------------------------------
(* Properties.                                                             *)

\* Every comparison that the tree or the search can make is within the window,
\* so seq_cmp aborts for no segment that add has taken; and no two waiting
\* segments overlap, so neither does rb_packet_tree_cmp.
ComparisonsDefined ==
  /\ \A g, h \in packet_tree : /\ seq_valid(g.last, h.first) /\ seq_valid(g.first, h.last)
                               /\ g # h => Before(g.last, h.first) \/ Before(h.last, g.first)
  /\ tcpPc = "search" => \A h \in packet_tree :
       /\ seq_valid(h.last, seq_first) /\ seq_valid(h.first, seq_last)
       /\ seq_valid(h.last, seq_last) /\ seq_valid(h.first, seq_first)
       /\ UpTo(h.last, seq_last) => seq_valid(Plus(h.last, 1), seq_first)
       /\ UpTo(seq_first, h.first) => seq_valid(h.first, Plus(seq_last, 1))

\* A waiting segment never starts before the end of the stream: fetch, which
\* looks for one that starts exactly there, overlooks nothing.
FetchSeesAll == \A h \in packet_tree : UpTo(last_fed_seq_plus_1, h.first) /\ UpTo(h.first, h.last)

\* Trimming, deleting and refusing segments loses nothing and keeps nothing
\* twice: between two calls the tree holds exactly the positions taken so far
\* that are not behind the end of the stream.
TreeIsExact == tcpPc = "idle" =>
  {p \in received : p >= fed} = UNION {Positions(h) : h \in packet_tree}

\* tcprbexplicit.c: between two calls the tree holds exactly what was taken and
\* not yet fed, fetch overlooks nothing, and no comparison aborts.
SegmentsExact == TreeIsExact /\ FetchSeesAll /\ ComparisonsDefined

\* Nor does a comparison in repair_after_passthrough abort, whose stream has
\* just moved on.
RepairDefined ==
  [][\A h \in packet_tree, s \in Segment : Near(s) /\ AddPassthrough(s) =>
       /\ seq_valid(h.last, last_fed_seq_plus_1')
       /\ seq_valid(h.first, last_fed_seq_plus_1')]_tcpVars

\* tcprbexplicit.h, violated: the range of a segment is useful data and not a hole;
\* what the stream has passed was carried by some segment.
OnlyUsefulData == \A p \in 0 .. fed - 1 : p \in carried
=============================================================================
