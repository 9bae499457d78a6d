------------------------------- MODULE Rfc815 -------------------------------
(***************************************************************************)
(* rfc815: reassembly that keeps the descriptor of each hole inside the    *)
(* hole, in the buffer that collects the datagram (struct rfc815ctx).  A   *)
(* descriptor fills one unit and starts at the hole's first byte; the      *)
(* descriptors form a doubly linked list by index, with Top (65535) as the *)
(* end.  The buffer is one byte shorter than Top + 1; a descriptor in the  *)
(* last unit ends in the padding of the structure, which is byte Top here. *)
(***************************************************************************)
EXTENDS Integers, Sequences

CONSTANTS Unit, Top, Input

VARIABLES ctx,   \* first_hole, last_hole, most_restricting_last, hdr_len # 0, pkt
          frag   \* the fragment handed in last

vars == <<ctx, frag>>

NIL == Top
Hole == [first : 0 .. Top, last : 0 .. Top, next : 0 .. Top, prev : 0 .. Top]

\* A byte of the buffer: the start of a descriptor, the rest of one, payload in
\* its place, or nothing yet.
Store(pkt, i, h) ==
  [j \in DOMAIN pkt |-> CASE j = i -> h
                          [] j \in i + 1 .. i + Unit - 1 -> [is |-> "descriptor"]
                          [] OTHER -> pkt[j]]

\* The descriptor read back; one with payload over it, which DataIntact and
\* ListWellFormed exclude, reads as a hole at the end of the list.
Whole(c, i) == c.pkt[i] \in Hole /\ \A j \in i + 1 .. i + Unit - 1 :
                                      j \in DOMAIN c.pkt /\ c.pkt[j] = [is |-> "descriptor"]
HoleAt(c, i) == IF Whole(c, i) THEN c.pkt[i]
                ELSE [first |-> NIL, last |-> NIL, next |-> NIL, prev |-> NIL]

Put(c, i, h) == [c EXCEPT !.pkt = Store(@, i, h)]

holenonptr_set_prev(c, i, prev) ==
  IF i = NIL THEN [c EXCEPT !.last_hole = prev]
  ELSE Put(c, i, [HoleAt(c, i) EXCEPT !.prev = prev])

holenonptr_set_next(c, i, next) ==
  IF i = NIL THEN [c EXCEPT !.first_hole = next]
  ELSE Put(c, i, [HoleAt(c, i) EXCEPT !.next = next])

\* The neighbours of h are linked to i and j instead of h.
Relink(c, h, i, j) == holenonptr_set_prev(holenonptr_set_next(c, h.prev, i), h.next, j)

Unlink(c, h) == Relink(c, h, h.next, h.prev)

Initial ==
  [first_hole |-> 0, last_hole |-> 0, last |-> Top, hdr |-> FALSE,
   pkt |-> Store([j \in 0 .. Top |-> [is |-> "nothing"]], 0,
                 [first |-> 0, last |-> Top, next |-> NIL, prev |-> NIL])]

rfc815ctx_complete == ctx.first_hole = NIL

\* The holes on the list from hole i on.
RECURSIVE HolesFrom(_, _)
HolesFrom(c, i) ==
  IF i = NIL THEN << >> ELSE <<HoleAt(c, i)>> \o HolesFrom(c, HoleAt(c, i).next)
Holes == HolesFrom(ctx, ctx.first_hole)

Missing == LET hs == Holes IN UNION {hs[k].first .. hs[k].last : k \in DOMAIN hs}

Abstract == INSTANCE Reassembly WITH last <- ctx.last, missing <- Missing
data_last(f) == Abstract!data_last(f)

rfc815ctx_init == ctx = Initial /\ frag = Abstract!NoFragment

-----------------------------------------------------------------------------
\* The walk after the end was lowered.
RECURSIVE Clip(_, _)
Clip(c, i) ==
  IF i = NIL THEN c
  ELSE LET h == HoleAt(c, i)
       IN  CASE h.first > c.last -> Clip(Unlink(c, h), h.next)
             [] h.first <= c.last /\ h.last > c.last ->
                  Clip(Put(c, i, [h EXCEPT !.last = c.last]), h.next)
             [] OTHER -> Clip(c, h.next)

\* Mutant: the second hole keeps the shortened last byte of the first.
Split_short(c, i, first, last) ==
  LET h == HoleAt(c, i)
      c1 == holenonptr_set_prev(c, h.next, last + 1)
      c2 == Put(c1, i, [h EXCEPT !.last = first - 1, !.next = last + 1])
  IN  Put(c2, last + 1, [h EXCEPT !.first = last + 1, !.last = first - 1, !.prev = i])

\* Hole i with data first .. last inside it becomes two.
Split(c, i, first, last) ==
  LET h == HoleAt(c, i)
      c1 == holenonptr_set_prev(c, h.next, last + 1)
      c2 == Put(c1, i, [h EXCEPT !.last = first - 1, !.next = last + 1])
  IN  Put(c2, last + 1, [h EXCEPT !.first = last + 1, !.prev = i])

\* The walk that enters the data, from hole i on: the context and whether a
\* hole was changed.
RECURSIVE Enter(_, _, _, _, _)
Enter(c, i, first, last, mod) ==
  IF i = NIL THEN [c |-> c, mod |-> mod]
  ELSE LET h == HoleAt(c, i)
           shortened == Put(c, i, [h EXCEPT !.last = first - 1])
       IN  CASE last = h.last /\ first <= h.first -> [c |-> Unlink(c, h), mod |-> TRUE]
             [] last = h.last /\ first > h.first -> [c |-> shortened, mod |-> TRUE]
             [] last < h.last /\ first <= h.first ->
                  IF last + 1 > h.first
                    THEN [c |-> Put(Relink(c, h, last + 1, last + 1), last + 1,
                                    [h EXCEPT !.first = last + 1]),
                          mod |-> TRUE]
                    ELSE [c |-> c, mod |-> mod]
             [] last < h.last /\ first > h.first ->
                  [c |-> Split(c, i, first, last), mod |-> TRUE]
             [] last > h.last /\ first <= h.first ->
                  Enter(Unlink(c, h), h.next, first, last, TRUE)
             [] last > h.last /\ first > h.first ->
                  IF h.last > first - 1 THEN Enter(shortened, h.next, first, last, TRUE)
                  ELSE Enter(c, h.next, first, last, mod)

\* Mutant: a fragment is entered to its last byte though its last unit is broken.
Upto_exact(f, lowers) == data_last(f)
Upto(f, lowers) == IF lowers THEN data_last(f) ELSE Abstract!WholeUnits(data_last(f))

Copy(c, first, last) ==
  [c EXCEPT !.pkt = [j \in DOMAIN @ |-> IF j \in first .. last THEN [is |-> "data"] ELSE @[j]]]

Copied(entered, first, last) ==
  IF entered.mod THEN Copy(entered.c, first, last) ELSE entered.c

Clipped(c, last) == Clip([c EXCEPT !.last = last], c.first_hole)

Entered(c, first, last) == Copied(Enter(c, c.first_hole, first, last, FALSE), first, last)

\* The context after a fragment.
Added(c, f) ==
  LET lowers == ~f.more /\ c.last > data_last(f)
      c0 == [c EXCEPT !.hdr = TRUE]
  IN  CASE f.len = 0 -> c
        [] f.len > 0 /\ (data_last(f) > Top \/ (~lowers /\ data_last(f) < Unit - 1)) -> c0
        [] OTHER -> Entered(IF lowers THEN Clipped(c0, data_last(f)) ELSE c0, f.first, Upto(f, lowers))

rfc815ctx_add(f) == frag' = f /\ ctx' = Added(ctx, f)

\* The context is initialised for the next datagram.
Reinit == ctx' = Initial /\ frag' = Abstract!NoFragment

Next == Reinit \/ \E f \in Input : rfc815ctx_add(f)

Spec == rfc815ctx_init /\ [][Next]_vars

\* What rfc815ctx_reassemble copies out.
rfc815ctx_reassemble == [j \in 0 .. ctx.last |-> ctx.pkt[j]]

-----------------------------------------------------------------------------
(* Properties.                                                             *)

\* The links are well formed: what linktest would test (it is compiled out).
ListWellFormed ==
  LET hs == Holes
  IN  /\ \A k \in DOMAIN hs :
           /\ hs[k].first = IF k = 1 THEN ctx.first_hole ELSE hs[k - 1].next
           /\ hs[k].prev = IF k = 1 THEN NIL ELSE hs[k - 1].first
           /\ hs[k].first <= hs[k].last
           /\ k > 1 => hs[k - 1].last < hs[k].first
      /\ ctx.last_hole = IF hs = << >> THEN NIL ELSE hs[Len(hs)].first

\* Every byte up to the end that is not missing is payload: no descriptor is
\* written over received data, although the end of a datagram may leave holes
\* shorter than a descriptor.
DataIntact ==
  \A j \in 0 .. ctx.last : j \notin Missing => ctx.pkt[j] = [is |-> "data"]

\* A complete context reassembles to payload only, with a header.
ReassemblesData ==
  rfc815ctx_complete => ctx.hdr /\ \A j \in 0 .. ctx.last : rfc815ctx_reassemble[j] = [is |-> "data"]

\* Through the descriptors the context is exactly the set of missing bytes.
ImplementsReassembly == Abstract!Spec
=============================================================================
