----------------------------- MODULE PacketRing -----------------------------
(***************************************************************************)
(* The ring of buffers behind an in-queue, the same code in the socket and *)
(* the capture-file driver: packets are received into the buffers from     *)
(* buf_start on, and the caller returns them, in any order, at buf_end.    *)
(* One buffer stays behind, so that buf_start = buf_end means a ring whose *)
(* buffers are all there.                                                  *)
(***************************************************************************)
EXTENDS Integers, Sequences, FiniteSets, Functions

CONSTANT num_bufs

PacketRingAssumption == num_bufs \in Nat \ {0}

BufSlot == 0 .. num_bufs - 1

\* buf_start and buf_end after n turns, at most all, of the increment that wraps,
\* and the number of turns that lead from one slot to another.
Advance(i, n) == IF i + n >= num_bufs THEN i + n - num_bufs ELSE i + n
Turns(i, j) == IF i > j THEN j - i + num_bufs ELSE j - i

\* A ring of all the buffers, in the order of the slots.
Full(buffers) == [bufs |-> buffers, buf_start |-> 0, buf_end |-> 0]

amnt_free(r) == LET n == r.buf_end - r.buf_start - 1 IN IF n < 0 THEN n + num_bufs ELSE n

\* The slots from one on get the buffers of packets, which are no more than slots.
Refilled(r, from, pkts) ==
  [i \in BufSlot |-> IF Turns(from, i) < Len(pkts) THEN pkts[Turns(from, i) + 1] ELSE r.bufs[i]]

\* Mutant: the buffers go back where they would be received into next.
deallocate_some_start(r, pkts) ==
  [r EXCEPT !.bufs = Refilled(r, r.buf_start, pkts), !.buf_end = Advance(@, Len(pkts))]

deallocate_some(r, pkts) ==
  [r EXCEPT !.bufs = Refilled(r, r.buf_end, pkts), !.buf_end = Advance(@, Len(pkts))]

\* The first n buffers to receive into.
First(r, n) == [i \in 1 .. n |-> r.bufs[Advance(r.buf_start, i - 1)]]

\* The orders in which a caller that holds some packets may return some of them.
Returns(held) == UNION {Bijection(1 .. Cardinality(s), s) : s \in (SUBSET held) \ {{}}}

-----------------------------------------------------------------------------
(* What both drivers rely on.                                              *)

\* The slots from buf_start on that still have their buffer, as a caller with
\* this many packets leaves them.
Stocked(r, n) == {Advance(r.buf_start, i) : i \in 0 .. num_bufs - n - 1}

\* A ring knows how many buffers it has but for the one that stays behind, and
\* its buffers are each in one slot and none is in the caller's hands.
Sound(r, held) ==
  LET stocked == Stocked(r, Cardinality(held))
  IN  /\ Cardinality(held) < num_bufs
      /\ amnt_free(r) = num_bufs - 1 - Cardinality(held)
      /\ \A i \in stocked : r.bufs[i] \notin held
      /\ \A i, j \in stocked : i # j => r.bufs[i] # r.bufs[j]
=============================================================================
