------------------------------- MODULE Rfc791 -------------------------------
(***************************************************************************)
(* rfc791: reassembly with one bit per unit of eight bytes, 64 bits to a   *)
(* word.  rfc791ctx_add sets the bits of a fragment word by word where it  *)
(* can; rfc791ctx_complete looks for the first clear bit.  Two history     *)
(* variables: got holds the bytes of the usable fragments, plain the bits  *)
(* that the plain loop beside the word-wise one (compiled out) would set.  *)
(***************************************************************************)
EXTENDS Integers

CONSTANTS Unit, Top,
          WordBits,   \* bits in a word of the bitmap (64)
          Input

\* Fragments start at whole units.
Rfc791Assumption ==
  /\ Unit \in Nat \ {0} /\ Top \in Nat
  /\ WordBits \in Nat \ {0} /\ (Top + 1) % (Unit * WordBits) = 0
  /\ \A f \in Input : f.first \in Nat /\ f.first % Unit = 0 /\ f.len \in Nat /\ f.more \in BOOLEAN

VARIABLES bits, most_restricting_last, got, plain

vars == <<bits, most_restricting_last, got, plain>>

data_last(f) == f.first + f.len - 1
Usable(f) == f.len > 0 /\ data_last(f) <= Top

rfc791ctx_init == bits = {} /\ most_restricting_last = Top /\ got = {} /\ plain = {}

Least(a, b) == IF a < b THEN a ELSE b
Largest(a, b) == IF a > b THEN a ELSE b

\* The bits the three loops set: up to the first whole word, the whole words,
\* and from the last whole word on.
FirstTotal(first) == (first + Unit * WordBits - 1) \div (Unit * WordBits)

BitsOf(first, last) ==
  LET onepastlasttotal == (last + 1) \div (Unit * WordBits)
      onepast == (last + 1) \div Unit
      firstmaxbit == Least(FirstTotal(first) * WordBits, onepast)
      secondminbit == Largest(onepastlasttotal * WordBits, first \div Unit)
  IN  first \div Unit .. firstmaxbit - 1
        \cup FirstTotal(first) * WordBits .. onepastlasttotal * WordBits - 1
        \cup secondminbit .. onepast - 1

rfc791ctx_add(f) ==
  /\ Usable(f)
  /\ most_restricting_last' = IF ~f.more /\ most_restricting_last > data_last(f)
                                THEN data_last(f) ELSE most_restricting_last
  /\ bits' = bits \cup BitsOf(f.first, data_last(f))
  /\ got' = got \cup f.first .. data_last(f)
  /\ plain' = plain \cup f.first \div Unit .. (data_last(f) + 1) \div Unit - 1

rfc791ctx_free ==
  bits' = {} /\ most_restricting_last' = Top /\ got' = {} /\ plain' = {}

\* Every word before the last bit's is full and the last bit is the first clear
\* one of its word.
rfc791ctx_complete ==
  LET last_bit == most_restricting_last \div Unit
  IN  /\ most_restricting_last # Top
      /\ 0 .. last_bit - 1 \subseteq bits
      /\ last_bit \notin bits

Next == rfc791ctx_free \/ \E f \in Input : rfc791ctx_add(f)

Spec == rfc791ctx_init /\ [][Next]_vars

-----------------------------------------------------------------------------
(* Properties.                                                             *)

\* The word-wise loops set the bits that the plain loop would set, at the
\* boundaries of words too, and stay inside the bitmap.
BitsArePlain == bits = plain /\ bits \subseteq 0 .. Top \div Unit

\* A datagram that is called complete is complete, though the last unit's bit
\* is clear when it is.
CompleteIsSound == rfc791ctx_complete => 0 .. most_restricting_last \subseteq got

\* The tests abort unless rfc791ctx_complete holds once all fragments of the
\* datagram were added (rfc791test.c).
CompleteWhenAll ==
  (most_restricting_last # Top /\ 0 .. most_restricting_last \subseteq got) => rfc791ctx_complete

\* It does hold when the datagram ends inside a unit that no fragment fills.
CompleteWhenBroken ==
  (/\ (most_restricting_last + 1) % Unit # 0
   /\ got = 0 .. most_restricting_last
   /\ most_restricting_last # Top) => rfc791ctx_complete
=============================================================================
