----------------------------- MODULE LinuxFrag ------------------------------
(***************************************************************************)
(* ipfrag/linux: reassembly with a chain of fragments in ascending order   *)
(* (struct ipq).  A fragment that is entered loses the head that the one   *)
(* before it has, and takes from the ones after it what they share.        *)
(*                                                                         *)
(* A packet of the chain is the fragment's offset and payload length, and  *)
(* positive.offset and positive.pulled; what pulled counts for the headers *)
(* is left out, so the packet holds len - pulled bytes from offset on.     *)
(***************************************************************************)
EXTENDS Integers, Sequences, SequencesExt

CONSTANTS Unit, Top, Input,
          NULL

LinuxFragAssumption ==
  /\ Unit \in Nat \ {0} /\ Top \in Nat
  /\ Input \subseteq [first : {u \in 0 .. Top : u % Unit = 0}, len : 0 .. Top + 1, more : BOOLEAN]

VARIABLES fragments,        \* the chain
          fragments_tail,   \* the id of a packet, or NULL
          len, meat, first_in, last_in,
          result            \* of the last call

q == <<fragments, fragments_tail, len, meat, first_in, last_in>>
vars == <<q, result>>

ipq_init ==
  /\ fragments = << >> /\ fragments_tail = NULL
  /\ len = 0 /\ meat = 0 /\ first_in = FALSE /\ last_in = FALSE
  /\ result = "none"

Size(p) == p.len - p.pulled
Bytes(p) == p.offset .. p.offset + Size(p) - 1
Held == UNION {Bytes(p) : p \in Range(fragments)}

\* A packet that is in memory is told apart by an id that no other has.
NewId == CHOOSE i \in 0 .. Len(fragments) : \A p \in Range(fragments) : p.id # i

End(f) == f.first + f.len

\* The tests of the end.
Corrupt(f) ==
  IF f.more THEN End(f) > len /\ last_in
  ELSE End(f) < len \/ (last_in /\ End(f) # len)

\* What an accepted fragment says of the end, also when it is dropped later.
NoteEnd(f) ==
  /\ last_in' = (last_in \/ ~f.more)
  /\ len' = IF ~f.more \/ End(f) > len THEN End(f) ELSE len

\* How many packets of the chain come before the fragment: all of them if the
\* tail does, otherwise those up to the first that does not.
Before(f) ==
  IF fragments_tail = NULL \/ (\E p \in Range(fragments) : p.id = fragments_tail /\ p.offset < f.first)
    THEN Len(fragments)
    ELSE LET later == {i \in DOMAIN fragments : fragments[i].offset >= f.first}
         IN  IF later = {} THEN Len(fragments) ELSE (CHOOSE i \in later : \A j \in later : i <= j) - 1

\* The bytes that the packet before the fragment has of it.
Shared(f, before) ==
  IF before = 0 THEN 0
  ELSE LET p == fragments[before]
           i == p.offset + Size(p) - f.first
       IN  IF i > 0 THEN i ELSE 0

\* The loop over the packets after the fragment: those it covers go, one that
\* it reaches into loses its head.
Eat(rest, end) ==
  LET uncovered == SelectSeq(rest, LAMBDA p : p.offset >= end \/ end - p.offset < Size(p))
  IN  [i \in DOMAIN uncovered |->
         IF uncovered[i].offset < end
           THEN [uncovered[i] EXCEPT !.pulled = @ + end - uncovered[i].offset, !.offset = end]
           ELSE uncovered[i]]

Sizes(chain) == FoldLeft(LAMBDA n, p : n + Size(p), 0, chain)

-----------------------------------------------------------------------------
(* ip_frag_queue: a fragment is refused, dropped or entered.               *)

Refuse(f) ==
  /\ Corrupt(f)
  /\ result' = "refused" /\ UNCHANGED q

\* It is empty, or the packet before it has all of it.
Drop(f) ==
  /\ ~Corrupt(f)
  /\ f.len = 0 \/ (Shared(f, Before(f)) > 0 /\ End(f) <= f.first + Shared(f, Before(f)))
  /\ NoteEnd(f)
  /\ result' = "in progress"
  /\ UNCHANGED <<fragments, fragments_tail, meat, first_in>>

Meat(old, new, p) == meat - (Sizes(old) - Sizes(new)) + Size(p)

\* Mutant: the tail stays with a packet that was covered.
NewTail_same(rest, eaten, id) == IF rest = << >> THEN id ELSE fragments_tail
NewTail(rest, eaten, id) == IF eaten = << >> THEN id ELSE fragments_tail

Enter(f) ==
  LET before == Before(f)
      shared == Shared(f, before)
      rest == SubSeq(fragments, before + 1, Len(fragments))
      eaten == Eat(rest, End(f))
      pkt == [id |-> NewId, first |-> f.first, len |-> f.len,
              offset |-> f.first + shared, pulled |-> shared]
  IN  /\ ~Corrupt(f) /\ f.len > 0 /\ (shared > 0 => End(f) > f.first + shared)
      /\ NoteEnd(f)
      /\ fragments' = SubSeq(fragments, 1, before) \o <<pkt>> \o eaten
      /\ fragments_tail' = NewTail(rest, eaten, pkt.id)
      /\ meat' = Meat(rest, eaten, pkt)
      /\ first_in' = (first_in \/ pkt.offset = 0)
      /\ result' = IF first_in' /\ last_in' /\ meat' = len' THEN "complete" ELSE "in progress"

ip_frag_queue(f) == Refuse(f) \/ Drop(f) \/ Enter(f)

\* After ipq_free, which frees the chain, a queue is initialised again.
ipq_free ==
  /\ fragments' = << >> /\ fragments_tail' = NULL
  /\ len' = 0 /\ meat' = 0 /\ first_in' = FALSE /\ last_in' = FALSE
  /\ result' = "none"

Next == ipq_free \/ \E f \in Input : ip_frag_queue(f)

Spec == ipq_init /\ [][Next]_vars

\* ip_frag_reassemble: where in the payload of p it finds each byte it copies.
ip_frag_reassemble(p) ==
  LET within_off == p.offset - p.first IN [b \in Bytes(p) |-> within_off + b - p.offset]

-----------------------------------------------------------------------------
(* Properties.                                                             *)

\* The chain ascends, no two packets share a byte, each has one left at least,
\* and the tail is its last packet, which the search for the place relies on.
ChainSound ==
  /\ \A i \in DOMAIN fragments : Size(fragments[i]) > 0
  /\ \A i \in 2 .. Len(fragments) :
       fragments[i - 1].offset + Size(fragments[i - 1]) <= fragments[i].offset
  /\ fragments_tail = IF fragments = << >> THEN NULL ELSE Last(fragments).id

\* meat counts the bytes of the chain, whatever was taken from packets on it.
MeatExact == meat = Sizes(fragments)

\* A datagram that is reported complete is: its end is known, every byte is in
\* some packet, and is copied from inside that packet's payload.
CompleteIsSound ==
  result = "complete" =>
    /\ last_in /\ Held = 0 .. len - 1
    /\ \A p \in Range(fragments) : \A b \in Bytes(p) :
         ip_frag_reassemble(p)[b] \in 0 .. p.len - 1

\* The call with which the queue comes to hold the whole datagram says so: callers
\* ask for reassembly only when ip_frag_queue returns 0.
Whole == last_in /\ len > 0 /\ Held = 0 .. len - 1
CompleteIsReported == [][~Whole /\ Whole' => result' = "complete"]_vars
=============================================================================
