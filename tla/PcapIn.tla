------------------------------- MODULE PcapIn -------------------------------
(***************************************************************************)
(* In-queues over one capture file (ldppcap.c).  The queues share the      *)
(* reader: a record of another interface is kept as the lookahead until a  *)
(* queue of its interface asks, or until it is read over.  Each queue has  *)
(* its own ring of buffers, which grow to the packets they receive; the    *)
(* capacity travels with the packet (ancillarysz).  A call holds the mutex *)
(* of the reader for all that it does there.  Queues are opened and closed *)
(* by one thread.                                                          *)
(***************************************************************************)
EXTENDS PacketRing

CONSTANTS PcapQueue, ABSENT,
          ifname,    \* ifname[q]: the interface that a queue asks for, ABSENT for any
          Records,   \* the records: their interface and the bytes to copy
          Torn,      \* whether the file ends inside a further record
          MaxRefc    \* bound on the references to the reader when a queue fails to open

\* A slot has the address of its memory and the capacity that goes with it.
Buffer == [data : PcapQueue \X BufSlot, anc : Nat]
BufRing == [bufs : [BufSlot -> Buffer], buf_start : BufSlot, buf_end : BufSlot]
Reader == [refc : Nat \ {0}, buf_valid : BOOLEAN, intact : BOOLEAN, torn : BOOLEAN, eof : BOOLEAN]

PcapInAssumption ==
  /\ PacketRingAssumption /\ Torn \in BOOLEAN /\ MaxRefc \in Nat
  /\ IsFiniteSet(PcapQueue) /\ ABSENT \notin BufRing /\ ABSENT \notin Reader
  /\ Records \in Seq(Range(Records))
  /\ \A i \in DOMAIN Records : Records[i].ifname # ABSENT /\ Records[i].min \in Nat \ {0}

VARIABLES shared,      \* struct ldp_capture_shared_in_pcap, ABSENT if there is none
          inpcap,      \* the ring of each open queue, ABSENT for one that is closed
          held,        \* the packets of each queue that its caller has not returned
          size,        \* the size of the memory of each buffer
          readers,     \* the queues whose calls read the records
          delivered    \* the calls that returned a packet: queue and record

captureVars == <<shared, inpcap, held, size, readers, delivered>>

CaptureInit ==
  /\ shared = ABSENT /\ inpcap = [q \in PcapQueue |-> ABSENT] /\ held = [q \in PcapQueue |-> {}]
  /\ size = [b \in PcapQueue \X BufSlot |-> 0] /\ readers = << >> /\ delivered = << >>

OpenQueues == {q \in PcapQueue : inpcap[q] # ABSENT}

-----------------------------------------------------------------------------
(* Opening and closing.                                                    *)

\* A new reader is before the first record.  intact: its buffer holds the bytes
\* of the record read last.
create_in ==
  IF shared # ABSENT THEN [shared EXCEPT !.refc = @ + 1]
  ELSE [refc |-> 1, buf_valid |-> FALSE, intact |-> TRUE, torn |-> Torn, eof |-> FALSE]

Opens(q) == inpcap[q] = ABSENT /\ shared' = create_in

\* A buffer is named by the slot for which it is first allocated; NULL is memory
\* of size 0.
ldp_interface_open_pcap(q) ==
  /\ Opens(q)
  /\ inpcap' = [inpcap EXCEPT ![q] = Full([i \in BufSlot |-> [data |-> <<q, i>>, anc |-> 0]])]
  /\ UNCHANGED <<held, size, readers, delivered>>

\* A file to write to that cannot be opened: the reference of the queue stays.
OpenFails(q) ==
  /\ Opens(q) /\ (shared # ABSENT => shared.refc < MaxRefc)
  /\ UNCHANGED <<inpcap, held, size, readers, delivered>>

\* Mutant: the first queue that is closed takes the reader with it.
Released_all == ABSENT
Released == IF shared.refc = 1 THEN ABSENT ELSE [shared EXCEPT !.refc = @ - 1]

\* The caller has returned its packets.
ldp_in_queue_close_pcap(q) ==
  /\ q \in OpenQueues /\ held[q] = {}
  /\ inpcap' = [inpcap EXCEPT ![q] = ABSENT]
  /\ size' = [b \in DOMAIN size |-> IF b[1] = q THEN 0 ELSE size[b]]
  /\ shared' = Released
  /\ readers' = IF shared' = ABSENT THEN << >> ELSE readers
  /\ delivered' = IF shared' = ABSENT THEN << >> ELSE delivered
  /\ UNCHANGED held

-----------------------------------------------------------------------------
(* Receiving.                                                              *)

Capacity(old, min) ==
  IF old >= min THEN old ELSE IF 2 * old < min THEN min ELSE 2 * old

\* The buffer at buf_start grows, gets the bytes and goes to the caller.
ldp_in_queue_intern(q, rec, min) ==
  LET r == inpcap[q]
      old == r.bufs[r.buf_start]
      slot == [old EXCEPT !.anc = Capacity(@, min)]
  IN  /\ inpcap' = [inpcap EXCEPT ![q].bufs[r.buf_start] = slot, ![q].buf_start = Advance(@, 1)]
      /\ held' = [held EXCEPT ![q] = @ \cup {slot}]
      /\ size' = [size EXCEPT ![old.data] = IF slot = old THEN @ ELSE slot.anc]
      /\ delivered' = Append(delivered, [queue |-> q, rec |-> rec, fits |-> size'[old.data] >= min])

Matches(q, rec) == ifname[q] = ABSENT \/ ifname[q] = Records[rec].ifname

\* A call that gets to the reader; without a free buffer it returns ENOMEM.
Asks(q) == q \in OpenQueues /\ shared # ABSENT /\ amnt_free(inpcap[q]) # 0

\* The lookahead, which is the record read last, is for this queue.
ForMe(q) == shared.buf_valid /\ Matches(q, Len(readers))

NextLookahead(q) ==
  /\ Asks(q) /\ ForMe(q)
  /\ IF shared.intact THEN ldp_in_queue_intern(q, Len(readers), Records[Len(readers)].min)
     ELSE ldp_in_queue_intern(q, 0, 1)
  /\ shared' = [shared EXCEPT !.buf_valid = FALSE]
  /\ UNCHANGED readers

\* Another record is read, over the lookahead, for this queue or as lookahead.
NextRead(q) ==
  LET rec == Len(readers) + 1
  IN  /\ Asks(q) /\ ~ForMe(q) /\ Len(readers) < Len(Records)
      /\ readers' = Append(readers, q)
      /\ shared' = [shared EXCEPT !.buf_valid = ~Matches(q, rec)]
      /\ IF Matches(q, rec) THEN ldp_in_queue_intern(q, rec, Records[rec].min)
         ELSE UNCHANGED <<inpcap, held, size, delivered>>

\* The end of the file; a record that ends too soon has spoilt the buffer.
NextEnds(q) ==
  /\ Asks(q) /\ ~ForMe(q) /\ Len(readers) = Len(Records)
  /\ shared' = [shared EXCEPT !.eof = TRUE, !.torn = FALSE, !.intact = @ /\ ~shared.torn]
  /\ UNCHANGED <<inpcap, held, size, readers, delivered>>

ldp_in_queue_nextpkts_ts_pcap(q) == NextLookahead(q) \/ NextRead(q) \/ NextEnds(q)

ldp_in_queue_deallocate_some_pcap(q, pkts) ==
  /\ inpcap' = [inpcap EXCEPT ![q] = deallocate_some(@, pkts)]
  /\ held' = [held EXCEPT ![q] = @ \ Range(pkts)]
  /\ UNCHANGED <<shared, size, readers, delivered>>

CaptureNext ==
  \E q \in PcapQueue :
    \/ ldp_interface_open_pcap(q) \/ OpenFails(q) \/ ldp_in_queue_close_pcap(q)
    \/ ldp_in_queue_nextpkts_ts_pcap(q)
    \/ \E pkts \in Returns(held[q]) : ldp_in_queue_deallocate_some_pcap(q, pkts)

CaptureSpec == CaptureInit /\ [][CaptureNext]_captureVars

-----------------------------------------------------------------------------
(* Properties.                                                             *)

\* The ring of every queue is sound, the capacity in a slot is the size of its
\* memory, and no packet was copied to a smaller buffer.
BuffersSound ==
  /\ \A q \in OpenQueues :
       /\ Sound(inpcap[q], held[q])
       /\ \A i \in Stocked(inpcap[q], Cardinality(held[q])) :
            inpcap[q].bufs[i].anc = size[inpcap[q].bufs[i].data]
  /\ \A q \in PcapQueue : \A p \in held[q] : p.anc = size[p.data]
  /\ \A i \in DOMAIN delivered : delivered[i].fits

\* A queue that is open has a reader, whichever queues were closed before and
\* however many failed to open.
ReaderLives == OpenQueues # {} => shared # ABSENT /\ shared.refc >= Cardinality(OpenQueues)

Delivered(rec) == \E i \in DOMAIN delivered : delivered[i].rec = rec

\* Over all queues the records come in the order of the file, each at most once
\* and to a queue that asked for its interface; a record without its bytes
\* only after the end of the file was reported.
FileOrder ==
  \A i \in DOMAIN delivered :
    /\ delivered[i].rec = 0 => shared.eof /\ i = Len(delivered)
    /\ delivered[i].rec # 0 =>
         /\ Matches(delivered[i].queue, delivered[i].rec)
         /\ \A j \in 1 .. i - 1 : delivered[j].rec < delivered[i].rec

\* A record that nobody got was read by a queue of another interface, and is
\* still the lookahead unless it was spoilt or read over.
LostToOthers ==
  \A rec \in DOMAIN readers :
    Delivered(rec) \/ (~Matches(readers[rec], rec)
                       /\ (rec = Len(readers) => shared.buf_valid \/ ~shared.intact))

\* The queues of a capture file share a living reader, get its records in order,
\* once and at the right interface, and lose none but to each other; each is
\* copied to a buffer that nobody else has and that is large enough.
CapturesInOrder == BuffersSound /\ ReaderLives /\ FileOrder /\ LostToOthers
=============================================================================
