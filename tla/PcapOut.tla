------------------------------ MODULE PcapOut -------------------------------
(***************************************************************************)
(* Out-queues over capture files (ldppcap.c): a packet of a call is        *)
(* written to the capture file and then to the pcapng file of the queue,   *)
(* each time under the mutex of the file, which queues share, so that      *)
(* their calls mix.  The writers return 0 for a record that was written,   *)
(* and the calls take everything but 1 for an error: with a file, a call   *)
(* is over after its first packet and returns -1, also when all was        *)
(* written.  The caller goes on with any packet that is not older.         *)
(* The packets of a queue are numbered; a chunked packet is put together   *)
(* first and then written in the same way.                                 *)
(***************************************************************************)
EXTENDS Integers, Sequences, SequencesExt, FiniteSets

CONSTANTS Outq,
          FilesOf,      \* of each queue: which of the files "regular" and "ng" it has
          MaxPackets,   \* bound on the packets of a queue
          MaxCalls,     \* bound on the calls of a queue
          MaxFaults     \* bound on the writes that fail

OutFile == {"regular", "ng"}

PcapOutAssumption ==
  FilesOf \in [Outq -> SUBSET OutFile] /\ {MaxPackets, MaxCalls, MaxFaults} \subseteq Nat

VARIABLES outfile,  \* the records of each file: queue, packet, and whether it is whole
          outstep,  \* of each queue: where its call is
          packets,  \* of each queue: the packets of its call
          ret,      \* of each queue: what the last write, then the call, has returned
          calls,    \* of each queue: the first packet of each call
          faults

outVars == <<outfile, outstep, packets, ret, calls, faults>>

OutInit ==
  /\ outfile = [f \in OutFile |-> << >>] /\ faults = 0
  /\ outstep = [q \in Outq |-> "idle"] /\ packets = [q \in Outq |-> <<1>>]
  /\ ret = [q \in Outq |-> 0] /\ calls = [q \in Outq |-> << >>]

EIO == 5

Proceed(q, place) == outstep' = [outstep EXCEPT ![q] = place]

Set(q, r) == ret' = [ret EXCEPT ![q] = r]

\* A call without packets, or of a queue without files, is over at once.
ldp_out_queue_inject_pcap(q, first, num) ==
  /\ outstep[q] = "idle" /\ first >= packets[q][1] /\ first + num - 1 <= MaxPackets
  /\ Set(q, 0)
  /\ IF num = 0 \/ FilesOf[q] = {}
     THEN UNCHANGED <<outstep, packets, calls>>
     ELSE /\ Len(calls[q]) < MaxCalls
          /\ packets' = [packets EXCEPT ![q] = [k \in 1 .. num |-> first + k - 1]]
          /\ calls' = [calls EXCEPT ![q] = Append(@, first)]
          /\ Proceed(q, "regular")
  /\ UNCHANGED <<outfile, faults>>

\* Mutant: the index runs ahead of the loop.
Current_last(q) == Last(packets[q])
Current(q) == packets[q][1]

\* A write that fails may leave a part of the record in the file.
Write(q, f) ==
  \/ /\ Set(q, 0) /\ UNCHANGED faults
     /\ outfile' = [outfile EXCEPT ![f] = Append(@, [queue |-> q, n |-> Current(q), whole |-> TRUE])]
  \/ /\ faults < MaxFaults /\ faults' = faults + 1 /\ Set(q, -EIO)
     /\ outfile' = [outfile EXCEPT ![f] = Append(@, [queue |-> q, n |-> Current(q), whole |-> FALSE])]

WriteIfOpen(q, f) ==
  IF f \in FilesOf[q] THEN Write(q, f) ELSE UNCHANGED <<outfile, ret, faults>>

WriteRegular(q) ==
  /\ outstep[q] = "regular" /\ WriteIfOpen(q, "regular")
  /\ Proceed(q, "ng") /\ UNCHANGED <<packets, calls>>

WriteNg(q) ==
  /\ outstep[q] = "ng" /\ WriteIfOpen(q, "ng")
  /\ Proceed(q, "test") /\ UNCHANGED <<packets, calls>>

\* Whatever a write has returned is not 1: the loop ends at its first packet.
Return(q) ==
  /\ outstep[q] = "test" /\ ret[q] # 1
  /\ Set(q, -1)
  /\ Proceed(q, "idle") /\ UNCHANGED <<outfile, packets, calls, faults>>

\* A queue that is closed and opened again goes on in the same files, which are
\* found by name and never closed.
Reopen(q) == outstep[q] = "idle" /\ UNCHANGED outVars

OutNext ==
  \E q \in Outq :
    \/ \E first \in 1 .. MaxPackets, num \in 0 .. MaxPackets : ldp_out_queue_inject_pcap(q, first, num)
    \/ Reopen(q) \/ WriteRegular(q) \/ WriteNg(q) \/ Return(q)

OutSpec == OutInit /\ [][OutNext]_outVars

-----------------------------------------------------------------------------
(* Properties.                                                             *)

\* The calls of a queue whose write to a file is over.
Behind(q, f) ==
  IF outstep[q] = "regular" \/ (outstep[q] = "ng" /\ f = "ng") THEN Front(calls[q]) ELSE calls[q]

\* Where the records of a queue are in a file.
Of(f, q) == {k \in DOMAIN outfile[f] : outfile[f][k].queue = q}

\* Each file of a queue has the first packet of every call, once per call and in
\* the order of the calls, whatever other queues write in between, and whole if no
\* write failed; and yet no call with a file says that it has written something.
FirstPacketWritten ==
  \A q \in Outq :
    /\ \A f \in FilesOf[q] :
         /\ Cardinality(Of(f, q)) = Len(Behind(q, f))
         /\ \A k \in Of(f, q) : outfile[f][k].n = Behind(q, f)[Cardinality({i \in Of(f, q) : i <= k})]
         /\ faults = 0 => \A k \in DOMAIN outfile[f] : outfile[f][k].whole
    /\ FilesOf[q] # {} => ret[q] <= 0
=============================================================================
