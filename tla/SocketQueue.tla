---------------------------- MODULE SocketQueue -----------------------------
(***************************************************************************)
(* The in-queue over a packet socket (ldp.c).  recvmmsg receives a batch   *)
(* into the next buffers; packets that the host itself sent are not for    *)
(* the caller, and their buffers go straight back to the ring.             *)
(***************************************************************************)
EXTENDS PacketRing

VARIABLES insock, \* the ring
          lent    \* the buffers of packets that the caller has not returned

socketVars == <<insock, lent>>

\* A buffer is named by the slot for which it was allocated.
SocketInit == insock = Full([i \in BufSlot |-> i]) /\ lent = {}

\* The kinds of the packets that one recvmmsg call of at most n may return.
Batch(n) == UNION {[1 .. k -> {"host", "outgoing"}] : k \in 0 .. n}

\* The numbers of a set in ascending order, each at its rank.
Rank(S, x) == Cardinality({y \in S : y <= x})
Ascending(S) == [n \in 1 .. Cardinality(S) |-> CHOOSE x \in S : Rank(S, x) = n]

\* What the call does with the packets it got: buf_start passes all of them.
Take(got) ==
  LET given == First(insock, Len(got))
      Kind(k) == {i \in DOMAIN got : got[i] = k}
      missed == [i \in 1 .. Cardinality(Kind("outgoing")) |-> given[Ascending(Kind("outgoing"))[i]]]
  IN  /\ insock' = deallocate_some([insock EXCEPT !.buf_start = Advance(@, Len(got))], missed)
      /\ lent' = lent \cup {given[i] : i \in Kind("host")}

\* Without a free buffer, and when recvmmsg fails, nothing changes.
ldp_in_queue_nextpkts_socket(num) ==
  /\ amnt_free(insock) # 0
  /\ \E got \in Batch(IF num > amnt_free(insock) THEN amnt_free(insock) ELSE num) : Take(got)

ldp_in_queue_deallocate_some_socket(pkts) ==
  /\ insock' = deallocate_some(insock, pkts)
  /\ lent' = lent \ Range(pkts)

SocketNext ==
  \/ \E num \in 1 .. num_bufs : ldp_in_queue_nextpkts_socket(num)
  \/ \E pkts \in Returns(lent) : ldp_in_queue_deallocate_some_socket(pkts)

SocketSpec == SocketInit /\ [][SocketNext]_socketVars

-----------------------------------------------------------------------------
(* Properties.                                                             *)

\* The calculation that ldp.c marks as one that "needs to be checked": the ring
\* counts its free buffers exactly, never receives into a buffer of the caller,
\* and has all buffers back, each once, when close frees the slots of a ring
\* whose packets were returned.
RingSound == Sound(insock, lent)
=============================================================================
