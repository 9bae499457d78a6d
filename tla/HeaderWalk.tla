----------------------------- MODULE HeaderWalk -----------------------------
(***************************************************************************)
(* The loops that walk over headers of variable length: the extension      *)
(* headers of an IPv6 packet (ipv6_proto_hdr_2 in iphdr.h and its twin for *)
(* const pointers) and the options of a TCP header (iphdr.c).  One action  *)
(* is one turn of a loop.  What is read is laid out from a list of headers *)
(* or options, and cut off at size; the values inside the options are kept *)
(* apart only by the offset they are read from.                            *)
(***************************************************************************)
EXTENDS Integers, Sequences, SequencesExt, FiniteSetsExt

CONSTANTS Chain,    \* lists of IPv6 headers [kind, lenfield, later]
          Options,  \* lists of TCP options [kind, optlen]
          Upper     \* the protocol after the last extension header

VARIABLES walk,  \* which function runs
          list, size,
          off,   \* off of the packet, curoff of the TCP header
          pc, nexthdr, res

vars == <<walk, list, size, off, pc, nexthdr, res>>

FRAG == 44
AH == 51

ipv6_extlen(kind, lenfield) ==
  IF kind = FRAG THEN 8 ELSE IF kind = AH THEN lenfield * 4 + 8 ELSE lenfield * 8 + 8

is_ipv6_nexthdr(kind) == kind \in {0, 60, 43, FRAG, AH}

-----------------------------------------------------------------------------
(* The input.                                                              *)

Sum(f(_), n) == FoldLeftDomain(LAMBDA acc, k : acc + (IF k <= n THEN f(k) ELSE 0), 0, list)

Bytes(o) == IF o.kind \in {0, 1} THEN 1 ELSE IF o.optlen < 2 THEN 2 ELSE o.optlen

Start(i) ==
  IF walk = "ipv6" THEN 40 + Sum(LAMBDA k : ipv6_extlen(list[k].kind, list[k].lenfield), i - 1)
  ELSE 20 + Sum(LAMBDA k : Bytes(list[k]), i - 1)

End == Start(Len(list) + 1)

\* What an extension header at o may say: inside a header there is anything.
HeaderAt(o) ==
  LET i == {k \in DOMAIN list : Start(k) = o}
  IN  IF i = {} THEN [next : {0, FRAG, AH, Upper}, lenfield : {0, 1}, later : BOOLEAN]
      ELSE {[next |-> IF k = Len(list) THEN Upper ELSE list[k + 1].kind,
             lenfield |-> list[k].lenfield, later |-> list[k].later] : k \in i}

\* A byte of the options; they are padded with the end of the options.
ByteAt(o) ==
  LET kind == {k \in DOMAIN list : Start(k) = o}
      len == {k \in DOMAIN list : list[k].kind \notin {0, 1} /\ Start(k) + 1 = o}
  IN  IF kind # {} THEN list[Max(kind)].kind ELSE IF len # {} THEN list[Max(len)].optlen ELSE 0

Up(n) == ((n + 3) \div 4) * 4

None == [found |-> FALSE, is_fragmented |-> FALSE, frag_hdr_off |-> 0]
NoInfo == [valid |-> FALSE, mss |-> 0, wscale |-> 0, sack_permitted |-> FALSE, ts |-> 0]
NoHeaders == [sackoff |-> 0, sacklen |-> 0, tsoff |-> 0]

Init ==
  /\ \/ walk = "ipv6" /\ list \in Chain /\ off = 40 /\ size \in {End, End - 4, End + 8} /\ size >= 40
        /\ nexthdr = (IF list = << >> THEN Upper ELSE list[1].kind) /\ res = None
     \/ /\ walk \in {"parse", "find", "sack"} /\ list \in Options /\ off = 20 /\ nexthdr = 0
        /\ size \in {Up(End), Up(End) - 4} /\ size >= 20
        /\ res = IF walk = "parse" THEN NoInfo ELSE NoHeaders
  /\ pc = "loop"

-----------------------------------------------------------------------------
(* IPv6.                                                                   *)

Done == pc' = "done" /\ UNCHANGED <<off, nexthdr>>

\* Mutant: a header may end beyond the packet.
Beyond_never(end) == FALSE

Beyond(end) == end > size

\* The length of a header is computed with the type of the header after it.
NextHeader(h, extlen) ==
  /\ nexthdr' = h.next
  /\ IF Beyond(off + extlen) THEN pc' = "done" /\ UNCHANGED off ELSE off' = off + extlen /\ UNCHANGED pc

Turn(h, fragmented) ==
  /\ res' = IF fragmented THEN [res EXCEPT !.is_fragmented = TRUE, !.frag_hdr_off = off] ELSE res
  /\ IF fragmented /\ h.later
     THEN pc' = "found" /\ UNCHANGED <<off, nexthdr>>
     ELSE NextHeader(h, ipv6_extlen(h.next, h.lenfield))

ipv6_proto_hdr_2 ==
  /\ walk = "ipv6" /\ pc = "loop"
  /\ \/ ~is_ipv6_nexthdr(nexthdr) /\ pc' = "found" /\ UNCHANGED <<off, nexthdr, res>>
     \/ is_ipv6_nexthdr(nexthdr) /\ off + 8 > size /\ Done /\ UNCHANGED res
     \/ /\ is_ipv6_nexthdr(nexthdr) /\ off + 8 <= size
        /\ \E h \in HeaderAt(off) : Turn(h, nexthdr = FRAG)

\* NULL, or where the protocol starts, with what the out parameters hold.
ipv6_return ==
  /\ walk = "ipv6" /\ pc = "found" /\ Done
  /\ res' = [found |-> TRUE, is_fragmented |-> res.is_fragmented, frag_hdr_off |-> res.frag_hdr_off]

-----------------------------------------------------------------------------
(* TCP options.                                                            *)

\* The length byte, or what is left if it is more or there is none.
OptLen == IF off + 1 < size THEN Min({ByteAt(off + 1), size - off}) ELSE size - off

Skip(n) == off' = off + n /\ UNCHANGED pc

\* An option of no known kind, which has to have a length.
Unknown(n) ==
  /\ UNCHANGED res
  /\ IF off + 1 >= size \/ n < 2 THEN pc' = "done" /\ UNCHANGED off ELSE Skip(n)

Parsed(kind, n) ==
  [res EXCEPT !.mss = IF kind = 2 /\ n = 4 THEN off + 2 ELSE @,
              !.wscale = IF kind = 3 /\ n = 3 THEN off + 2 ELSE @,
              !.sack_permitted = @ \/ (kind = 4 /\ n = 2),
              !.ts = IF kind = 8 /\ n = 10 THEN off + 2 ELSE @]

tcp_parse_options(kind, n) ==
  /\ walk = "parse" /\ pc = "loop" /\ UNCHANGED <<walk, list, size, nexthdr>>
  /\ \/ (off >= size \/ kind = 0) /\ pc' = "done" /\ res' = [res EXCEPT !.valid = TRUE] /\ UNCHANGED off
     \/ off < size /\ kind = 1 /\ Skip(1) /\ UNCHANGED res
     \/ /\ off < size /\ kind \in {2, 3, 4, 8} /\ res' = Parsed(kind, n)
        /\ IF n < 2 THEN pc' = "done" /\ UNCHANGED off ELSE Skip(n)
     \/ off < size /\ kind \notin {0, 1, 2, 3, 4, 8} /\ Unknown(n)

\* Here options 5 and 8 may be of any length, 0 included.
tcp_find_sack_ts_headers(kind, n) ==
  /\ walk = "find" /\ pc = "loop" /\ UNCHANGED <<walk, list, size, nexthdr>>
  /\ \/ (off >= size \/ kind = 0) /\ pc' = "done" /\ UNCHANGED <<off, res>>
     \/ off < size /\ kind = 1 /\ Skip(1) /\ UNCHANGED res
     \/ off < size /\ kind = 5 /\ Skip(n) /\ res' = [res EXCEPT !.sackoff = off, !.sacklen = n]
     \/ off < size /\ kind = 8 /\ Skip(n) /\ res' = [res EXCEPT !.tsoff = IF n = 10 THEN off ELSE @]
     \/ off < size /\ kind \notin {0, 1, 5, 8} /\ Unknown(n)

tcp_find_sack_header(kind, n) ==
  /\ walk = "sack" /\ pc = "loop" /\ UNCHANGED <<walk, list, size, nexthdr>>
  /\ \/ (off >= size \/ kind = 0) /\ pc' = "done" /\ UNCHANGED <<off, res>>
     \/ off < size /\ kind = 1 /\ Skip(1) /\ UNCHANGED res
     \/ off < size /\ kind = 5 /\ pc' = "done" /\ res' = [res EXCEPT !.sackoff = off, !.sacklen = n] /\ UNCHANGED off
     \/ off < size /\ kind \notin {0, 1, 5} /\ Unknown(n)

Step ==
  \/ ipv6_proto_hdr_2 /\ UNCHANGED <<walk, list, size>>
  \/ ipv6_return /\ UNCHANGED <<walk, list, size>>
  \/ tcp_parse_options(ByteAt(off), OptLen)
  \/ tcp_find_sack_ts_headers(ByteAt(off), OptLen)
  \/ tcp_find_sack_header(ByteAt(off), OptLen)

Spec == Init /\ [][Step]_vars /\ WF_vars(Step)

-----------------------------------------------------------------------------
(* Properties.                                                             *)

\* The headers that count: those before a later fragment's data or the end of the
\* options.
Seen ==
  LET last == {i \in DOMAIN list : IF walk = "ipv6" THEN list[i].kind = FRAG /\ list[i].later
                                   ELSE list[i].kind = 0}
  IN  IF last = {} THEN DOMAIN list ELSE 1 .. Min(last) - 1

OfKind(kind) == {i \in Seen : list[i].kind = kind}
Sized(kind, n) == {i \in OfKind(kind) : list[i].optlen = n}
Latest(s, d) == IF s = {} THEN 0 ELSE Start(Max(s)) + d

\* Each header is as long as the type of the next one makes it, and fits.
PlainChain ==
  /\ \A i \in Seen : \A h \in HeaderAt(Start(i)) :
       ipv6_extlen(h.next, h.lenfield) = ipv6_extlen(list[i].kind, h.lenfield)
  /\ size >= End

PlainOptions ==
  \A i \in Seen : list[i].kind = 1 \/ (list[i].optlen >= 2 /\ Start(i) + list[i].optlen <= size)

\* Where the walk ends in a plain chain: at the header of a later fragment, or after
\* the last header; and the last fragment header on the way.
ChainEnd == IF Seen = DOMAIN list THEN End ELSE Start(Max(Seen \cup {0}) + 1)
Fragment ==
  IF Seen = DOMAIN list THEN Latest(OfKind(FRAG), 0) ELSE ChainEnd

\* What is found is what the list says, and inside the packet or the options
\* whatever they say: for IPv6 if the chain is plain, so that it does not matter
\* that ipv6_proto_hdr_2 computes the length of a header from the type of the next
\* one; for TCP if the options have lengths and fit.
WalkExact ==
  pc = "done" =>
    CASE walk = "ipv6" ->
           /\ res.found => off <= size
           /\ PlainChain => /\ res.found /\ off = ChainEnd
                            /\ nexthdr = IF Seen = DOMAIN list THEN Upper ELSE FRAG
                            /\ res.is_fragmented = (Fragment > 0) /\ res.frag_hdr_off = Fragment
      [] walk = "parse" ->
           /\ res.mss + 2 <= size /\ res.wscale + 1 <= size /\ res.ts + 8 <= size
           /\ PlainOptions =>
                res = [valid |-> TRUE,
                       mss |-> Latest(Sized(2, 4), 2),
                       wscale |-> Latest(Sized(3, 3), 2),
                       sack_permitted |-> Sized(4, 2) # {},
                       ts |-> Latest(Sized(8, 10), 2)]
      [] OTHER ->
           /\ res.sackoff + res.sacklen <= size /\ (res.tsoff > 0 => res.tsoff + 10 <= size)
           /\ PlainOptions =>
                /\ res.tsoff = IF walk = "sack" THEN 0 ELSE Latest(Sized(8, 10), 0)
                /\ OfKind(5) = {} => res.sackoff = 0
                /\ OfKind(5) # {} => LET i == IF walk = "sack" THEN Min(OfKind(5)) ELSE Max(OfKind(5))
                                    IN  res.sackoff = Start(i) /\ res.sacklen = list[i].optlen

\* Every walk ends, except that tcp_find_sack_ts_headers turns for ever on a SACK or
\* timestamp option whose length is 0.
WalkEnded ==
  pc = "done" \/ (walk = "find" /\ off < size /\ ByteAt(off) \in {5, 8} /\ OptLen = 0)

WalkEnds == <>WalkEnded
=============================================================================
