------------------------------ MODULE Checksum ------------------------------
(***************************************************************************)
(* The Internet checksum (ipcksum.h, ipcksum.c): computed over a packet,   *)
(* and kept right by the functions that change a field and adjust it by    *)
(* what changed, word by word, also where a field starts at an odd offset  *)
(* and shares words with its neighbours.  Words are summed as the host     *)
(* reads them, which is checked for both byte orders.                      *)
(*                                                                         *)
(* The packet is a function from offsets to bytes.  Where the options of   *)
(* TCP are is given; HeaderWalk is about finding them.                     *)
(***************************************************************************)
EXTENDS Integers, Sequences, SequencesExt, FiniteSetsExt

CONSTANTS Form,        \* [little, version, proto, paylen, none, mss, sack, sacklen, ts]
          Fill,        \* what the bytes of a packet are at first
          Word16,      \* values for the fields
          MaxUpdates   \* bound on the calls

VARIABLES form,
          pkt,
          looping,     \* a call that does not return
          updates

vars == <<form, pkt, looping, updates>>

Word(p, o) == p[o] * 256 + p[o + 1]
Put(p, o, w) == [p EXCEPT ![o] = w \div 256, ![o + 1] = w % 256]

-----------------------------------------------------------------------------
(* Computing a checksum.                                                   *)

\* The words of a packet are so few that two turns of the loop are enough.
Fold(sum) == LET once == (sum % 65536) + (sum \div 65536) IN (once % 65536) + (once \div 65536)

HostWord(hi, lo) == IF form.little THEN lo * 256 + hi ELSE hi * 256 + lo

ip_cksum_postprocess(sum) ==
  LET c == 65535 - Fold(sum) IN IF form.little THEN (c % 256) * 256 + (c \div 256) ELSE c

ip_cksum_feed(p, from, sz) ==
  MapThenSumSet(LAMBDA k : HostWord(p[from + 2 * k], IF 2 * k + 1 < sz THEN p[from + 2 * k + 1] ELSE 0),
                0 .. (sz - 1) \div 2)

iplen == IF form.version = 4 THEN 20 ELSE 40
Protocol == CASE form.proto = "icmp" -> 1 [] form.proto = "tcp" -> 6 [] form.proto = "udp" -> 17

\* The addresses, the protocol and the length; nothing for ICMP.
PseudoHeader(p) ==
  IF form.proto = "icmp" THEN 0
  ELSE HostWord(0, Protocol) + HostWord(form.paylen \div 256, form.paylen % 256)
         + (IF form.version = 4 THEN ip_cksum_feed(p, 12, 8) ELSE ip_cksum_feed(p, 8, 32))

ip46_hdr_cksum_calc(p) ==
  IF form.version = 4 THEN ip_cksum_postprocess(ip_cksum_feed(p, 0, 20)) ELSE 0

cksum_calc(p) == ip_cksum_postprocess(PseudoHeader(p) + ip_cksum_feed(p, iplen, form.paylen))

\* Where the checksum of the payload is.
CksumOff == iplen + (CASE form.proto = "icmp" -> 2 [] form.proto = "tcp" -> 16 [] form.proto = "udp" -> 6)

set_cksum_calc(p) == Put(p, CksumOff, cksum_calc(Put(p, CksumOff, 0)))

ip46_set_hdr_cksum_calc(p) ==
  IF form.version = 4 THEN Put(p, 10, ip46_hdr_cksum_calc(Put(p, 10, 0))) ELSE p

\* Mutant: a carry is lost.
ip_update_cksum16_carry(cksum, old, new) ==
  65535 - (((65535 - cksum) + (65535 - old) + new) % 65536)

ip_update_cksum16(cksum, old, new) == 65535 - Fold((65535 - cksum) + (65535 - old) + new)

\* The words at offs are those of p before and those of q after.
UpdateWords(cksum, p, q, offs) ==
  FoldLeft(LAMBDA c, o : ip_update_cksum16(c, Word(p, o), Word(q, o)), cksum, offs)

\* A packet with a length, an offset and a protocol in place, and valid checksums.
Init ==
  /\ form \in Form /\ looping = FALSE /\ updates = 0
  /\ \E fill \in Fill :
       LET p == Put([o \in 0 .. iplen + form.paylen + 1 |-> fill], IF form.version = 4 THEN 8 ELSE 6, 256 + Protocol)
       IN  pkt = ip46_set_hdr_cksum_calc(IF form.none THEN Put(p, CksumOff, 0) ELSE set_cksum_calc(p))

-----------------------------------------------------------------------------
(* Changing fields.                                                        *)

\* Setting a field so that q results, and adjusting the checksum of the payload; a
\* UDP checksum of 0 is none and stays.
Adjusted(p, q, offs) ==
  IF form.proto = "udp" /\ Word(p, CksumOff) = 0 THEN q
  ELSE Put(q, CksumOff, UpdateWords(Word(p, CksumOff), p, q, offs))

Update(q) == /\ ~looping /\ updates < MaxUpdates /\ updates' = updates + 1
             /\ pkt' = q /\ UNCHANGED <<form, looping>>

\* ip_set_src_cksum_update and ip_set_dst_cksum_update, at 12 and 16.
SetAddress(at, q) ==
  /\ form.version = 4
  /\ Update(LET r == Put(q, 10, UpdateWords(Word(pkt, 10), pkt, q, <<at, at + 2>>))
            IN  IF form.proto = "icmp" THEN r ELSE Adjusted(pkt, r, <<at, at + 2>>))

ip_decr_ttl_cksum_update ==
  /\ form.version = 4 /\ pkt[8] > 0
  /\ LET q == [pkt EXCEPT ![8] = @ - 1]
     IN  Update(Put(q, 10, UpdateWords(Word(pkt, 10), pkt, q, <<8>>)))

\* The fields of one word: ports (TCP and UDP), the window, the identifier of an echo.
SetWord(at, w) == Update(Adjusted(pkt, Put(pkt, iplen + at, w), <<iplen + at>>))

\* The sequence and acknowledgement numbers.
SetNumber(at, hi, lo) ==
  /\ form.proto = "tcp"
  /\ Update(Adjusted(pkt, Put(Put(pkt, iplen + at, hi), iplen + at + 2, lo), <<iplen + at, iplen + at + 2>>))

tcp_set_ack_off_cksum_update ==
  /\ form.proto = "tcp"
  /\ Update(Adjusted(pkt, [pkt EXCEPT ![iplen + 13] = @ - 16 * ((@ \div 16) % 2)], <<iplen + 12>>))

-----------------------------------------------------------------------------
(* Changing options.                                                       *)

\* The words that an even or an odd number of bytes at o is in.
Aligned(o) == (o - iplen) % 2 = 0

tcp_set_mss_cksum_update(mss) ==
  /\ form.proto = "tcp"
  /\ LET o == iplen + form.mss
     IN  Update(Adjusted(pkt, Put(pkt, o + 2, mss), IF Aligned(o) THEN <<o + 2>> ELSE <<o + 1, o + 3>>))

\* One turn of tcp_disable_sack_cksum_update: two bytes, or the last one, become no
\* operations.
Disable(acc, o, n) ==
  LET q == [acc.p EXCEPT ![o] = 1, ![o + 1] = IF n = 1 THEN @ ELSE 1]
  IN  [p |-> q, c |-> UpdateWords(acc.c, acc.p, q, IF Aligned(o) THEN <<o>> ELSE <<o - 1, o + 1>>)]

\* The option is gone afterwards.
tcp_disable_sack_cksum_update ==
  /\ form.proto = "tcp" /\ form.sack > 0 /\ ~looping /\ updates < MaxUpdates /\ updates' = updates + 1
  /\ LET turns == [k \in 1 .. (form.sacklen + 1) \div 2 |-> 2 * (k - 1)]
         end == FoldLeft(LAMBDA acc, k : Disable(acc, iplen + form.sack + k, form.sacklen - k),
                         [p |-> pkt, c |-> Word(pkt, CksumOff)], turns)
     IN  pkt' = Put(end.p, CksumOff, end.c)
  /\ form' = [form EXCEPT !.sack = 0] /\ UNCHANGED looping

\* Four bytes at o plus a number of 32 bits.
Add32(p, o, hi, lo) ==
  LET low == Word(p, o + 2) + lo
  IN  Put(Put(p, o + 2, low % 65536), o, (Word(p, o) + hi + low \div 65536) % 65536)

\* tcp_adjust_tsval_cksum_update and tcp_adjust_tsecho_cksum_update, at 2 and 6.
AdjustTs(at, hi, lo) ==
  /\ form.proto = "tcp" /\ form.ts > 0
  /\ LET o == iplen + form.ts + at
     IN  Update(Adjusted(pkt, Add32(pkt, o, hi, lo), IF Aligned(o) THEN <<o, o + 2>> ELSE <<o - 1, o + 1, o + 3>>))

\* The start and the end of a block.
Block(p, o, hi, lo) == Add32(Add32(p, o, hi, lo), o + 4, hi, lo)

AdjustBlock(acc, o, hi, lo) ==
  LET q == Block(acc.p, o, hi, lo)
  IN  [p |-> q, c |-> UpdateWords(acc.c, acc.p, q, <<o, o + 2, o + 4, o + 6>>)]

\* If the option is at an odd offset the loop never leaves its first block: it adds
\* again and again, and the checksum, which is stored after the loop, is left.
tcp_adjust_sack_cksum_update(hi, lo) ==
  /\ form.proto = "tcp" /\ form.sack > 0 /\ ~looping /\ updates < MaxUpdates /\ updates' = updates + 1
  /\ LET o == iplen + form.sack + 2
         blocks == [k \in 1 .. (form.sacklen - 2) \div 8 |-> o + 8 * (k - 1)]
         end == FoldLeft(LAMBDA acc, b : AdjustBlock(acc, b, hi, lo), [p |-> pkt, c |-> Word(pkt, CksumOff)], blocks)
     IN  IF Aligned(o) \/ blocks = << >>
         THEN pkt' = Put(end.p, CksumOff, end.c) /\ UNCHANGED looping
         ELSE pkt' = Block(pkt, o, hi, lo) /\ looping' = TRUE
  /\ UNCHANGED form

\* What a caller does that has no function to adjust the checksum.
Recalculate(o, w) == Update(ip46_set_hdr_cksum_calc(set_cksum_calc(Put(pkt, o, w))))

-----------------------------------------------------------------------------
(* Any calls; among the values is the one that makes the checksum 0.       *)

Values(o) == Word16 \cup {Fold(Word(pkt, o) + Word(pkt, CksumOff))}

Fields == CASE form.proto = "icmp" -> {4} [] form.proto = "udp" -> {0, 2} [] form.proto = "tcp" -> {0, 2, 14}

Next ==
  \/ \E at \in {12, 16} : \E w \in Values(at), v \in Word16 : SetAddress(at, Put(Put(pkt, at, w), at + 2, v))
  \/ ip_decr_ttl_cksum_update
  \/ \E at \in Fields : \E w \in Values(iplen + at) : SetWord(at, w)
  \/ \E at \in {4, 8}, hi, lo \in Word16 : SetNumber(at, hi, lo)
  \/ tcp_set_ack_off_cksum_update
  \/ \E mss \in Word16 : tcp_set_mss_cksum_update(mss)
  \/ tcp_disable_sack_cksum_update
  \/ \E at \in {2, 6}, hi, lo \in Word16 : AdjustTs(at, hi, lo)
  \/ \E hi, lo \in Word16 : tcp_adjust_sack_cksum_update(hi, lo)
  \/ \E w \in Word16 : ~form.none /\ Recalculate(IF form.version = 4 THEN 12 ELSE 8, w)

Spec == Init /\ [][Next]_vars

-----------------------------------------------------------------------------
(* Properties.                                                             *)

\* After any changes the checksums verify: summing the header, or the payload with
\* the pseudo header, gives 0.  A UDP packet without a checksum stays without one;
\* one with a checksum may lose it, when the adjusted value happens to be 0.  A
\* call that adjusts SACK blocks at an odd offset never gets there.
ChecksumsVerify ==
  /\ ip46_hdr_cksum_calc(pkt) = 0
  /\ IF form.none THEN Word(pkt, CksumOff) = 0
     ELSE \/ looping
          \/ form.proto = "udp" /\ Word(pkt, CksumOff) = 0
          \/ cksum_calc(pkt) = 0
=============================================================================
