------------------------------ MODULE Headers -------------------------------
(***************************************************************************)
(* The fields of packet headers (iphdr.h, dnshdr.h): functions that set    *)
(* and get a field of a header of which nothing is known before.  A header *)
(* is a function from bit numbers to bits, in network order, so that the   *)
(* first bit of a byte is its highest one; a value is the sequence of its  *)
(* bits, as wide as the argument of the function that sets it.             *)
(***************************************************************************)
EXTENDS Integers, Sequences, SequencesExt, FiniteSetsExt, TLC

CONSTANTS Protocol,   \* the headers that are filled in
          MaxSets     \* bound on the calls; fields disturb each other in pairs

VARIABLES proto, mem,
          last,       \* the value of each field that was set, if it can come back
          sets

vars == <<proto, mem, last, sets>>

-----------------------------------------------------------------------------
(* Fields: the first bit, the width, the width of the argument, how many   *)
(* low bits of the argument are dropped (all 0, or the program aborts), and *)
(* how many low bits the function that gets the field returns.             *)

Part(at, width, arg, drop, sure) ==
  [at |-> at, width |-> width, arg |-> arg, drop |-> drop, sure |-> sure]
Field(at, width) == Part(at, width, width, 0, width)

Pcp == [pcp_version |-> Field(0, 8), pcp_r |-> Field(8, 1), pcp_opcode |-> Part(9, 7, 8, 0, 7),
        pcp_req_reserved |-> Field(16, 16), pcp_resp_reserved |-> Field(16, 8),
        pcp_resp_rcode |-> Field(24, 8), pcp_lifetime |-> Field(32, 32)]
PcpMap == [pcp_resp_epoch_time |-> Field(64, 32), pcp_resp_reserved2 |-> Field(96, 96),
           pcp_nonce |-> Field(192, 96), pcp_protocol |-> Field(288, 8), pcp_map_reserved |-> Field(296, 24),
           pcp_int_port |-> Field(320, 16), pcp_ext_port |-> Field(336, 16), pcp_ext_ip |-> Field(352, 128)]

Icmp == [icmp_type |-> Field(0, 8), icmp_code |-> Field(8, 8), icmp_checksum |-> Field(16, 16),
         icmp_header_data |-> Field(32, 32), icmp_echo_identifier |-> Field(32, 16)]

Arp == [arp_ether |-> Field(0, 48), arp_oper |-> Field(48, 16), arp_sha |-> Field(64, 48),
        arp_spa |-> Field(112, 32), arp_tha |-> Field(144, 48), arp_tpa |-> Field(192, 32)]

Ether == [ether_dst |-> Field(0, 48), ether_src |-> Field(48, 48), ether_type |-> Field(96, 16)]

Version == Part(0, 4, 8, 0, 4)

Fragmentation ==
  [ip_id |-> Field(32, 16), ip_rsvd_bit |-> Field(48, 1), ip_dont_frag |-> Field(49, 1),
   ip_more_frags |-> Field(50, 1), ip_frag_off |-> Part(51, 13, 16, 3, 16)]

Lengths == [ip_hdr_len |-> Part(4, 4, 8, 2, 6), ip_total_len |-> Field(16, 16)]

Addresses == [ip_hdr_cksum |-> Field(80, 16), ip_src |-> Field(96, 32), ip_dst |-> Field(128, 32)]

Ip == [ip_version |-> Version, ip_ttl |-> Field(64, 8), ip_proto |-> Field(72, 8)]
        @@ Lengths @@ Fragmentation @@ Addresses

\* Of the class, only the low half comes back: see ipv6_traffic_class.
Ip6 == [ip_version |-> Version, ipv6_traffic_class |-> Part(4, 8, 8, 0, 4),
         ipv6_flow_label |-> Part(12, 20, 32, 0, 20), ipv6_payload_len |-> Field(32, 16),
         ipv6_nexthdr |-> Field(48, 8), ipv6_hop_limit |-> Field(56, 8),
         ipv6_src |-> Field(64, 128), ipv6_dst |-> Field(192, 128)]

\* The acknowledgement flag can be cleared, the others only set.
Tcp == [tcp_src_port |-> Field(0, 16), tcp_dst_port |-> Field(16, 16),
        tcp_ack |-> Field(107, 1), tcp_rst |-> Field(109, 1), tcp_syn |-> Field(110, 1),
        tcp_fin |-> Field(111, 1), tcp_cksum |-> Field(128, 16)]
TcpNumbers == [tcp_seq_number |-> Field(32, 32), tcp_ack_number |-> Field(64, 32),
               tcp_data_offset |-> Part(96, 4, 8, 2, 6), tcp_window |-> Field(112, 16)]

Udp == [udp_src_port |-> Field(0, 16), udp_dst_port |-> Field(16, 16),
        udp_total_len |-> Field(32, 16), udp_cksum |-> Field(48, 16)]

\* The counts are set as 16 bits and returned as 8.
Dns == [dns_id |-> Field(0, 16), dns_qr |-> Field(16, 1), dns_opcode |-> Part(17, 4, 8, 0, 4),
        dns_aa |-> Field(21, 1), dns_tc |-> Field(22, 1), dns_rd |-> Field(23, 1), dns_ra |-> Field(24, 1),
        dns_z |-> Field(25, 3), dns_rcode |-> Part(28, 4, 8, 0, 4)]
DnsCounts == [dns_qdcount |-> Part(32, 16, 16, 0, 8), dns_ancount |-> Part(48, 16, 16, 0, 8),
              dns_nscount |-> Part(64, 16, 16, 0, 8), dns_arcount |-> Part(80, 16, 16, 0, 8)]

\* What both versions of IP have, where each has it; what a version has not is as
\* wide as nothing, and its value is 0 (for dont_frag, 1) or the program aborts.
Addresses46 == [ip46_src |-> <<Ip.ip_src, Ip6.ipv6_src>>, ip46_dst |-> <<Ip.ip_dst, Ip6.ipv6_dst>>]
Ip46 == Addresses46 @@
        [ip46_ttl |-> <<Ip.ip_ttl, Ip6.ipv6_hop_limit>>, ip46_proto |-> <<Ip.ip_proto, Ip6.ipv6_nexthdr>>,
         ip46_flow_label |-> <<Part(0, 0, 32, 0, 0), Ip6.ipv6_flow_label>>,
         ip46_id |-> <<Ip.ip_id, Part(0, 0, 16, 0, 0)>>,
         ip46_dont_frag |-> <<Ip.ip_dont_frag, Part(0, 0, 1, 0, 0)>>]

Table(p) ==
  CASE p = "pcp" -> Pcp @@ PcpMap [] p = "icmp" -> Icmp [] p = "arp" -> Arp [] p = "ether" -> Ether
    [] p = "ip" -> Ip [] p = "ipv6" -> Ip6 [] p = "tcp" -> Tcp @@ TcpNumbers [] p = "udp" -> Udp
    [] p = "dns" -> Dns @@ DnsCounts
    [] p = "ip4" -> [name \in DOMAIN Ip46 |-> Ip46[name][1]]
    [] p = "ip6" -> [name \in DOMAIN Ip46 |-> Ip46[name][2]]

\* Fields that the protocol puts in one place.
Shares(name) ==
  LET groups == { {"icmp_header_data", "icmp_echo_identifier"}, {"total_len", "payload_len"},
                  {"pcp_req_reserved", "pcp_resp_reserved"}, {"pcp_req_reserved", "pcp_resp_rcode"} }
  IN  {name} \cup UNION {g \in groups : name \in g}

Bits == 0 .. 479

Init ==
  /\ proto \in Protocol
  /\ \E bit \in {0, 1} :
       mem = [b \in Bits |-> IF proto \in {"ip4", "ip6"} /\ b < 4
                             THEN (IF proto = "ip4" THEN <<0, 1, 0, 0>> ELSE <<0, 1, 1, 0>>)[b + 1] ELSE bit]
  /\ last = << >> /\ sets = 0

-----------------------------------------------------------------------------
(* Setting and getting.                                                    *)

Zeros(n) == [k \in 1 .. n |-> 0]

Store(f, v) ==
  [b \in Bits |-> IF b \in f.at .. f.at + f.width - 1
                  THEN v[f.arg - f.drop - f.width + b - f.at + 1] ELSE mem[b]]

Load(f) ==
  SubSeq(Zeros(f.arg) \o [k \in 1 .. f.width |-> mem[f.at + k - 1]] \o Zeros(f.drop),
         f.width + f.drop + 1, f.width + f.drop + f.arg)

\* pcp_set_opcode only turns bits on.
Set(name, f, v) ==
  IF name = "pcp_opcode" THEN Store(f, [k \in 1 .. 8 |-> IF k > 1 /\ mem[f.at + k - 2] = 1 THEN 1 ELSE v[k]])
  ELSE Store(f, v)

\* ipv6_traffic_class puts both halves in one place; a count loses its high byte.
Get(name, f) ==
  CASE name = "ipv6_traffic_class" ->
         Zeros(4) \o [k \in 1 .. 4 |-> IF mem[f.at + k - 1] = 1 THEN 1 ELSE mem[f.at + k + 3]]
    [] name \in DOMAIN DnsCounts -> Zeros(8) \o SubSeq(Load(f), 9, 16)
    [] OTHER -> Load(f)

\* Whether the value comes back whole.
Fits(name, f, v) ==
  /\ \A k \in 1 .. f.arg - f.sure : v[k] = 0
  /\ name = "pcp_opcode" => \A b \in f.at .. f.at + f.width - 1 : mem[b] = 0

Pattern(f, low, high) ==
  [k \in 1 .. f.arg |-> IF k > f.arg - f.drop THEN 0 ELSE IF k = f.arg - f.drop THEN low ELSE high]

\* What callers may set: what has no argument has one value, and a data offset of
\* more than 60 aborts.
Value(name, f) ==
  CASE name = "arp_ether" -> {<<0, 0, 0, 0, 0, 0, 0, 0, 0, 0, 0, 0, 0, 0, 0, 1, 0, 0, 0, 0, 1, 0, 0, 0,
                                0, 0, 0, 0, 0, 0, 0, 0, 0, 0, 0, 0, 0, 1, 1, 0, 0, 0, 0, 0, 0, 1, 0, 0>>}
    [] name = "arp_oper" -> {Zeros(15) \o <<1>>, Zeros(14) \o <<1, 0>>}
    [] name \in {"tcp_rst", "tcp_syn", "tcp_fin"} -> {<<1>>}
    [] name \in {"dns_z", "pcp_resp_reserved2", "pcp_map_reserved"} -> {Zeros(f.width)}
    [] name = "tcp_data_offset" -> {Zeros(2) \o <<0, 1, 0, 1, 0, 0>>, Zeros(2) \o <<1, 1, 1, 1, 0, 0>>}
    [] name = "pcp_ext_ip" -> {Zeros(80) \o [k \in 1 .. 16 |-> 1] \o Pattern(Field(0, 32), low, 1) : low \in {0, 1}}
    [] f.width = 0 -> {[k \in 1 .. f.arg |-> IF name = "ip46_dont_frag" THEN 1 ELSE 0]}
    [] OTHER -> {Pattern(f, low, high) : low \in {0, 1}, high \in {0, 1}}

Remember(name, v, fits) ==
  last' = [g \in (DOMAIN last \ Shares(name)) \cup (IF fits THEN {name} ELSE {}) |->
             IF g = name THEN v ELSE last[g]]

SetField(name, v) ==
  /\ sets < MaxSets /\ sets' = sets + 1
  /\ mem' = Set(name, Table(proto)[name], v)
  /\ Remember(name, v, Fits(name, Table(proto)[name], v))
  /\ UNCHANGED proto

Number(v) == MapThenSumSet(LAMBDA k : v[k] * 2 ^ (Len(v) - k), DOMAIN v)
BitsOf(n, w) == [k \in 1 .. w |-> (n \div 2 ^ (w - k)) % 2]

\* Aborts for a TTL of 0.
ip_decr_ttl ==
  /\ proto = "ip" /\ sets < MaxSets /\ sets' = sets + 1
  /\ LET ttl == Number(Load(Ip.ip_ttl))
     IN  /\ ttl > 0 /\ mem' = Store(Ip.ip_ttl, BitsOf(ttl - 1, 8))
         /\ Remember("ip_ttl", BitsOf(ttl - 1, 8), TRUE)
  /\ UNCHANGED proto

\* The lengths of a packet of either version.
ip46_hdr_len == IF proto = "ip4" THEN Number(Load(Ip.ip_hdr_len)) ELSE 40
ip46_total_len ==
  IF proto = "ip4" THEN Number(Load(Ip.ip_total_len))
  ELSE (Number(Load(Ip6.ipv6_payload_len)) + 40) % 65536
ip46_payload_len ==
  IF proto = "ip4" THEN (ip46_total_len - ip46_hdr_len) % 65536 ELSE Number(Load(Ip6.ipv6_payload_len))

ip46_set_hdr_len(n) ==
  /\ (proto = "ip4" /\ n % 4 = 0) \/ (proto = "ip6" /\ n = 40)
  /\ sets < MaxSets /\ sets' = sets + 1 /\ UNCHANGED proto
  /\ mem' = IF proto = "ip4" THEN Store(Ip.ip_hdr_len, BitsOf(n, 8)) ELSE mem
  /\ last' = [g \in (DOMAIN last \ {"payload_len", "hdr_len"}) \cup (IF n < 64 THEN {"hdr_len"} ELSE {}) |->
                IF g = "hdr_len" THEN n ELSE last[g]]

ip46_set_total_len(n) ==
  /\ proto = "ip4" \/ (proto = "ip6" /\ n >= 40)
  /\ sets < MaxSets /\ sets' = sets + 1 /\ UNCHANGED proto
  /\ mem' = IF proto = "ip4" THEN Store(Ip.ip_total_len, BitsOf(n, 16))
            ELSE Store(Ip6.ipv6_payload_len, BitsOf(n - 40, 16))
  /\ Remember("total_len", n, TRUE)

\* For IPv4 the header is taken to have no options.
ip46_set_payload_len(n) ==
  /\ proto \in {"ip4", "ip6"}
  /\ sets < MaxSets /\ sets' = sets + 1 /\ UNCHANGED proto
  /\ mem' = IF proto = "ip4" THEN Store(Ip.ip_total_len, BitsOf((n + 20) % 65536, 16))
            ELSE Store(Ip6.ipv6_payload_len, BitsOf(n, 16))
  /\ Remember("payload_len", n, proto = "ip6" \/ ip46_hdr_len = 20)

Next ==
  \/ \E name \in DOMAIN Table(proto) : \E v \in Value(name, Table(proto)[name]) : SetField(name, v)
  \/ ip_decr_ttl
  \/ \E n \in {20, 40, 60, 252} : ip46_set_hdr_len(n)
  \/ \E n \in {20, 39, 40, 65535} : ip46_set_total_len(n)
  \/ \E n \in {0, 20, 65515, 65516, 65535} : ip46_set_payload_len(n)
  \/ sets = MaxSets /\ UNCHANGED vars

Spec == Init /\ [][Next]_vars

-----------------------------------------------------------------------------
(* Properties.                                                             *)

arp_is_valid_reqresp ==
  /\ \A b \in 0 .. 47 : mem[b] = IF b \in {15, 20, 37, 38, 45} THEN 1 ELSE 0
  /\ Number(Load(Arp.arp_oper)) \in {1, 2}

\* Whatever was in the header before, and whatever other fields were set in
\* between, each field has the value that was set last, if the value is one that
\* the functions can give back: no mask or shift touches a neighbour.  The
\* lengths of IP agree, except that for IPv4 the payload is set as if there were
\* no options.  An ARP header that was filled in is valid.
FieldsKept ==
  /\ \A name \in DOMAIN last :
       CASE name = "hdr_len" -> ip46_hdr_len = last[name]
         [] name = "total_len" -> ip46_total_len = last[name]
         [] name = "payload_len" -> ip46_payload_len = last[name]
         [] OTHER -> Get(name, Table(proto)[name]) = last[name]
  /\ {"arp_ether", "arp_oper"} \subseteq DOMAIN last => arp_is_valid_reqresp
=============================================================================
