---------------------------- MODULE CaptureFile -----------------------------
(***************************************************************************)
(* Capture files (mypcap.c, mypcapng.c, mypcapjoker.c).  A writer on a     *)
(* host of either byte order makes a file of the old or of the pcapng      *)
(* format, which may end within any byte; other tools add blocks of their  *)
(* own.  The reader, on a little-endian host, finds out which format it    *)
(* has and takes one record or block a step.                               *)
(*                                                                         *)
(* A file is a sequence of bytes, of Base values; magic numbers have other *)
(* digits, but are as asymmetric as in the code, and 0x0A0D0D0A is the     *)
(* same in both orders.  A second has 10^Micro microseconds.               *)
(***************************************************************************)
EXTENDS Integers, Sequences, SequencesExt, FiniteSetsExt

CONSTANTS Packet,     \* what is written: data, time and name of the interface
          ForeignIdb, \* interfaces of other tools: name, resol, offset
          Garbage,    \* what uninitialised memory may hold
          Cuts,       \* the numbers of bytes that a crash may cut off
          MaxBlocks,  \* bound on the records or blocks of a file
          JOKER,      \* the interface that files of the old format belong to
          NULL

Base == 16
Micro == 2
Nano == 10            \* 1000 in the code
Least == 3            \* 1514 in the code

CaptureFileAssumption == MaxBlocks \in Nat /\ Garbage \subseteq Nat /\ Cuts \subseteq Nat

VARIABLES phase,      \* "start", "write", "open", "read" or "done"
          is_ng, big, file, blocks,
          section,    \* the number of the section
          names,      \* its interfaces, by index
          written,    \* the packets that can be read back, with the end of their record
          stop,       \* what the first thing that cannot be read makes of the reader
          whole,      \* the file has not been cut
          pos, swap, ns, interfaces, capacity, ret, read

writer == <<is_ng, big, file, blocks, section, names, written, stop, whole>>
reader == <<pos, swap, ns, interfaces, capacity, ret, read>>
vars == <<phase, writer, reader>>

Init ==
  /\ phase = "start" /\ is_ng = FALSE /\ big = FALSE /\ file = << >> /\ blocks = 0
  /\ section = 0 /\ names = << >> /\ written = << >> /\ stop = "none" /\ whole = TRUE
  /\ pos = 1 /\ swap = FALSE /\ ns = FALSE /\ interfaces = << >> /\ capacity = 0
  /\ ret = 1 /\ read = << >>

-----------------------------------------------------------------------------
(* Bytes.                                                                  *)

Order(b, s) == IF b THEN Reverse(s) ELSE s

\* hdr_set16h and hdr_set32h on a host of byte order b.
Put(b, v, n) == Order(b, [k \in 1 .. n |-> (v \div Base ^ (k - 1)) % Base])

\* hdr_get16h or hdr_get32h at an offset from the block, and byteswap if sw.
Get(sw, at, n) ==
  LET s == Order(sw, SubSeq(file, pos + at, pos + at + n - 1))
  IN  MapThenSumSet(LAMBDA k : s[k] * Base ^ (k - 1), 1 .. n)

Has(n) == pos + n - 1 <= Len(file)

Zeros(n) == [k \in 1 .. n |-> 0]
Ones(n) == [k \in 1 .. n |-> Base - 1]

Padded(n) == ((n + 3) \div 4) * 4

Pad(s) == s \o Zeros(Padded(Len(s)) - Len(s))

SHB == <<10, 13, 13, 10>>
BOM == <<13, 12, 11, 10>>
MICROS == <<4, 3, 2, 1>>
NANOS == <<13, 12, 2, 1>>

-----------------------------------------------------------------------------
(* The writers.                                                            *)

BlockBytes(b, type, body) ==
  Put(b, type, 4) \o Put(b, Len(body) + 12, 4) \o body \o Put(b, Len(body) + 12, 4)

Shb(b, options) ==
  SHB \o Put(b, Len(options) + 28, 4) \o Order(b, BOM) \o Put(b, 1, 2) \o Put(b, 0, 2)
      \o Ones(8) \o options \o Put(b, Len(options) + 28, 4)

\* A nanosecond file, one with a time zone or one of another kind of network is
\* not written by this code.
pcap_out_ctx_init(b, nano, zone, network) ==
  /\ phase = "start" /\ phase' = "write" /\ is_ng' = FALSE /\ big' = b
  /\ file' = Order(b, IF nano THEN NANOS ELSE MICROS) \o Put(b, 2, 2) \o Put(b, 4, 2)
               \o Put(b, zone, 4) \o Put(b, 0, 4) \o Ones(4) \o Put(b, network, 4)
  /\ stop' = IF zone # 0 \/ network # 1 THEN "error" ELSE "none"
  /\ UNCHANGED <<blocks, section, names, written, whole, reader>>

pcapng_out_ctx_init(b) ==
  /\ phase = "start" /\ phase' = "write" /\ is_ng' = TRUE /\ big' = b
  /\ file' = Shb(b, << >>)
  /\ UNCHANGED <<blocks, section, names, written, stop, whole, reader>>

Option(code, value) == Put(big, code, 2) \o Put(big, Len(value), 2) \o Pad(value)

\* The end of the options is itself an option, of code 0.
Idb(options) ==
  BlockBytes(big, 1, Put(big, 1, 2) \o Put(big, 0, 2) \o Ones(4) \o options \o Option(0, << >>))

\* fwrite of nothing returns 0: the record is left without its end.
pcapng_write_ifname(name) ==
  IF name # << >> THEN Idb(Option(2, name)) ELSE SubSeq(Idb(Option(2, name)), 1, 20)

EpbHead(ifid, p) ==
  Put(big, ifid, 4) \o Put(big, p.time \div Base ^ 4, 4) \o Put(big, p.time % Base ^ 4, 4)
    \o Put(big, Len(p.data), 4) \o Put(big, Len(p.data), 4)

Epb(ifid, p) ==
  IF p.data # << >> THEN BlockBytes(big, 6, EpbHead(ifid, p) \o Pad(p.data))
  ELSE SubSeq(BlockBytes(big, 6, EpbHead(ifid, p)), 1, 28)

\* One more record or block s; it can be read back, or makes the reader stop.
Add(s, expected, how) ==
  /\ phase = "write" /\ whole /\ blocks < MaxBlocks /\ blocks' = blocks + 1
  /\ file' = file \o s
  /\ written' = IF stop = "none" THEN written \o expected ELSE written
  /\ stop' = IF stop = "none" THEN how ELSE stop
  /\ UNCHANGED <<phase, is_ng, whole, reader>>

\* What must be read back for a packet, of the interface of that index: the
\* time in microseconds, with the resolution and the offset of the interface.
Expected(p, intf, ifid, length) ==
  [data |-> p.data, name |-> intf.name, end |-> Len(file) + length, time |-> p.time,
   ifid |-> ifid, resol |-> intf.resol, offset |-> intf.offset, section |-> section]

Own(name) == [name |-> name, resol |-> Micro, offset |-> NULL]

\* sec and usec, or nanoseconds, are those of the time.
pcap_out_ctx_write(p) ==
  /\ ~is_ng
  /\ LET nano == Order(big, SubSeq(file, 1, 4)) = NANOS
         usec == p.time % 10 ^ Micro
         s == Put(big, p.time \div 10 ^ Micro, 4) \o Put(big, IF nano THEN usec * Nano ELSE usec, 4)
                \o Put(big, Len(p.data), 4) \o Put(big, Len(p.data), 4) \o p.data
     IN  Add(s, IF p.data = << >> THEN << >> ELSE <<Expected(p, Own(JOKER), 0, Len(s))>>,
             IF p.data = << >> THEN "error" ELSE "none")
  /\ UNCHANGED <<big, section, names>>

\* An interface is written before its first packet, and stays in the table when
\* that fails.
pcapng_out_ctx_write(p) ==
  /\ is_ng
  /\ LET known == \E k \in DOMAIN names : names[k].name = p.name
         ifid == IF known THEN Min({k \in DOMAIN names : names[k].name = p.name}) - 1 ELSE Len(names)
         head == IF known THEN << >> ELSE pcapng_write_ifname(p.name)
         s == IF ~known /\ p.name = << >> THEN head ELSE head \o Epb(ifid, p)
         intf == IF known THEN names[ifid + 1] ELSE Own(p.name)
         bad == p.data = << >> \/ p.name = << >>
     IN  /\ Add(s, IF bad THEN << >> ELSE <<Expected(p, intf, ifid, Len(s))>>,
                IF bad THEN "error" ELSE "none")
         /\ names' = IF known THEN names ELSE Append(names, intf)
  /\ UNCHANGED <<big, section>>

\* Other tools: a section of another byte order, which has no interfaces yet, a
\* block of an unknown type, an interface with other options, a packet with
\* options, which is refused, and a simple packet.
NewSection(b) ==
  /\ is_ng /\ Add(Shb(b, Zeros(4)), << >>, "none")
  /\ big' = b /\ names' = << >> /\ section' = section + 1

OtherBlock == is_ng /\ Add(BlockBytes(big, 5, Ones(4)), << >>, "none") /\ UNCHANGED <<big, section, names>>

ForeignInterface(intf) ==
  /\ is_ng
  /\ LET offset == IF intf.offset = NULL THEN << >> ELSE Option(14, Put(big, intf.offset, 8))
     IN  Add(Idb(Option(4, Ones(1)) \o Option(9, <<intf.resol>>) \o offset \o Option(2, intf.name)),
             << >>, "none")
  /\ names' = Append(names, intf) /\ UNCHANGED <<big, section>>

PacketWithOptions(p) ==
  /\ is_ng /\ Len(names) > 0
  /\ Add(BlockBytes(big, 6, EpbHead(0, p) \o Pad(p.data) \o Option(0, << >>)), << >>, "error")
  /\ UNCHANGED <<big, section, names>>

\* Without a byte order to change, reading ends as if the file did.
SimplePacket(p) ==
  /\ is_ng
  /\ Add(BlockBytes(big, 3, Put(big, Len(p.data), 4) \o Pad(p.data)), << >>,
         IF big \/ names = << >> \/ p.data = << >> THEN "error" ELSE "end")
  /\ UNCHANGED <<big, section, names>>

\* The writer stops, or dies with the last k bytes not yet in the file.
Close == phase = "write" /\ phase' = "open" /\ UNCHANGED <<writer, reader>>

Crash(k) ==
  /\ phase = "write" /\ whole /\ blocks < MaxBlocks /\ k \in 1 .. Len(file) - 1
  /\ file' = SubSeq(file, 1, Len(file) - k) /\ whole' = FALSE /\ phase' = "open"
  /\ UNCHANGED <<is_ng, big, blocks, section, names, written, stop, reader>>

-----------------------------------------------------------------------------
(* The reader.                                                             *)

\* A call returns for good: 0 for the end of the file, below it for an error.
Stop(r) == ret' = r /\ phase' = "done"

EINVAL == 22

\* An old file is refused if it is of another version, has a time zone or is not
\* of an Ethernet; its magic number tells the byte order and the unit of time.
pcap_in_ctx_init_file(magic, sw) ==
  IF /\ Has(24) /\ Order(sw, magic) \in {MICROS, NANOS}
     /\ Get(sw, 4, 2) = 2 /\ Get(sw, 6, 2) = 4 /\ Get(sw, 8, 4) = 0 /\ Get(sw, 20, 4) = 1
  THEN /\ phase' = "read" /\ swap' = sw /\ ns' = (Order(sw, magic) = NANOS)
       /\ pos' = 25 /\ UNCHANGED ret
  ELSE Stop(-EINVAL) /\ UNCHANGED <<pos, swap, ns>>

\* The first byte decides.
pcap_joker_ctx_init ==
  /\ phase = "open"
  /\ IF file[1] = SHB[1]
     THEN phase' = "read" /\ swap' = FALSE /\ UNCHANGED <<pos, ns, ret>>
     ELSE LET magic == SubSeq(file, 1, Min({4, Len(file)}))
          IN  pcap_in_ctx_init_file(magic, magic \in {Reverse(MICROS), Reverse(NANOS)})
  /\ UNCHANGED <<writer, interfaces, capacity, read>>

Grown(n) == IF n > capacity \/ capacity = 0 THEN Max({2 * capacity, n, Least}) ELSE capacity

\* fread of nothing returns 0, too.
Data(at, n) == SubSeq(file, pos + at, pos + at + n - 1)
HasData(at, n) == n > 0 /\ Has(at + n)

Deliver(name, len, data, time, ifid) ==
  read' = Append(read, [name |-> name, len |-> len, data |-> data, time |-> time, ifid |-> ifid,
                        fits |-> Len(data) <= capacity'])

pcap_in_ctx_read ==
  /\ phase = "read" /\ file[1] # SHB[1]
  /\ IF ~Has(16) THEN Stop(0) /\ UNCHANGED <<pos, capacity, read>>
     ELSE LET usec == IF ns THEN (Get(swap, 4, 4) + Nano \div 2) \div Nano ELSE Get(swap, 4, 4)
              incl_len == Get(swap, 8, 4)
          IN  /\ capacity' = Grown(incl_len)
              /\ IF ~HasData(16, incl_len) THEN Stop(-EINVAL) /\ UNCHANGED <<pos, read>>
                 ELSE /\ Deliver(JOKER, Get(swap, 12, 4), Data(16, incl_len),
                                 Get(swap, 0, 4) * 10 ^ Micro + usec, 0)
                      /\ pos' = pos + 16 + incl_len /\ UNCHANGED <<phase, ret>>
  /\ UNCHANGED <<writer, swap, ns, interfaces>>

Reading == phase = "read" /\ file[1] = SHB[1] /\ Has(4)
Btype == Get(swap, 0, 4)
IsShb == SubSeq(file, pos, pos + 3) = SHB

\* A step over a block: to its end, or to an error.
Step(ok, length) ==
  IF ok THEN pos' = pos + length /\ UNCHANGED <<phase, ret>>
  ELSE Stop(-EINVAL) /\ UNCHANGED pos

\* The length that a block ends with is the one that it starts with.
Closed(sw, least) ==
  LET tlen == Get(sw, 4, 4)
  IN  Has(8) /\ tlen >= least /\ Has(tlen) /\ Get(sw, tlen - 4, 4) = tlen

\* Mutant: the byte order of the first section is kept.
Swap_first(sw) == swap \/ (sw /\ interfaces = << >> /\ read = << >>)
NewSwap(sw) == sw

pcapng_in_ctx_read_shb ==
  /\ Reading /\ IsShb
  /\ interfaces' = << >>
  /\ LET bom == SubSeq(file, pos + 8, pos + 11)
         sw == bom = Reverse(BOM)
     IN  IF Has(24) /\ bom \in {BOM, Reverse(BOM)}
         THEN /\ swap' = NewSwap(sw)
              /\ Step(Closed(swap', 28) /\ Get(swap', 4, 4) % 4 = 0 /\ Get(swap', 12, 2) = 1,
                      Get(swap', 4, 4))
         ELSE Stop(-EINVAL) /\ UNCHANGED <<swap, pos>>
  /\ UNCHANGED <<writer, ns, capacity, read>>

RECURSIVE Options(_, _, _)

\* The options of an interface; a second name, a wrong length or an option that
\* is longer than the block makes it no interface.
Options(intf, at, end) ==
  IF at = end THEN intf
  ELSE IF ~Has(at + 4) THEN NULL
  ELSE LET code == Get(swap, at, 2)
           len == Get(swap, at + 2, 2)
           next == at + 4 + Padded(len)
           ok == /\ next <= end /\ Has(next)
                 /\ code = 9 => len = 1
                 /\ code = 14 => len = 8
                 /\ code = 2 => intf.name = NULL /\ len > 0
       IN  IF ~ok THEN NULL
           ELSE Options(CASE code = 9 -> [intf EXCEPT !.resol = file[pos + at + 4]]
                          [] code = 14 -> [intf EXCEPT !.offset = Get(swap, at + 4, 8)]
                          [] code = 2 -> [intf EXCEPT !.name = Data(at + 4, len)]
                          [] OTHER -> intf, next, end)

\* The offset of the time stamps is what the memory holds unless an option sets it.
pcapng_in_ctx_read_idb ==
  /\ Reading /\ Btype = 1
  /\ LET tlen == Get(swap, 4, 4)
     IN  IF ~Has(16) \/ tlen < 20 \/ tlen % 4 # 0 THEN Stop(-EINVAL) /\ UNCHANGED <<interfaces, pos>>
         ELSE \E garbage \in Garbage :
                LET intf == Options([name |-> NULL, snaplen |-> Get(swap, 12, 4), resol |-> Micro,
                                     offset |-> garbage], 16, tlen - 4)
                IN  /\ interfaces' = Append(interfaces, intf)
                    /\ Step(intf # NULL /\ Closed(swap, 20), tlen)
  /\ UNCHANGED <<writer, swap, ns, capacity, read>>

SkipBlock ==
  /\ Reading /\ ~IsShb /\ Btype \notin {1, 3, 6}
  /\ Step(Closed(swap, 12), Get(swap, 4, 4))
  /\ UNCHANGED <<writer, swap, ns, interfaces, capacity, read>>

EndOfFile ==
  /\ phase = "read" /\ file[1] = SHB[1] /\ ~Has(4) /\ Stop(0)
  /\ UNCHANGED <<writer, pos, swap, ns, interfaces, capacity, read>>

\* The original length keeps the byte order of the file, and the packet is returned
\* with a 0: for the callers, the file ends here.
ReadSimplePacket ==
  /\ Reading /\ Btype = 3
  /\ IF ~Has(12) \/ Get(swap, 4, 4) < 16 \/ interfaces = << >> THEN Stop(-EINVAL) /\ UNCHANGED capacity
     ELSE LET captured_len == Min({Get(FALSE, 8, 4), interfaces[1].snaplen})
          IN  IF Padded(captured_len) # Get(swap, 4, 4) - 16 THEN Stop(-EINVAL) /\ UNCHANGED capacity
              ELSE /\ capacity' = Grown(captured_len)
                   /\ Stop(IF HasData(12, captured_len) /\ Has(12 + Padded(captured_len))
                           THEN 0 ELSE -EINVAL)
  /\ UNCHANGED <<writer, pos, swap, ns, interfaces, read>>

\* A resolution with the highest bit is a power of two, and rounds.
Microseconds(ts, resol) ==
  IF resol >= Base \div 2
  THEN (2 * ts * 10 ^ Micro + 2 ^ (resol - Base \div 2)) \div 2 ^ (resol - Base \div 2 + 1)
  ELSE IF resol > Micro THEN ts \div 10 ^ (resol - Micro) ELSE ts * 10 ^ (Micro - resol)

\* A record that is longer than its data has options, and is refused; from one that
\* is shorter, as much as that is skipped behind the data.
ReadPacket ==
  /\ Reading /\ Btype = 6
  /\ IF \/ ~Has(28) \/ Get(swap, 4, 4) < 32 \/ Get(swap, 8, 4) >= Len(interfaces)
        \/ Padded(Get(swap, 20, 4)) < Get(swap, 4, 4) - 32
     THEN Stop(-EINVAL) /\ UNCHANGED <<pos, capacity, read>>
     ELSE LET tlen == Get(swap, 4, 4)
              intf == interfaces[Get(swap, 8, 4) + 1]
              captured_len == Get(swap, 20, 4)
              ts == Get(swap, 12, 4) * Base ^ 4 + Get(swap, 16, 4)
              trailer == 28 + 2 * Padded(captured_len) - (tlen - 32)
          IN  /\ capacity' = Grown(captured_len)
              /\ IF HasData(28, captured_len) /\ Has(trailer + 4) /\ Get(swap, trailer, 4) = tlen
                 THEN /\ Deliver(intf.name, Get(swap, 24, 4), Data(28, captured_len),
                                 Microseconds(ts, intf.resol) + intf.offset, Get(swap, 8, 4))
                      /\ pos' = pos + trailer + 4 /\ UNCHANGED <<phase, ret>>
                 ELSE Stop(-EINVAL) /\ UNCHANGED <<pos, read>>
  /\ UNCHANGED <<writer, swap, ns, interfaces>>

Done == phase = "done" /\ UNCHANGED vars

Write ==
  \/ \E p \in Packet : pcap_out_ctx_write(p) \/ pcapng_out_ctx_write(p)
  \/ \E p \in Packet : p.name = << >> /\ (PacketWithOptions(p) \/ SimplePacket(p))
  \/ \E b \in BOOLEAN : NewSection(b)
  \/ OtherBlock
  \/ \E intf \in ForeignIdb : ForeignInterface(intf)

\* A file that is cut earlier is one that has fewer blocks.
Next ==
  \/ \E b, nano \in BOOLEAN, zone \in {0, 1}, network \in {0, 1} : pcap_out_ctx_init(b, nano, zone, network)
  \/ \E b \in BOOLEAN : pcapng_out_ctx_init(b)
  \/ Write \/ Close
  \/ \E k \in Cuts : Crash(k)
  \/ pcap_joker_ctx_init \/ pcap_in_ctx_read
  \/ pcapng_in_ctx_read_shb \/ pcapng_in_ctx_read_idb \/ SkipBlock \/ EndOfFile
  \/ ReadSimplePacket \/ ReadPacket
  \/ Done

Spec == Init /\ [][Next]_vars

-----------------------------------------------------------------------------
(* Properties.                                                             *)

Same(r, w) == r.data = w.data /\ r.len = Len(w.data) /\ r.name = w.name /\ r.ifid = w.ifid /\ r.fits

Reads(s) == Len(read) = Len(s) /\ \A k \in DOMAIN read : Same(read[k], s[k])

\* The packets that come out of a file are those that were written into it, in
\* order, with their interface, whatever the byte order of the sections and the
\* blocks of other tools between them: all of those whose record is whole in the
\* file, up to the first thing that the reader does not know.  The buffer is
\* always large enough.  An error is returned for such a thing, except for a
\* simple packet, and for a whole file only then.
PacketsReadBack ==
  /\ \A k \in DOMAIN read : k \in DOMAIN written /\ Same(read[k], written[k])
  /\ phase = "done" =>
       /\ Reads(SelectSeq(written, LAMBDA w : w.end <= Len(file)))
       /\ whole => (ret = 0 <=> stop # "error")

\* The time of a written packet in microseconds, as exactly as whole ones can say
\* it: never later for a decimal resolution, the nearest one for a binary one.
Near(t, w) ==
  IF w.resol < Base \div 2
  THEN /\ t * 10 ^ w.resol <= w.time * 10 ^ Micro
       /\ w.time * 10 ^ Micro < (t + 1) * 10 ^ w.resol
  ELSE LET unit == 2 ^ (w.resol - Base \div 2)
           d == t * unit - w.time * 10 ^ Micro
       IN  2 * d <= unit /\ -2 * d <= unit

\* Packets of the old format keep their times; those of a pcapng interface are
\* shifted by its offset, or, for an interface without one, all by the same time,
\* which is what the memory of the reader happened to hold.
TimesKept ==
  \A k \in DOMAIN read :
    LET w == written[k]
        Shifted(off) == \A j \in DOMAIN read :
          (j <= k /\ read[j].ifid = read[k].ifid /\ written[j].section = w.section) =>
             Near(read[j].time - off, written[j])
    IN  IF w.offset # NULL THEN Near(read[k].time - w.offset, w)
        ELSE IF is_ng THEN \E off \in Garbage : Shifted(off) ELSE read[k].time = w.time
=============================================================================
