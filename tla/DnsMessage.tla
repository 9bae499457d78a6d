----------------------------- MODULE DnsMessage -----------------------------
(***************************************************************************)
(* DNS messages (dnshdr.c): records are put into a message, their names    *)
(* compressed by pointing to the first place where memdns finds the rest   *)
(* of the name, and read from it; recursive_resolve follows the canonical  *)
(* names of a message.  A message is the sequence of its bytes: a name is  *)
(* compressed against whatever is before it, header and data included.     *)
(***************************************************************************)
EXTENDS Integers, Sequences, SequencesExt, FiniteSetsExt

CONSTANTS Name,        \* names, as sequences of labels, labels as sequences of bytes
          Id,          \* identifiers of messages, as two bytes
          Data,        \* data of records that are not canonical names
          Class,       \* classes of records; 1 is asked for
          Room,        \* sizes of buffers
          BufSize,     \* room for a name, and for data, that is read
          Limit,       \* recursion_limit
          MaxAnswers

VARIABLES dns,         \* the bytes up to off
          plen,        \* the size of the buffer, later of the message
          phase, asked, put,
          off, remcnt, got,
          answer       \* of recursive_resolve

vars == <<dns, plen, phase, asked, put, off, remcnt, got, answer>>

CNAME == 5
At(o) == dns[o + 1]

-----------------------------------------------------------------------------
(* Putting.                                                                *)

RECURSIVE MatchAt(_, _, _), PutName(_, _), DecodeName(_, _, _, _), Follow(_, _, _, _), Resolve(_, _)

\* Whether the name is at j of m; a pointer is followed once for each label.
MatchLabel(m, j, name) ==
  /\ j < Len(m)
  /\ IF name = << >> THEN m[j + 1] = 0
     ELSE /\ m[j + 1] = Len(name[1]) /\ j + 1 + Len(name[1]) < Len(m)
          /\ SubSeq(m, j + 2, j + 1 + Len(name[1])) = name[1]
          /\ MatchAt(m, j + 1 + Len(name[1]), Tail(name))

MatchAt(m, j, name) ==
  /\ j < Len(m)
  /\ IF m[j + 1] >= 192
     THEN j + 1 < Len(m) /\ MatchLabel(m, (m[j + 1] % 64) * 256 + m[j + 2], name)
     ELSE MatchLabel(m, j, name)

\* The length of a name as a string, without the dot at its end.
Strlen(name) == FoldLeft(LAMBDA acc, l : acc + Len(l) + 1, 0, name) - (IF name = << >> THEN 0 ELSE 1)

\* Mutant: the last match.
memdns_last(m, name) ==
  LET found == {i \in 0 .. Len(m) - 1 : MatchAt(m, i, name)}
  IN  IF Strlen(name) + 2 > Len(m) \/ found = {} THEN -1 ELSE Max(found)

\* The first match, or -1.
memdns(m, name) ==
  LET found == {i \in 0 .. Len(m) - 1 : MatchAt(m, i, name)}
  IN  IF Strlen(name) + 2 > Len(m) \/ found = {} THEN -1 ELSE Min(found)

\* The loop of dns_put_next and dns_put_next_qr: labels, until the rest is known.
PutName(m, name) ==
  IF name = << >> THEN Append(m, 0)
  ELSE LET match == memdns(m, name)
       IN  IF match \in 0 .. 16383 /\ Len(m) + 2 <= plen
           THEN m \o <<192 + match \div 256, match % 256>>
           ELSE PutName(m \o <<Len(name[1])>> \o name[1], Tail(name))

Init ==
  /\ \E id \in Id : dns = id \o [k \in 1 .. 10 |-> 0]
  /\ plen \in Room /\ phase = "put" /\ asked = << >> /\ put = << >>
  /\ off = 12 /\ remcnt = 0 /\ got = << >> /\ answer = [for |-> << >>, is |-> << >>]

\* Nothing is put if the name, uncompressed, and the rest do not fit; after that
\* test the others always hold.
Fits(name, n) == off + Strlen(name) + 2 + n <= plen

dns_put_next_qr(name) ==
  /\ phase = "put" /\ asked = << >> /\ put = << >> /\ Fits(name, 4)
  /\ dns' = PutName(dns, name) \o <<0, 1, 0, 1>> /\ off' = Len(dns')
  /\ asked' = Append(asked, name)
  /\ UNCHANGED <<plen, phase, put, remcnt, got, answer>>

\* A canonical name is encoded by the caller, as the data of the record.
Encode(name) == FlattenSeq([k \in DOMAIN name |-> <<Len(name[k])>> \o name[k]]) \o <<0>>

dns_put_next(r) ==
  LET rdata == IF r.type = CNAME THEN Encode(r.data) ELSE r.data
  IN  /\ phase = "put" /\ Len(put) < MaxAnswers /\ Fits(r.name, 10 + Len(rdata))
      /\ dns' = PutName(dns, r.name) \o <<0, r.type, 0, r.class, 0, 0, 0, 60, 0, Len(rdata)>> \o rdata
      /\ off' = Len(dns') /\ put' = Append(put, r)
      /\ UNCHANGED <<plen, phase, asked, remcnt, got, answer>>

\* dns_set_qdcount and dns_set_ancount, and the message is sent.
Send ==
  /\ phase = "put" /\ phase' = "received" /\ plen' = off
  /\ dns' = [dns EXCEPT ![6] = Len(asked), ![8] = Len(put)]
  /\ UNCHANGED <<asked, put, off, remcnt, got, answer>>

-----------------------------------------------------------------------------
(* Reading.  A name that is read is a string of bytes, with a dot after    *)
(* each label; it ends at a byte that is 0.                                *)

CString(s) == LET zero == {i \in DOMAIN s : s[i] = 0} IN IF zero = {} THEN s ELSE SubSeq(s, 1, Min(zero) - 1)

Fault == [ok |-> FALSE]

\* What is at the place that a pointer leads to is taken for a label.
CopyLabel(lab, n, o, jmp, buf) ==
  IF lab + n >= plen \/ n + Len(buf) + 2 > BufSize THEN Fault
  ELSE DecodeName(lab + n, o, jmp, CString(buf \o SubSeq(dns, lab + 1, lab + n) \o <<46>>))

Pointer(lab, target, o, buf) ==
  IF target >= plen THEN Fault ELSE CopyLabel(target + 1, At(target), o, TRUE, buf)

\* The loop of dns_next, and both loops of dns_next_an_ask: o moves on until the
\* first pointer.
DecodeName(lab, o, jmp, buf) ==
  IF o >= plen THEN [ok |-> TRUE, off |-> o, buf |-> buf]
  ELSE IF At(lab) = 0 THEN [ok |-> TRUE, off |-> IF jmp THEN o ELSE o + 1, buf |-> buf]
  ELSE IF At(lab) >= 192
       THEN IF lab + 1 >= plen THEN Fault
            ELSE Pointer(lab, (At(lab) % 64) * 256 + At(lab + 1), IF jmp THEN o ELSE o + 2, buf)
  ELSE CopyLabel(lab + 1, At(lab), IF jmp THEN o ELSE o + 1 + At(lab), jmp, buf)

WithoutDot(buf) == IF buf = << >> THEN buf ELSE Front(buf)

\* dns_next at o.
Question(name) ==
  IF ~name.ok THEN Fault
  ELSE IF name.off + 4 > plen THEN Fault
  ELSE [ok |-> TRUE, off |-> name.off + 4, name |-> WithoutDot(name.buf)]

dns_next(o, rem) == IF rem = 0 THEN Fault ELSE Question(DecodeName(o, o, FALSE, << >>))

\* The rest of dns_next_an_ask after a name that ends at o: o does not move past the
\* data, unless it is a canonical name.
Canonical(buf, o, class, data) ==
  IF ~data.ok THEN Fault
  ELSE [ok |-> TRUE, off |-> data.off, name |-> buf, type |-> CNAME, class |-> class, data |-> WithoutDot(data.buf)]

\* A byte after the end of the message, which the length of the data may reach.
Unknown == -1

Answer(buf, o) ==
  IF o + 10 > plen THEN Fault
  ELSE LET type == At(o) * 256 + At(o + 1)  class == At(o + 2) * 256 + At(o + 3)
           datrem == At(o + 8) * 256 + At(o + 9)
       IN  IF type # CNAME
           THEN IF datrem + 2 > BufSize THEN Fault
                ELSE [ok |-> TRUE, off |-> o + 10, name |-> buf, type |-> type, class |-> class,
                      data |-> [k \in 1 .. datrem |-> IF o + 9 + k < plen THEN At(o + 9 + k) ELSE Unknown]]
           ELSE IF datrem = 0 /\ o + 10 < plen THEN Fault ELSE Canonical(buf, o, class, DecodeName(o + 10, o + 10, FALSE, << >>))

NamedAnswer(name) == IF name.ok THEN Answer(name.buf, name.off) ELSE Fault

dns_next_an_ask(o, rem) == IF rem = 0 THEN Fault ELSE NamedAnswer(DecodeName(o, o, FALSE, << >>))

\* dns_next_init_qd, dns_next for each question, dns_next_init_an_ask.
ReadQuestions ==
  /\ phase = "received" /\ remcnt' = At(7)
  /\ LET q == dns_next(12, At(5))
     IN  IF q.ok
         THEN off' = q.off /\ got' = <<q.name>> /\ phase' = "read"
         ELSE off' = 12 /\ got' = << >> /\ phase' = IF At(5) = 0 THEN "read" ELSE "end"
  /\ UNCHANGED <<dns, plen, asked, put, answer>>

ReadAnswer ==
  /\ phase = "read"
  /\ LET a == dns_next_an_ask(off, remcnt)
     IN  IF a.ok THEN off' = a.off /\ remcnt' = remcnt - 1 /\ got' = Append(got, a) /\ UNCHANGED phase
         ELSE phase' = "end" /\ UNCHANGED <<off, remcnt, got>>
  /\ UNCHANGED <<dns, plen, asked, put, answer>>

\* recursive_resolve: the inner loop, from o, then the outer one again with the
\* canonical name.
Found(a, o, rem, name, left) ==
  CASE ~a.ok -> << >>
    [] a.ok /\ a.name # name -> Follow(a.off, rem - 1, name, left)
    [] a.ok /\ a.name = name /\ a.class # 1 -> << >>
    [] a.ok /\ a.name = name /\ a.class = 1 /\ a.type = CNAME -> Resolve(Append(a.data, 46), left - 1)
    [] OTHER -> <<a.type, a.data>>

Follow(o, rem, name, left) == Found(dns_next_an_ask(o, rem), o, rem, name, left)

Resolve(name, left) == IF left = 0 THEN << >> ELSE Follow(off, At(7), name, left)

Dotted(name) == FlattenSeq([k \in DOMAIN name |-> Append(name[k], 46)])

\* There has to be one question, for the name; no answer is read before.
recursive_resolve(name) ==
  /\ phase = "read" /\ remcnt = Len(put) /\ phase' = "resolved"
  /\ answer' = [for |-> name,
                is |-> IF got = <<WithoutDot(Dotted(name))>> THEN Resolve(Dotted(name), Limit) ELSE << >>]
  /\ UNCHANGED <<dns, plen, asked, put, off, remcnt, got>>

Record == [name : Name, type : {CNAME}, class : {1}, data : Name] \cup [name : Name, type : {1}, class : Class, data : Data]

Next ==
  \/ \E name \in Name : dns_put_next_qr(name)
  \/ \E r \in Record : dns_put_next(r)
  \/ Send
  \/ ReadQuestions
  \/ ReadAnswer
  \/ \E name \in Name : recursive_resolve(name)

Spec == Init /\ [][Next]_vars

-----------------------------------------------------------------------------
(* Properties.                                                             *)

\* No byte that is not of a name looks like a pointer.
NoFalsePointer ==
  /\ At(0) < 192 /\ At(1) < 192
  /\ \A k \in DOMAIN put : put[k].type # CNAME => \A b \in DOMAIN put[k].data : put[k].data[b] < 192

\* The answers up to the first one that is not a canonical name.
Readable ==
  LET others == {k \in DOMAIN put : put[k].type # CNAME}
  IN  IF others = {} THEN Len(put) ELSE Min(others)

Same(a, r) ==
  /\ a.name = Dotted(r.name) /\ a.type = r.type /\ a.class = r.class
  /\ a.data = IF r.type = CNAME THEN WithoutDot(Dotted(r.data)) ELSE r.data

\* The first answer for a name, and what following canonical names leads to.
Reference[name \in Name, left \in 0 .. Limit] ==
  LET for == {k \in DOMAIN put : put[k].name = name}
  IN  IF left = 0 \/ for = {} THEN << >>
      ELSE LET r == put[Min(for)]
           IN  CASE r.class # 1 -> << >>
                 [] r.class = 1 /\ r.type = CNAME -> Reference[r.data, left - 1]
                 [] OTHER -> <<r.type, r.data>>

\* What was put is read, and a name is resolved as the records say, in circles too,
\* however the names were compressed: as long as no other bytes look like a pointer
\* (a name may be compressed to the place of such bytes, which cannot be read), and
\* up to the first answer that is not a canonical name (dns_next_an_ask leaves off
\* at its data).
MessageReadBack ==
  NoFalsePointer =>
    /\ phase \in {"read", "end", "resolved"} /\ asked # << >> => got # << >> /\ got[1] = WithoutDot(Dotted(asked[1]))
    /\ phase = "end" =>
         /\ Len(got) >= Len(asked) + Readable
         /\ \A k \in 1 .. Readable : Same(got[Len(asked) + k], put[k])
    /\ phase = "resolved" /\ Readable = Len(put) =>
         answer.is = IF asked = <<answer.for>> THEN Reference[answer.for, Limit] ELSE << >>
=============================================================================
