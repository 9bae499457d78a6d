---------------------------- MODULE MCFragments -----------------------------
(***************************************************************************)
(* The reassemblers that keep the fragments or segments themselves, or a   *)
(* bitmap of them, and what reads and writes the headers of packets, side  *)
(* by side: a behaviour is one of the component named by part, the others  *)
(* stay in an initial state.                                               *)
(***************************************************************************)
EXTENDS RbExplicit, TcpReass, Sequences, SequencesExt

CONSTANT NULL

Fragment(top) == [first : {u \in 0 .. top : u % Unit = 0}, len : 0 .. top + 1, more : BOOLEAN]

\* Every fragment that the header can describe and that ends by last.
Ending(top, last) == {f \in Fragment(top) : f.first + f.len <= last + 1}

\* For the trees of holes: also fragments that end past Top.
TreeInput == Ending(7, 8)

\* The fragments of one datagram that was cut into pieces of one unit; each may
\* arrive any number of times.
Pieces(top) ==
  {[first |-> u, len |-> IF u + Unit > top THEN top + 1 - u ELSE Unit, more |-> u + Unit <= top] :
     u \in {v \in 0 .. top : v % Unit = 0}}

\* All segments of up to three bytes in the first positions.
Segments == [pos : 0 .. 7, len : 1 .. 3]

\* IPv6 extension headers, and TCP options with lengths that are right, 0, 1 or
\* of no meaning.
Header ==
  [kind : {0, 51}, lenfield : 0 .. 2, later : {FALSE}] \cup [kind : {44}, lenfield : {0}, later : BOOLEAN]
Option ==
  {[kind |-> o[1], optlen |-> o[2]] :
     o \in {<<0, 0>>, <<1, 0>>, <<2, 4>>, <<3, 3>>, <<4, 2>>, <<5, 0>>, <<5, 10>>,
            <<8, 0>>, <<8, 1>>, <<8, 10>>, <<9, 1>>, <<9, 5>>}}

\* Two options, after a no-operation or not.
OptionLists ==
  LET pairs == BoundedSeq(Option, 2) IN pairs \cup {<<[kind |-> 1, optlen |-> 0]>> \o p : p \in pairs}

\* Packets of an odd length; with the options at even and at odd offsets.
Plain == [little : BOOLEAN, version : {4, 6}, proto : {"udp"}, paylen : {9}, none : BOOLEAN,
          mss : {0}, sack : {0}, sacklen : {0}, ts : {0}]
         \cup [little : BOOLEAN, version : {4}, proto : {"icmp"}, paylen : {9}, none : {FALSE},
               mss : {0}, sack : {0}, sacklen : {0}, ts : {0}]
WithOptions ==
  {[little |-> little, version |-> version, proto |-> "tcp", paylen |-> 49, none |-> FALSE,
    mss |-> 20 + pad, sack |-> 24 + pad, sacklen |-> sacklen, ts |-> 24 + pad + sacklen] :
     little \in BOOLEAN, version \in {4, 6}, pad \in {0, 1}, sacklen \in {10, 11}}

\* Names of one to three labels that end in each other.
Names == LET a == <<97>>  ba == <<98, 97>> IN {<<a>>, <<ba, a>>, <<a, ba, a>>, <<ba>>}

VARIABLES
  part,
  tree6, last6, kept6, pc6, frag6, mod6, overlap6,               \* iprbexplicit.c: IPv6
  bits, last791, got791, plain,                                  \* ipfrag/rfc791
  fragments, tail, len, meat, first_in, last_in, result,         \* linux.c: any fragments
  pFragments, pTail, pLen, pMeat, pFirst_in, pLast_in, pResult,  \* linux.c: pieces
  \* The components that read and write headers take turns with these.
  h1, h2, h3, h4, h5, h6, h7, h8, h9

\* With the ipv6 flag; the variables of RbExplicit are those of a context without.
V6 == INSTANCE RbExplicit WITH Ipv6 <- TRUE,
        hole_tree <- tree6, most_restricting_last <- last6, kept <- kept6, pc <- pc6,
        frag <- frag6, mod <- mod6, overlap <- overlap6
Bitmap == INSTANCE Rfc791 WITH Top <- 11, WordBits <- 2,
        Input <- {f \in Ending(11, 11) : f.len > 0},
        most_restricting_last <- last791, got <- got791

\* Whole units of a datagram of four units.
Even == INSTANCE Rfc791 WITH Top <- 11, WordBits <- 2,
        Input <- {f \in Ending(11, 7) : f.len \in {2, 4} /\ (f.more <=> f.first + f.len < 8)},
        most_restricting_last <- last791, got <- got791

Lin == INSTANCE LinuxFrag WITH Top <- 4, Input <- Ending(4, 4), fragments_tail <- tail
LinPieces == INSTANCE LinuxFrag WITH Top <- 10, Input <- Pieces(10),
        fragments <- pFragments, fragments_tail <- pTail, len <- pLen, meat <- pMeat,
        first_in <- pFirst_in, last_in <- pLast_in, result <- pResult
Fields == INSTANCE Headers WITH MaxSets <- 2,
        Protocol <- {"pcp", "icmp", "arp", "ether", "ip", "ipv6", "tcp", "udp", "dns", "ip4", "ip6"},
        proto <- h1, mem <- h2, last <- h3, sets <- h4
Walk == INSTANCE HeaderWalk WITH Chain <- BoundedSeq(Header, 3), Options <- OptionLists, Upper <- 6,
        walk <- h1, list <- h2, size <- h3, off <- h4, pc <- h5, nexthdr <- h6, res <- h7
Cksum == INSTANCE Checksum WITH Form <- Plain \cup WithOptions, Fill <- {0, 255},
        Word16 <- {1, 65535}, MaxUpdates <- 2,
        form <- h1, pkt <- h2, looping <- h3, updates <- h4
Dns == INSTANCE DnsMessage WITH Name <- Names, Id <- {<<1, 2>>, <<192, 12>>}, Data <- {<<10, 7>>, <<192, 12>>},
        Class <- {1, 3}, Room <- {52, 100}, BufSize <- 20, Limit <- 3, MaxAnswers <- 2,
        dns <- h1, plen <- h2, phase <- h3, asked <- h4, put <- h5, off <- h6, remcnt <- h7, got <- h8, answer <- h9

ASSUME RbExplicitAssumption /\ V6!RbExplicitAssumption
ASSUME Bitmap!Rfc791Assumption /\ TcpReassAssumption
ASSUME Lin!LinuxFragAssumption /\ LinPieces!LinuxFragAssumption

v6Vars == <<tree6, last6, kept6, pc6, frag6, mod6, overlap6>>
bitVars == <<bits, last791, got791, plain>>
linVars == <<fragments, tail, len, meat, first_in, last_in, result>>
pieceVars == <<pFragments, pTail, pLen, pMeat, pFirst_in, pLast_in, pResult>>
reassVars == <<vars, v6Vars, bitVars, linVars, pieceVars, tcpVars>>
headerVars == <<h1, h2, h3, h4, h5, h6, h7, h8, h9>>
allVars == <<part, reassVars, headerVars>>

AllInit ==
  /\ part \in {"ipv4", "ipv6", "rfc791", "linux", "linux_pieces", "tcp", "fields", "walk", "cksum", "dns"}
  /\ rb_explicit_reassctx_init /\ V6!rb_explicit_reassctx_init /\ Bitmap!rfc791ctx_init
  /\ Lin!ipq_init /\ LinPieces!ipq_init /\ tcp_rb_explicit_reassctx_init
  /\ CASE part = "fields" -> Fields!Init /\ h5 = 0 /\ h6 = 0 /\ h7 = 0 /\ h8 = 0 /\ h9 = 0
       [] part = "walk" -> Walk!Init /\ h8 = 0 /\ h9 = 0
       [] part = "cksum" -> Cksum!Init /\ h5 = 0 /\ h6 = 0 /\ h7 = 0 /\ h8 = 0 /\ h9 = 0
       [] part = "dns" -> Dns!Init
       [] OTHER -> /\ h1 = 0 /\ h2 = 0 /\ h3 = 0 /\ h4 = 0 /\ h5 = 0
                   /\ h6 = 0 /\ h7 = 0 /\ h8 = 0 /\ h9 = 0

InIpv4(A) ==
  part = "ipv4" /\ A /\ UNCHANGED <<part, v6Vars, bitVars, linVars, pieceVars, tcpVars, headerVars>>
InBitmap(A) ==
  /\ part = "rfc791" /\ A
  /\ UNCHANGED <<part, vars, v6Vars, linVars, pieceVars, tcpVars, headerVars>>
InWalk(A) == part = "walk" /\ A /\ UNCHANGED <<part, reassVars, h8, h9>>

AllNext ==
  \/ InIpv4(Next)
  \/ InBitmap(Bitmap!Next)
  \/ /\ UNCHANGED <<part, vars, headerVars>>
     /\ \/ part = "ipv6" /\ V6!Next /\ UNCHANGED <<bitVars, linVars, pieceVars, tcpVars>>
        \/ part = "linux" /\ Lin!Next /\ UNCHANGED <<v6Vars, bitVars, pieceVars, tcpVars>>
        \/ part = "linux_pieces" /\ LinPieces!Next /\ UNCHANGED <<v6Vars, bitVars, linVars, tcpVars>>
        \/ part = "tcp" /\ TcpNext /\ UNCHANGED <<v6Vars, bitVars, linVars, pieceVars>>
  \/ InWalk(Walk!Step)
  \/ /\ UNCHANGED <<part, reassVars>>
     /\ \/ part = "fields" /\ Fields!Next /\ UNCHANGED <<h5, h6, h7, h8, h9>>
        \/ part = "cksum" /\ Cksum!Next /\ UNCHANGED <<h5, h6, h7, h8, h9>>
        \/ part = "dns" /\ Dns!Next

\* A call of rb_explicit_reassctx_add, once made, runs to its end.
\* So does a walk over headers.
AllSpec == AllInit /\ [][AllNext]_allVars /\ WF_allVars(InIpv4(Step)) /\ WF_allVars(InWalk(Walk!Step))

\* A datagram whose length is a multiple of the unit.
EvenSpec == part = "rfc791" /\ AllInit /\ [][InBitmap(Even!Next)]_allVars

TcpOnly == part = "tcp" /\ AllInit /\ [][AllNext]_allVars

-----------------------------------------------------------------------------
(* Properties; KeptSuffices of iprbexplicit.c, SegmentsExact and, violated,*)
(* OnlyUsefulData of tcprbexplicit.c come with their modules.              *)

\* iprbexplicit.c: the tree implements the set of missing bytes, and the loop of
\* add_data ends, however the search meets the holes.  iphdr.h, iphdr.c: the walks
\* over IPv6 headers and TCP options end, except on a SACK or timestamp option of
\* length 0.
TreeImplements == ImplementsReassembly /\ AddReturns /\ <>(part = "walk" => Walk!WalkEnded)

\* iprbexplicit.c: with the ipv6 flag a fragment is refused exactly if it
\* overlaps what has arrived, and the packets kept suffice, too.  linux.c: if the
\* pieces of a datagram do not overlap, the call that completes it says so, in
\* whatever order and however often they arrive.  tcprbexplicit.c: no comparison
\* that repair_after_passthrough makes aborts.
OutcomeExact ==
  V6!RefusedIfOverlap /\ []V6!KeptSuffices /\ LinPieces!CompleteIsReported /\ RepairDefined

\* rfc791.c: the word-wise loops set the bits that the plain loop would set; a
\* datagram that is called complete is, and one that ends inside a unit is
\* called complete when it is.
\* linux.c: the chain ascends without overlap, its tail is its last packet and
\* meat counts its bytes; a datagram that is reported complete is, and is copied
\* from inside the packets.
CompleteIsSound ==
  /\ Bitmap!BitsArePlain /\ Bitmap!CompleteIsSound /\ Bitmap!CompleteWhenBroken
  /\ Lin!ChainSound /\ Lin!MeatExact /\ Lin!CompleteIsSound
  /\ LinPieces!ChainSound /\ LinPieces!MeatExact /\ LinPieces!CompleteIsSound

\* iphdr.h, dnshdr.h: a field has the value that was set last, whatever is set
\* around it.
\* iphdr.h, iphdr.c: the protocol of an IPv6 packet and the options of a TCP header
\* are found where they are.
\* ipcksum.h: after any changes of fields the checksums verify.
\* dnshdr.c: the records of a message are read, and resolved, as they were put.
HeadersReadBack ==
  CASE part = "fields" -> Fields!FieldsKept
    [] part = "walk" -> Walk!WalkExact
    [] part = "cksum" -> Cksum!ChecksumsVerify
    [] part = "dns" -> Dns!MessageReadBack
    [] OTHER -> TRUE

\* rfc791.c, violated: a datagram whose units have all arrived is complete.
CompleteWhenAll == Even!CompleteWhenAll
=============================================================================
