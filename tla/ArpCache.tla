------------------------------ MODULE ArpCache ------------------------------
(***************************************************************************)
(* arp: the addresses that are known, and the packets that wait for one.   *)
(* An entry has a timer (LinkHeap): putting the address and queueing a     *)
(* packet to it arm the timer again, looking the address up does not.      *)
(* When it expires the entry goes and the packets in it are freed.         *)
(*                                                                         *)
(* The hash table of the entries is a function from addresses, and the     *)
(* timer of an entry is the time that it still has.  What an entry says,   *)
(* the hardware address, is left out: only the packets are followed.       *)
(***************************************************************************)
EXTENDS Integers, Sequences, Functions

CONSTANTS Ip, Packet,
          ARP_CACHE_MAX_PACKETS, ARP_CACHE_TIMEOUT

ArpCacheAssumption ==
  ARP_CACHE_MAX_PACKETS \in Nat \ {0} /\ ARP_CACHE_TIMEOUT \in Nat \ {0}

VARIABLES cache,       \* the entries: address -> [valid, list, timer]
          owner,       \* where each packet is: "user", "cache", "port", "freed" or "lost"
          quiet        \* history: the time since each address was last put or queued to,
                       \* up to the timeout

arpVars == <<cache, owner, quiet>>

arp_cache_init ==
  /\ cache = << >>
  /\ owner = [p \in Packet |-> "user"]
  /\ quiet = [ip \in Ip |-> 0]

\* The lookups, which change nothing: arp_cache_get_accept_invalid finds an entry
\* that is known, arp_cache_get one that has a hardware address, too.
Known(ip) == ip \in DOMAIN cache
arp_cache_get(ip) == Known(ip) /\ cache[ip].valid

Armed(ip) == ARP_CACHE_TIMEOUT

\* The entry of ip is found or made; its timer is armed.
Put(ip, valid, list) ==
  LET entry == [valid |-> valid, list |-> list, timer |-> Armed(ip)]
  IN  /\ cache' = [i \in DOMAIN cache \cup {ip} |-> IF i = ip THEN entry ELSE cache[i]]
      /\ quiet' = [quiet EXCEPT ![ip] = 0]

List(ip) == IF Known(ip) THEN cache[ip].list ELSE << >>

-----------------------------------------------------------------------------
\* Room for one more packet is made at the front.
\* Mutant: at the back.
Room_back(list) == SubSeq(list, 1, IF Len(list) < ARP_CACHE_MAX_PACKETS THEN Len(list) ELSE ARP_CACHE_MAX_PACKETS - 1)
Room(list) ==
  LET over == Len(list) - ARP_CACHE_MAX_PACKETS + 1
  IN  IF over > 0 THEN SubSeq(list, over + 1, Len(list)) ELSE list

\* Mutant: the packet that gives way is freed and stays in the list.
Queued_over(list, p) == Append(list, p)
Queued(list, p) == Append(Room(list), p)

arp_cache_put_packet(ip, p) ==
  /\ owner[p] = "user"
  /\ Put(ip, arp_cache_get(ip), Queued(List(ip), p))
  /\ owner' = [q \in Packet |->
       CASE q = p -> "cache"
         [] q \in Range(List(ip)) \ Range(Room(List(ip))) -> "freed"
         [] OTHER -> owner[q]]

\* The packets of an entry leave it for the port; without one they are not
\* freed either.
arp_cache_drain(ip, port) ==
  owner' = [q \in Packet |-> IF q \in Range(List(ip)) THEN (IF port THEN "port" ELSE "lost") ELSE owner[q]]

arp_cache_put(ip, port) == Put(ip, TRUE, << >>) /\ arp_cache_drain(ip, port)

arp_entry_expiry_fn(ip) ==
  /\ Known(ip) /\ cache[ip].timer = 0
  /\ owner' = [q \in Packet |-> IF q \in Range(List(ip)) THEN "freed" ELSE owner[q]]
  /\ cache' = [i \in DOMAIN cache \ {ip} |-> cache[i]]
  /\ UNCHANGED quiet

\* The user gets a packet for some address.
Receive(p) ==
  /\ owner[p] \in {"port", "freed"}
  /\ owner' = [owner EXCEPT ![p] = "user"]
  /\ UNCHANGED <<cache, quiet>>

Less(t) == IF t > 0 THEN t - 1 ELSE 0

\* Time passes, also while a timer that is due has not been processed.
ArpTick ==
  /\ cache' = [ip \in DOMAIN cache |-> [cache[ip] EXCEPT !.timer = Less(@)]]
  /\ quiet' = [ip \in Ip |-> IF quiet[ip] < ARP_CACHE_TIMEOUT THEN quiet[ip] + 1 ELSE quiet[ip]]
  /\ UNCHANGED owner

ArpNext ==
  \/ ArpTick
  \/ \E p \in Packet : Receive(p)
  \/ \E ip \in Ip : arp_entry_expiry_fn(ip)
  \/ \E ip \in Ip, p \in Packet : arp_cache_put_packet(ip, p)
  \/ \E ip \in Ip, port \in BOOLEAN : arp_cache_put(ip, port)

ArpSpec == arp_cache_init /\ [][ArpNext]_arpVars

\* Time passes, and the thread processes the timers that are due.
ArpFairSpec == ArpSpec /\ WF_arpVars(ArpTick) /\ \A ip \in Ip : WF_arpVars(arp_entry_expiry_fn(ip))

-----------------------------------------------------------------------------
(* Properties.                                                             *)

\* A packet that the cache has taken is in one list, once, and a packet in a
\* list has not been handed on or freed.
PacketsOwned ==
  /\ \A ip \in DOMAIN cache : IsInjective(cache[ip].list)
  /\ \A p \in Packet :
       owner[p] = "cache" <=> \E ip \in DOMAIN cache : p \in Range(cache[ip].list)
  /\ \A i, j \in DOMAIN cache : i # j => Range(cache[i].list) \cap Range(cache[j].list) = {}

\* What a lookup finds, with or without a hardware address, the same lookup goes
\* on finding until the address was neither put nor queued to for a whole timeout:
\* no packet that is queued, and no timer of another entry, makes it fail.
KeptUntilQuiet == [][\A ip \in Ip :
  (Known(ip) /\ ~Known(ip)') \/ (arp_cache_get(ip) /\ ~arp_cache_get(ip)')
    => quiet[ip] = ARP_CACHE_TIMEOUT]_arpVars

\* An address that is neither put nor queued to any more is forgotten, however
\* often it is looked up.
QuietForgotten == \A ip \in Ip :
  (Known(ip) /\ quiet[ip] > 0) ~> (~Known(ip) \/ quiet[ip] = 0)

\* A packet leaves its list: later packets for the address arm the timer again
\* and again, but they also push it out.
PacketsLeave == \A p \in Packet : (owner[p] = "cache") ~> (owner[p] # "cache")

\* An entry is kept for the whole timeout after the address was last put or queued
\* to, and not for ever after that; and no packet stays in its list for ever.
NoneWaitsForever == KeptUntilQuiet /\ QuietForgotten /\ PacketsLeave
=============================================================================
