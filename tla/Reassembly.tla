----------------------------- MODULE Reassembly -----------------------------
(***************************************************************************)
(* What every fragment reassembler of ipfrag/ promises: which bytes of the *)
(* datagram are still missing, and when none is.  The implementations      *)
(* (IpReass, Rfc815, RbExplicit) are shown to implement it.                *)
(*                                                                         *)
(* Unit is the granularity of fragment offsets (8 in IPv4) and Top the     *)
(* largest byte offset, the initial most_restricting_last (65535).         *)
(***************************************************************************)
EXTENDS Integers

CONSTANTS Unit, Top

\* A fragment as the header of its packet describes it: ip_frag_off, the
\* payload length ip_total_len - ip_hdr_len, and ip_more_frags.
Fragment == [first : {u \in 0 .. Top : u % Unit = 0}, len : 0 .. Top + 1, more : BOOLEAN]

data_last(f) == f.first + f.len - 1

\* The tests at the head of every add function.
Usable(f) == f.len > 0 /\ data_last(f) <= Top

\* The last byte of the last whole unit.
WholeUnits(last) == ((last + 1) \div Unit) * Unit - 1

VARIABLES frag,     \* the fragment handed in last
          last,     \* most_restricting_last: where the datagram ends, so far
          missing   \* the bytes up to last that no fragment has brought

vars == <<frag, last, missing>>

NoFragment == [first |-> 0, len |-> 0, more |-> FALSE]

Init == frag = NoFragment /\ last = Top /\ missing = 0 .. Top

\* A last fragment may lower the end; the data is then entered.  Of a fragment
\* that does not lower the end an implementation may ignore a broken unit.
Lower(f) == IF ~f.more /\ last > data_last(f) THEN data_last(f) ELSE last

Arrive(f) ==
  /\ Usable(f)
  /\ frag' = f
  /\ last' = Lower(f)
  /\ \E upto \in {data_last(f), WholeUnits(data_last(f))} :
       /\ last' # last => upto = data_last(f)
       /\ missing' = {b \in missing : b <= last'} \ f.first .. upto

Ignore(f) == ~Usable(f) /\ frag' = f /\ UNCHANGED <<last, missing>>

\* The context is freed and initialised for the next datagram.
Restart == frag' = NoFragment /\ last' = Top /\ missing' = 0 .. Top

Next == Restart \/ \E f \in Fragment : Arrive(f) \/ Ignore(f)

Spec == Init /\ [][Next]_vars

Complete == missing = {}
=============================================================================
