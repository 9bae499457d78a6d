------------------------------- MODULE Combo --------------------------------
(***************************************************************************)
(* combo: a datagram of few fragments is reassembled as in ipreass; when   *)
(* there are many, the packets kept so far are entered into the buffer of  *)
(* rfc815, which takes over (struct comboctx).                             *)
(***************************************************************************)
EXTENDS Integers, Sequences, SequencesExt

CONSTANTS Unit, Top, Input,
          MaxPackets,   \* bound on the packets that the list keeps
          Limit,        \* 65535/1514
          MaxCount      \* bound on the packets of one datagram

ComboAssumption == MaxPackets \in Nat /\ Limit \in Nat /\ MaxCount \in Nat

VARIABLES rfc_active, packet_count,
          hole_list, packet_list, most_restricting_last, pc, iter,   \* u.reass
          ctx, frag                                                  \* u.rfc

reass == <<hole_list, packet_list, most_restricting_last, pc, iter>>
vars == <<rfc_active, packet_count, reass, ctx, frag>>

List == INSTANCE IpReass
Rfc == INSTANCE Rfc815

comboctx_init ==
  /\ rfc_active = FALSE /\ packet_count = 0
  /\ List!reassctx_init /\ Rfc!rfc815ctx_init

comboctx_complete == IF rfc_active THEN Rfc!rfc815ctx_complete ELSE List!reassctx_complete

\* Mutant: the oldest packet is left behind.
comboctx_promote_tail(packets) == FoldLeft(LAMBDA c, p : Rfc!Added(c, p), Rfc!Initial, Tail(packets))

\* The new context has every packet of the list, in the order of arrival.
comboctx_promote(packets) == FoldLeft(LAMBDA c, p : Rfc!Added(c, p), Rfc!Initial, packets)

Many == ~rfc_active /\ packet_count > Limit

Counts == packet_count < MaxCount /\ packet_count' = packet_count + 1

\* Without memory for the new context the list goes on.
AddToList(f) ==
  /\ Counts /\ ~rfc_active
  /\ List!reassctx_add(f) /\ frag' = f
  /\ UNCHANGED <<rfc_active, ctx>>

AddPromoted(f) ==
  /\ Counts /\ Many
  /\ rfc_active' = TRUE /\ List!reassctx_free
  /\ ctx' = Rfc!Added(comboctx_promote(packet_list), f) /\ frag' = f

AddToBuffer(f) ==
  /\ Counts /\ rfc_active
  /\ Rfc!rfc815ctx_add(f)
  /\ UNCHANGED <<rfc_active, reass>>

\* The walks of reassctx_add.
ListStep == ~rfc_active /\ List!Step /\ UNCHANGED <<rfc_active, packet_count, ctx, frag>>

comboctx_add(f) == AddToList(f) \/ AddPromoted(f) \/ AddToBuffer(f)

\* The context is freed and initialised again.
comboctx_free ==
  /\ rfc_active' = FALSE /\ packet_count' = 0
  /\ List!reassctx_free /\ Rfc!Reinit

Next == comboctx_free \/ ListStep \/ \E f \in Input : comboctx_add(f)

Spec == comboctx_init /\ [][Next]_vars

-----------------------------------------------------------------------------
(* Properties.                                                             *)

\* The change from list to buffer keeps the data: a byte that is not missing is
\* payload, and the holes are linked.
PromotedIntact == rfc_active => Rfc!ListWellFormed /\ Rfc!DataIntact /\ Rfc!ReassemblesData

Abstract == INSTANCE Reassembly WITH
  last <- IF rfc_active THEN ctx.last ELSE most_restricting_last,
  missing <- IF rfc_active THEN Rfc!Missing ELSE List!StillMissing

\* Before, at and after the change the context stands for the missing bytes, if
\* every fragment but the last consists of whole units: no byte that has come is
\* forgotten, and none that has not is taken for one that has.
ImplementsReassembly == Abstract!Spec
=============================================================================
