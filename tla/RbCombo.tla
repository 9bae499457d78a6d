------------------------------ MODULE RbCombo -------------------------------
(***************************************************************************)
(* rbcombo: as combo, from the tree of holes of iprbexplicit to the tree   *)
(* inside the buffer of rb815 (struct rbcomboctx).  The first one frees a  *)
(* packet that changed no hole, so the second one gets to see only some of *)
(* the packets that came.                                                  *)
(***************************************************************************)
EXTENDS Integers, Sequences, SequencesExt

CONSTANTS Unit, Top, Input,
          Limit,        \* 65535/1514
          MaxCount      \* bound on the packets of one datagram

RbComboAssumption == Limit \in Nat /\ MaxCount \in Nat

VARIABLES rfc_active, packet_count,
          hole_tree, most_restricting_last, packet_list, kept,   \* u.reass
          pc, adding, mod, overlap,                              \* its call of add
          ctx, frag, top                                         \* u.rfc

reassVars == <<hole_tree, most_restricting_last, packet_list, kept, pc, adding, mod, overlap>>
rfcVars == <<ctx, frag, top>>
vars == <<rfc_active, packet_count, reassVars, rfcVars>>

Explicit == INSTANCE RbExplicit WITH frag <- adding, Ipv6 <- FALSE
Buffer == INSTANCE Rb815

rbcomboctx_init ==
  /\ rfc_active = FALSE /\ packet_count = 0 /\ packet_list = << >>
  /\ Explicit!rb_explicit_reassctx_init /\ Buffer!rb815ctx_init

rbcomboctx_complete ==
  IF rfc_active THEN Buffer!rb815ctx_complete(ctx) ELSE Explicit!rb_explicit_reassctx_complete

\* The new context has every packet that was kept, in the order of arrival.
rbcomboctx_promote == FoldLeft(LAMBDA c, p : Buffer!Added(c, p), Buffer!Initial, packet_list)

ReassFree == Explicit!rb_explicit_reassctx_free /\ packet_list' = << >>

Counts == pc = "idle" /\ packet_count < MaxCount /\ packet_count' = packet_count + 1

\* Without memory for the new context the first one goes on.
AddToTree(f) ==
  /\ Counts /\ ~rfc_active
  /\ Explicit!AddUnusable(f) \/ Explicit!rb_explicit_reassctx_add(f)
  /\ UNCHANGED <<rfc_active, packet_list, rfcVars>>

\* The call goes on; at its end the packet is kept or freed.
AddStep ==
  /\ Explicit!Step
  /\ packet_list' = IF pc = "found" /\ Explicit!Keep THEN Append(packet_list, adding) ELSE packet_list
  /\ UNCHANGED <<rfc_active, packet_count, rfcVars>>

AddPromoted(f) ==
  /\ Counts /\ ~rfc_active /\ packet_count > Limit
  /\ rfc_active' = TRUE /\ ReassFree
  /\ ctx' = Buffer!Added(rbcomboctx_promote, f) /\ frag' = f
  /\ top' = \E p \in Range(packet_list) \cup {f} : Buffer!data_last(p) = Top

AddToBuffer(f) ==
  /\ Counts /\ rfc_active
  /\ Buffer!rb815ctx_add(f)
  /\ UNCHANGED <<rfc_active, reassVars>>

rbcomboctx_add(f) == AddToTree(f) \/ AddPromoted(f) \/ AddToBuffer(f)

\* The context is freed and initialised again.
rbcomboctx_free ==
  /\ rfc_active' = FALSE /\ packet_count' = 0
  /\ ReassFree /\ Buffer!Reinit

Next == rbcomboctx_free \/ AddStep \/ \E f \in Input : rbcomboctx_add(f)

Spec == rbcomboctx_init /\ [][Next]_vars

-----------------------------------------------------------------------------
(* Properties.                                                             *)

\* After the change the tree in the buffer is linked, and no byte is taken for
\* payload that only a packet freed before the change carried.
PromotedIntact == rfc_active => Buffer!TreeLinked /\ Buffer!DataIntact

Abstract == INSTANCE Reassembly WITH
  frag <- IF rfc_active THEN frag ELSE adding,
  last <- IF rfc_active THEN ctx.last ELSE most_restricting_last,
  missing <- IF rfc_active THEN Buffer!Missing \cup {b \in {Top} : ctx.last = Top /\ ~top}
             ELSE IF pc = "search" THEN Explicit!Missing \ Explicit!Data ELSE Explicit!Missing

\* Before, at and after the change the context stands for the missing bytes, if
\* every fragment but the last consists of whole units: what the first context
\* freed is not missed by the second.
ImplementsReassembly == Abstract!Spec
=============================================================================
