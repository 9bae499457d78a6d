------------------------------ MODULE IpReass -------------------------------
(***************************************************************************)
(* ipreass: reassembly with a linked list of holes beside the packets      *)
(* (struct reassctx).  A hole is cut, shortened, split or removed in place *)
(* while the list is walked, one turn a step; the packets wait in arrival  *)
(* order until reassctx_reassemble copies them.                            *)
(***************************************************************************)
EXTENDS Integers, Sequences, SequencesExt

CONSTANTS Unit, Top,
          Input,       \* the fragments that may arrive
          MaxPackets   \* bound on the packets of one datagram

IpReassAssumption ==
  /\ Unit \in Nat \ {0} /\ Top \in Nat /\ MaxPackets \in Nat
  /\ Input \subseteq [first : {u \in 0 .. Top : u % Unit = 0}, len : 0 .. Top + 1, more : BOOLEAN]

VARIABLES hole_list, packet_list, most_restricting_last,
          pc, iter   \* the loop in which the call of add is, and the place in the list

vars == <<hole_list, packet_list, most_restricting_last, pc, iter>>

Missing == UNION {h.first .. h.last : h \in Range(hole_list)}

data_last(f) == f.first + f.len - 1

\* The tests at the head of reassctx_add.
Usable(f) == f.len > 0 /\ data_last(f) <= Top

reassctx_init ==
  /\ hole_list = << [first |-> 0, last |-> Top] >>
  /\ packet_list = << >>
  /\ most_restricting_last = Top
  /\ pc = "idle" /\ iter = 1

reassctx_complete == hole_list = << >>

-----------------------------------------------------------------------------
\* The packet is kept whatever the tests say of it.
reassctx_add(f) ==
  LET lowers == ~f.more /\ most_restricting_last > data_last(f)
  IN  /\ pc = "idle" /\ Len(packet_list) < MaxPackets
      /\ packet_list' = Append(packet_list, f)
      /\ IF Usable(f)
           THEN /\ most_restricting_last' = IF lowers THEN data_last(f) ELSE most_restricting_last
                /\ pc' = IF lowers THEN "clip" ELSE "enter"
           ELSE UNCHANGED <<most_restricting_last, pc>>
      /\ UNCHANGED <<hole_list, iter>>

\* The packet of the call, and the hole of this turn.
pkt == Last(packet_list)
hole == hole_list[iter]

InLoop(loop) == pc = loop /\ UNCHANGED <<packet_list, most_restricting_last>>
Turn(loop) == InLoop(loop) /\ iter \in DOMAIN hole_list

Continue == UNCHANGED pc
Return == pc' = "idle"

\* The hole is deleted; the next one is in its place.
Delete == hole_list' = RemoveAt(hole_list, iter) /\ UNCHANGED iter

\* It changes or stays, and the walk passes it.
Leave(h) == hole_list' = [hole_list EXCEPT ![iter] = h] /\ iter' = iter + 1

\* The end of the list.
LoopEnds(loop, next) ==
  InLoop(loop) /\ iter = Len(hole_list) + 1 /\ iter' = 1 /\ pc' = next /\ UNCHANGED hole_list

\* The walk after the end was lowered: holes past it go, one across it is cut.
ClipDelete == Turn("clip") /\ hole.first > most_restricting_last /\ Delete /\ Continue

\* Mutant: a hole across the end is not cut.
Cut_not(h) == h

Cut(h) == [h EXCEPT !.last = IF @ > most_restricting_last THEN most_restricting_last ELSE @]

ClipCut == Turn("clip") /\ hole.first <= most_restricting_last /\ Leave(Cut(hole)) /\ Continue

Clip == ClipDelete \/ ClipCut \/ LoopEnds("clip", "enter")

\* The walk that enters the data: it returns at the first hole that does not end
\* before the data does.
Covers == pkt.first <= hole.first
Before == [hole EXCEPT !.last = pkt.first - 1]
After == [hole EXCEPT !.first = data_last(pkt) + 1]

EnterSame ==
  /\ Turn("enter") /\ data_last(pkt) = hole.last
  /\ IF Covers THEN hole_list' = RemoveAt(hole_list, iter)
               ELSE hole_list' = [hole_list EXCEPT ![iter] = Before]
  /\ Return /\ iter' = 1

\* With data inside it, the hole in the new packet goes before the hole.
EnterBefore ==
  /\ Turn("enter") /\ data_last(pkt) < hole.last
  /\ IF Covers
       THEN hole_list' = IF data_last(pkt) + 1 > hole.first
                           THEN [hole_list EXCEPT ![iter] = After] ELSE hole_list
       ELSE hole_list' = InsertAt([hole_list EXCEPT ![iter] = After], iter, Before)
  /\ Return /\ iter' = 1

EnterBeyond ==
  /\ Turn("enter") /\ data_last(pkt) > hole.last
  /\ IF Covers THEN Delete ELSE Leave(IF hole.last > pkt.first - 1 THEN Before ELSE hole)
  /\ Continue

Enter == EnterSame \/ EnterBefore \/ EnterBeyond \/ LoopEnds("enter", "idle")

Step == Clip \/ Enter

\* The packets are freed and the context is initialised again.
reassctx_free ==
  /\ pc = "idle"
  /\ hole_list' = << [first |-> 0, last |-> Top] >>
  /\ packet_list' = << >>
  /\ most_restricting_last' = Top
  /\ UNCHANGED <<pc, iter>>

Next == reassctx_free \/ Step \/ \E f \in Input : reassctx_add(f)

Spec == reassctx_init /\ [][Next]_vars

-----------------------------------------------------------------------------
(* reassctx_reassemble: every packet is copied to its offset.  The length  *)
(* is computed in unsigned int.                                            *)

\* 2^32 in the code, out of proportion to any length.
UIntRange == 4 * (Top + 1)

\* Mutant: not cut at the end of the datagram.
CopyLength_uncut(f) == f.len

CopyLength(f) ==
  IF data_last(f) > most_restricting_last
    THEN (1 + most_restricting_last - f.first) % UIntRange
    ELSE f.len

Copied(f) == f.first .. f.first + CopyLength(f) - 1

-----------------------------------------------------------------------------
(* Properties.                                                             *)

\* The walk of reassctx_add relies on a list in ascending order: it returns at
\* the first hole that ends after the data.
HolesAscend ==
  /\ \A i \in DOMAIN hole_list : hole_list[i].first <= hole_list[i].last
  /\ \A i, j \in DOMAIN hole_list : i < j => hole_list[i].last < hole_list[j].first

\* The bytes of the packet of the call, which have arrived when it is handed in.
Entering == IF pc = "idle" THEN {} ELSE pkt.first .. data_last(pkt)

\* What the walks of the call, when they are over, will have left in the list.
StillMissing == {b \in Missing : pc = "clip" => b <= most_restricting_last} \ Entering

Abstract == INSTANCE Reassembly WITH
  frag <- IF packet_list = << >> THEN [first |-> 0, len |-> 0, more |-> FALSE] ELSE pkt,
  last <- most_restricting_last, missing <- StillMissing

\* The hole list holds exactly the bytes that are missing, so the context is
\* complete exactly when every byte has arrived, whatever the order and the
\* overlap of the fragments and however often the end is lowered.
IpReassImplements == Abstract!Spec

Assembled ==
  UNION {Copied(f) : f \in Range(packet_list)} = 0 .. most_restricting_last

\* The holes ascend, also in the middle of a walk; and if no packet starts past
\* the end of a complete datagram, the copies fill the datagram and nothing else:
\* no byte is left as malloc returned it and none is written past the end.
CopiesFill ==
  /\ HolesAscend
  /\ (reassctx_complete /\ \A f \in Range(packet_list) : f.first <= most_restricting_last)
     => Assembled
=============================================================================
