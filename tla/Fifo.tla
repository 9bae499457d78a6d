-------------------------------- MODULE Fifo --------------------------------
(***************************************************************************)
(* What a queue promises its callers (queue/queue.h): a bounded first-in   *)
(* first-out channel.  Every item that is put is handed out at most once,  *)
(* in the order of the puts, and at most Capacity items are held.          *)
(***************************************************************************)
EXTENDS Naturals, Sequences

CONSTANTS Item,      \* the pointers that callers enqueue
          Capacity   \* how many items the channel holds at most

VARIABLES held,      \* the items put and not yet handed out, oldest first
          out        \* every item handed out so far, in that order

FifoInit ==
  /\ held = << >>
  /\ out = << >>

Put(x) ==
  /\ Len(held) < Capacity
  /\ held' = Append(held, x)
  /\ out' = out

Get ==
  /\ held # << >>
  /\ held' = Tail(held)
  /\ out' = Append(out, Head(held))

FifoNext == Get \/ \E x \in Item : Put(x)

FifoSpec == FifoInit /\ [][FifoNext]_<<held, out>>
=============================================================================
