-------------------------------- MODULE Fifo --------------------------------
(***************************************************************************)
(* What a circular buffer promises: a bounded queue, first in, first out.  *)
(***************************************************************************)
EXTENDS Naturals, Sequences

CONSTANTS Items, Bound, none

VARIABLES q,    \* the items in the queue
          out   \* the item taken last

Put(x) ==
  /\ Len(q) < Bound
  /\ q' = Append(q, x)
  /\ UNCHANGED out

Take ==
  /\ q # <<>>
  /\ out' = Head(q)
  /\ q' = Tail(q)

FifoSpec ==
  /\ q = <<>> /\ out = none
  /\ [][(\E x \in Items : Put(x)) \/ Take]_<<q, out>>
=============================================================================
