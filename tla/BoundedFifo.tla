---------------------------- MODULE BoundedFifo ----------------------------
(***************************************************************************)
(* What a ring promises its two users: a queue that never holds more than  *)
(* Bound values and gives them back once each, in the order they came in.  *)
(***************************************************************************)
EXTENDS Naturals, Sequences

CONSTANTS Values,  \* what is queued
          Bound,   \* how many values fit
          Nothing  \* no value taken yet

VARIABLES items,   \* the queued values, oldest first
          got      \* the value that was taken last

fifoVars == <<items, got>>

FifoInit == items = <<>> /\ got = Nothing

Put(v) == /\ Len(items) < Bound
          /\ items' = Append(items, v)
          /\ got' = got

Get == /\ items # <<>>
       /\ got' = Head(items)
       /\ items' = Tail(items)

FifoNext == Get \/ \E v \in Values : Put(v)

FifoSpec == FifoInit /\ [][FifoNext]_fifoVars
=============================================================================
