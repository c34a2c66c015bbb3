----------------------------- MODULE BoundedFifo -----------------------------
(***************************************************************************)
(* A queue of at most Capacity keys: what the keyboard driver promises.    *)
(* A key that does not fit is dropped, the others come out once each and   *)
(* in the order they went in.                                              *)
(***************************************************************************)
EXTENDS Naturals, Sequences

CONSTANTS Key, Capacity

VARIABLES fifo,  \* the keys waiting
          out    \* the key being handled, <<>> when there is none

fvars == <<fifo, out>>

FifoInit == fifo = <<>> /\ out = <<>>

Put == /\ Len(fifo) < Capacity
       /\ \E k \in Key : fifo' = Append(fifo, k)
       /\ UNCHANGED out

Take == /\ fifo # <<>>
        /\ out = <<>>
        /\ out' = <<Head(fifo)>>
        /\ fifo' = Tail(fifo)

Handled == out # <<>> /\ out' = <<>> /\ UNCHANGED fifo

FifoNext == Put \/ Take \/ Handled

FifoSpec == FifoInit /\ [][FifoNext]_fvars
=============================================================================
