-------------------------------- MODULE Fifo --------------------------------
(***************************************************************************)
(* A bounded queue of characters between a writer and a reader that never  *)
(* stops taking them.                                                      *)
(***************************************************************************)
EXTENDS Naturals, Sequences

CONSTANTS Char, Capacity

VARIABLE q

FInit == q = <<>>

Put == Len(q) < Capacity /\ \E c \in Char : q' = Append(q, c)
Take == q # <<>> /\ q' = Tail(q)

Lossless == FInit /\ [][Put \/ Take]_q

FSpec == Lossless /\ WF_q(Take)
=============================================================================
