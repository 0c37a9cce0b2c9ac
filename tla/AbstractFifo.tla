---------------------------- MODULE AbstractFifo ----------------------------
(***************************************************************************)
(* What kernel/kfifo.c promises: a bounded queue of bytes.  A put appends  *)
(* the bytes that it takes from its caller, a get returns the bytes that   *)
(* it takes from the front.                                                *)
(***************************************************************************)
EXTENDS Naturals, Sequences

CONSTANT Size
VARIABLES q,     \* the bytes in the queue
          moved  \* what the last put took from, or the last get gave to its caller

Init == q = <<>> /\ moved = <<>>

Put == q' = q \o moved' /\ Len(q') <= Size

Get == q = moved' \o q'

Reset == q' = <<>> /\ moved' = moved

Spec == Init /\ [][Put \/ Get \/ Reset]_<<q, moved>>
=============================================================================
