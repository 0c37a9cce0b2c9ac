---------------------------- MODULE MCTicketLock ----------------------------
(***************************************************************************)
(* Model checking of TicketLock and Kfifo, which count with words that     *)
(* wrap.  They share no state, so one run holds both and only one of them  *)
(* moves: the spinlock, the fifo with its lock or the one without.         *)
(***************************************************************************)
EXTENDS TicketLock

CONSTANTS Size, IndexWrap, Byte, MaxLen  \* of Kfifo

VARIABLES part, in, out, buffer, lock, wpc, wlen, wbuf, rpc, rlen, rbuf, moved

Bare == INSTANCE Kfifo WITH Wrap <- IndexWrap, UseLock <- FALSE
Locked == INSTANCE Kfifo WITH Wrap <- IndexWrap, UseLock <- TRUE

ASSUME FifoAssumption == Bare!KfifoAssumption

fifovars == <<in, out, buffer, lock, wpc, wlen, wbuf, rpc, rlen, rbuf, moved>>
allvars == <<part, vars, fifovars>>

MCInit ==
  /\ Init
  /\ \/ part \in {"__kfifo", "kfifo"} /\ Bare!Init
     \/ part = "spinlock" /\ Bare!kfifo_init([i \in 0..Size-1 |-> CHOOSE b \in Byte : TRUE])

MCNext ==
  /\ UNCHANGED part
  /\ \/ part = "spinlock" /\ Next /\ UNCHANGED fifovars
     \/ part = "__kfifo" /\ Bare!Next /\ UNCHANGED vars
     \/ part = "kfifo" /\ Locked!Next /\ UNCHANGED vars

MCSpec == MCInit /\ [][MCNext]_allvars /\ Fairness

\* The fifo is a bounded queue, with its lock and without, wherever the indices
\* wrap or are set back.
ImplementsFifo == Bare!ImplementsFifo
=============================================================================
