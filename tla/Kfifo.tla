------------------------------- MODULE Kfifo --------------------------------
(***************************************************************************)
(* kernel/kfifo.c and include/linux/kfifo.h: a ring buffer of bytes whose  *)
(* indices are never reduced to the size of the buffer; they run on and    *)
(* wrap with the width of an unsigned int.                                 *)
(*                                                                         *)
(* One writer and one reader may use __kfifo_put() and __kfifo_get()       *)
(* without a lock (UseLock = FALSE); kfifo_put(), kfifo_get() and          *)
(* kfifo_reset() take fifo->lock (UseLock = TRUE).  Bytes are copied one   *)
(* at a time, so that the other side can be anywhere in between.  The      *)
(* barriers are taken to do their work.                                    *)
(***************************************************************************)
EXTENDS Naturals, Sequences

CONSTANTS
  Size,    \* fifo->size
  Wrap,    \* the indices are counted modulo Wrap: 2^32 in the code
  Byte,    \* the values of a byte
  MaxLen,  \* bound: the largest len a caller asks for
  UseLock  \* kfifo_put/kfifo_get, or the variants without a lock

\* BUG_ON(!is_power_of_2(size)): the largest size is half of 2^32.
KfifoAssumption ==
  /\ Size \in Nat \ {0} /\ Wrap \in Nat /\ Wrap % Size = 0 /\ Wrap >= 2 * Size
  /\ MaxLen \in Nat /\ UseLock \in BOOLEAN

VARIABLES
  in, out, buffer,  \* struct kfifo
  lock,             \* fifo->lock: "free", "put" or "get"
  wpc, wlen, wbuf,  \* the writer: where it is, its len, what it has copied so far
  rpc, rlen, rbuf,  \* the reader: the same
  moved             \* history: what the last put or get has copied

wvars == <<wpc, wlen, wbuf>>
rvars == <<rpc, rlen, rbuf>>
vars == <<in, out, buffer, lock, wvars, rvars, moved>>

\* A new fifo; kmalloc() leaves in the buffer what was there.
kfifo_init(content) ==
  /\ in = 0 /\ out = 0 /\ lock = "free" /\ buffer = content
  /\ wpc = "idle" /\ wlen = 0 /\ wbuf = <<>>
  /\ rpc = "idle" /\ rlen = 0 /\ rbuf = <<>>
  /\ moved = <<>>

Init == \E content \in [0..Size-1 -> Byte] : kfifo_init(content)

Smaller(a, b) == IF a < b THEN a ELSE b

Acquire(who) == lock = "free" /\ lock' = IF UseLock THEN who ELSE "free"

\* fifo->in - fifo->out and fifo->size - fifo->in + fifo->out, as unsigned int.
kfifo_len == (Wrap + in - out) % Wrap
Free == (Wrap + Size - in + out) % Wrap

\* Where byte i of n goes when a copy starts at index idx: the first part up to
\* the end of the buffer, the rest at its beginning.
Offset_OffByOne(idx, i, n) ==
  LET l == Smaller(n, Size - (idx % Size) - 1)
  IN  IF i < l THEN (idx % Size) + i ELSE i - l
Offset(idx, i, n) ==
  LET l == Smaller(n, Size - (idx % Size))
  IN  IF i < l THEN (idx % Size) + i ELSE i - l

-----------------------------------------------------------------------------
PutBegin ==
  /\ wpc = "idle" /\ Acquire("put")
  /\ \E len \in 0..MaxLen : wlen' = Smaller(len, Free)
  /\ wpc' = "copy" /\ wbuf' = <<>>
  /\ UNCHANGED <<in, out, buffer, rvars, moved>>

PutByte ==
  /\ wpc = "copy" /\ Len(wbuf) < wlen
  /\ \E b \in Byte : /\ buffer' = [buffer EXCEPT ![Offset(in, Len(wbuf), wlen)] = b]
                     /\ wbuf' = Append(wbuf, b)
  /\ UNCHANGED <<in, out, lock, wpc, wlen, rvars, moved>>

PutEnd ==
  /\ wpc = "copy" /\ Len(wbuf) = wlen
  /\ in' = (in + wlen) % Wrap
  /\ moved' = wbuf
  /\ wpc' = "idle" /\ wlen' = 0 /\ wbuf' = <<>> /\ lock' = "free"
  /\ UNCHANGED <<out, buffer, rvars>>

GetBegin ==
  /\ rpc = "idle" /\ Acquire("get")
  /\ \E len \in 0..MaxLen : rlen' = Smaller(len, kfifo_len)
  /\ rpc' = "copy" /\ rbuf' = <<>>
  /\ UNCHANGED <<in, out, buffer, wvars, moved>>

GetByte ==
  /\ rpc = "copy" /\ Len(rbuf) < rlen
  /\ rbuf' = Append(rbuf, buffer[Offset(out, Len(rbuf), rlen)])
  /\ UNCHANGED <<in, out, buffer, lock, wvars, rpc, rlen, moved>>

NewOut == (out + rlen) % Wrap

\* kfifo_get() sets the indices of an empty fifo to 0.
Emptied == NewOut = in

GetEnd ==
  /\ rpc = "copy" /\ Len(rbuf) = rlen
  /\ IF UseLock /\ Emptied THEN in' = 0 /\ out' = 0
                          ELSE in' = in /\ out' = NewOut
  /\ moved' = rbuf
  /\ rpc' = "idle" /\ rlen' = 0 /\ rbuf' = <<>> /\ lock' = "free"
  /\ UNCHANGED <<buffer, wvars>>

kfifo_reset ==
  /\ UseLock /\ lock = "free"
  /\ in' = 0 /\ out' = 0
  /\ UNCHANGED <<buffer, lock, wvars, rvars, moved>>

Next == PutBegin \/ PutByte \/ PutEnd \/ GetBegin \/ GetByte \/ GetEnd \/ kfifo_reset

Spec == Init /\ [][Next]_vars

-----------------------------------------------------------------------------
(* Properties.                                                             *)

\* The type of every variable; nobody copies more than the buffer holds.
TypeOK ==
  /\ in \in 0..Wrap-1 /\ out \in 0..Wrap-1
  /\ buffer \in [0..Size-1 -> Byte]
  /\ lock \in {"free", "put", "get"}
  /\ wpc \in {"idle", "copy"} /\ wlen \in 0..Size
  /\ rpc \in {"idle", "copy"} /\ rlen \in 0..Size
  /\ wbuf \in Seq(Byte) /\ Len(wbuf) <= wlen
  /\ rbuf \in Seq(Byte) /\ Len(rbuf) <= rlen
  /\ moved \in Seq(Byte)

\* The bytes between out and in, wherever the indices are, are a queue: a put
\* appends the caller's bytes, a get returns what was put first, complete and not
\* overwritten meanwhile, and nothing is lost or duplicated when the indices wrap
\* or are reset.
Contents == [i \in 1..kfifo_len |-> buffer[(out + i - 1) % Size]]
Fifo == INSTANCE AbstractFifo WITH q <- Contents

ImplementsFifo == Fifo!Spec
=============================================================================
