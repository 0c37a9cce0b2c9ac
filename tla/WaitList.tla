------------------------------ MODULE WaitList ------------------------------
(***************************************************************************)
(* include/linux/list.h as the sleeping locks use it: a FIFO of waiters.   *)
(* A waiter structure lives on the stack of the task that waits, so a      *)
(* waiter is named by its task and can be on a list at most once.          *)
(***************************************************************************)
EXTENDS Naturals, Sequences

list_empty(list) == list = <<>>

list_first_entry(list) == Head(list)

list_add_tail(list, w) == Append(list, w)

Elems(list) == {list[i] : i \in 1 .. Len(list)}

\* The two neighbours of w are linked to each other.
list_del(list, w) ==
  LET p == CHOOSE i \in 1 .. Len(list) : list[i] = w
  IN  [i \in 1 .. Len(list) - 1 |-> IF i < p THEN list[i] ELSE list[i + 1]]

\* Nobody is linked twice.
IsWaitList(list, Waiters) ==
  /\ list \in Seq(Waiters)
  /\ \A i, j \in 1 .. Len(list) : list[i] = list[j] => i = j
=============================================================================
