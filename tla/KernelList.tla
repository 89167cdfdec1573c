------------------------------ MODULE KernelList ------------------------------
(***************************************************************************)
(* The doubly linked list of <linux/list.h>, as the omxvdec driver uses it *)
(* for raw_queue and yuv_queue: a sequence of buffers, oldest first.  The  *)
(* list is external to the repository; these are the operations the driver *)
(* calls on it.                                                            *)
(***************************************************************************)
EXTENDS Naturals, Sequences

(* The entries a list_for_each_entry loop visits.                          *)
Entries(q) == {q[i] : i \in 1..Len(q)}

(* list_add_tail(&b->list, &q)                                             *)
list_add_tail(b, q) == Append(q, b)

(* list_del(&b->list): every other entry keeps its place in the order.     *)
list_del(b, q) ==
    LET at == CHOOSE i \in 1..Len(q) : q[i] = b
    IN  [j \in 1..(Len(q) - 1) |-> IF j < at THEN q[j] ELSE q[j + 1]]

(* An entry is linked at most once.  Linking it again, or unlinking it     *)
(* twice, corrupts a kernel list.                                          *)
LinkedOnce(q) == \A i, j \in 1..Len(q) : q[i] = q[j] => i = j
===============================================================================
