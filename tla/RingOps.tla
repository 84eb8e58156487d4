------------------------------- MODULE RingOps -------------------------------
(***************************************************************************)
(* The ring-buffer arithmetic of the C runtime.  The MPSC channel          *)
(* (xiom_channel_t), the process-wide thread pool (xiom_tp_worker_t) and   *)
(* the owned worker pool (xiom_workerpool_t) all keep an array of cap      *)
(* slots with two indices that advance modulo cap and a separate count.    *)
(* Slots are numbered from 0, as in C.                                     *)
(***************************************************************************)
EXTENDS Integers, Sequences

\* The successor of an index: (i + 1) % cap.
RingNext(i, cap) == (i + 1) % cap

\* The slot that holds the item `off` places behind the front.
RingSlot(head, off, cap) == (head + off) % cap

\* The queue a ring stands for, front first.
RingContents(buf, head, count, cap) ==
  [k \in 1..count |-> buf[RingSlot(head, k - 1, cap)]]
=============================================================================
