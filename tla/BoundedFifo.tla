----------------------------- MODULE BoundedFifo -----------------------------
(***************************************************************************)
(* What a bounded channel promises: a message that went in comes out once, *)
(* in the order in which the messages went in, and no more than Bound of   *)
(* them wait at any time.                                                  *)
(***************************************************************************)
EXTENDS Naturals, Sequences

CONSTANTS Messages, Bound

VARIABLES items, delivered

fifoVars == <<items, delivered>>

Init == items = <<>> /\ delivered = <<>>

Send(m) ==
  /\ Len(items) < Bound
  /\ items' = Append(items, m)
  /\ UNCHANGED delivered

Receive ==
  /\ items # <<>>
  /\ delivered' = Append(delivered, Head(items))
  /\ items' = Tail(items)

Next == Receive \/ \E m \in Messages : Send(m)

Spec == Init /\ [][Next]_fifoVars
=============================================================================
