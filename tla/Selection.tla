----------------------------- MODULE Selection -----------------------------
(***************************************************************************)
(* A loop over a sequence that keeps some of its elements, as the runtime  *)
(* and the library have them in many places.                               *)
(***************************************************************************)
EXTENDS Integers, Sequences

\* The elements of s at the places in K, in their order.
Selected(s, K) ==
  LET kept[k \in 0 .. Len(s)] ==
        IF k = 0 THEN <<>> ELSE IF k \in K THEN Append(kept[k - 1], s[k]) ELSE kept[k - 1]
  IN kept[Len(s)]
=============================================================================
