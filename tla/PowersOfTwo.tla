----------------------------- MODULE PowersOfTwo -----------------------------
(***************************************************************************)
(* Powers of two: what 1 << k is for a k below the width of the word.      *)
(***************************************************************************)
EXTENDS Integers

Power[k \in Nat] == IF k = 0 THEN 1 ELSE 2 * Power[k - 1]
=============================================================================
