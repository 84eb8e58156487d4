------------------------------ MODULE WideInt ------------------------------
(***************************************************************************)
(* The 128-bit integer libcalls (__udivti3, __divti3, __modti3, __multi3)  *)
(* and the portable bit scans, on words of Width and ScanWidth bits: the   *)
(* code has 128 and 64.  An unsigned word is a number below 2^Width, a     *)
(* signed one is its two's complement.                                     *)
(***************************************************************************)
EXTENDS PowersOfTwo

CONSTANTS Width, ScanBits

ASSUME WideAssumption == Width \in Nat \ {0, 1} /\ ScanBits \in Nat \ {0}

ScanWidth == Power[ScanBits]

Words     == 0 .. Power[Width] - 1
Word(v)   == v % Power[Width]
MinWord   == Power[Width - 1]
Signed(w) == IF w >= MinWord THEN w - Power[Width] ELSE w
Bit(w, k) == (w \div Power[k]) % 2

\* Faulty variant, in no result: the divisor is not subtracted from its equal.
FaultyDivStep(b, acc, bit, a) ==
  LET r == Word(2 * acc.r) + Bit(a, bit)
  IN IF r > b THEN [r |-> r - b, q |-> acc.q + Power[bit]] ELSE [acc EXCEPT !.r = r]

\* Restoring division, one bit of the dividend at a time.  The remainder's top
\* bit is looked at before the shift loses it.
DivStep(b, acc, bit, a) ==
  LET overflow == Bit(acc.r, Width - 1) = 1
      r        == Word(2 * acc.r) + Bit(a, bit)
  IN IF overflow \/ r >= b THEN [r |-> Word(r - b), q |-> acc.q + Power[bit]]
     ELSE [acc EXCEPT !.r = r]

\* The bits from the most significant one down.
Udivti3(a, b) ==
  LET acc[k \in 0 .. Width] == IF k = 0 THEN [r |-> 0, q |-> 0] ELSE DivStep(b, acc[k - 1], Width - k, a)
  IN acc[Width].q

\* The magnitude of a signed word, without the overflow that negating the least number has.
Unsigned(w) == IF Signed(w) < 0 THEN Word(-(Signed(w) + 1)) + 1 ELSE w

Divti3(a, b) ==
  LET q == Udivti3(Unsigned(a), Unsigned(b))
  IN IF Signed(b) = -1 /\ a = MinWord THEN MinWord
     ELSE IF (Signed(a) < 0) # (Signed(b) < 0) THEN Word(-q) ELSE q

Modti3(a, b)  == Word(a - Divti3(a, b) * b)
Umodti3(a, b) == a - Udivti3(a, b) * b
Multi3(a, b)  == Word(a * b)
-----------------------------------------------------------------------------
\* The binary searches try half the word, a quarter, ... one bit: h bits that are zero
\* are shifted out and counted.
LeadingStep(acc, h) ==
  IF acc.v \div Power[ScanWidth - h] = 0
  THEN [v |-> (acc.v * Power[h]) % Power[ScanWidth], n |-> acc.n + h] ELSE acc

TrailingStep(acc, h) ==
  IF acc.v % Power[h] = 0 THEN [v |-> acc.v \div Power[h], n |-> acc.n + h] ELSE acc

ScanStart(x) == [v |-> x, n |-> 0]

Clz64(x) ==
  LET acc[k \in 0 .. ScanBits] ==
        IF k = 0 THEN ScanStart(x) ELSE LeadingStep(acc[k - 1], Power[ScanBits - k])
  IN IF x = 0 THEN ScanWidth ELSE acc[ScanBits].n

Ctz64(x) ==
  LET acc[k \in 0 .. ScanBits] ==
        IF k = 0 THEN ScanStart(x) ELSE TrailingStep(acc[k - 1], Power[ScanBits - k])
  IN IF x = 0 THEN ScanWidth ELSE acc[ScanBits].n
=============================================================================
