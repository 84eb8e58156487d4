----------------------------- MODULE Float128 -----------------------------
(***************************************************************************)
(* The soft-float helpers behind Float128: what the compiler's libcalls    *)
(* (__addtf3, __divtf3, __fixtfdi, __lttf2, ...) compute on an unpacked    *)
(* sign, exponent and fraction.  The widths are parameters; the code has   *)
(* MantBits = 112, ExpBits = 15, WordBits = 128, and for the double it     *)
(* converts to and from DMantBits = 52, DExpBits = 11.                     *)
(***************************************************************************)
EXTENDS PowersOfTwo

CONSTANTS MantBits, ExpBits, WordBits, DMantBits, DExpBits

ExpMask == Power[ExpBits] - 1
Bias    == Power[ExpBits - 1] - 1
Floats  == [s : 0 .. 1, e : 0 .. ExpMask, m : 0 .. Power[MantBits] - 1]

DExpMask == Power[DExpBits] - 1
DBias    == Power[DExpBits - 1] - 1
Doubles  == [s : 0 .. 1, e : 0 .. DExpMask, m : 0 .. Power[DMantBits] - 1]

ASSUME WidthAssumption ==
  /\ {MantBits, ExpBits, WordBits, DMantBits, DExpBits} \subseteq Nat \ {0}
  /\ MantBits + 2 <= WordBits /\ DMantBits < MantBits /\ DExpBits <= ExpBits
  /\ MantBits <= Bias    \* the exponent of an integer of the significand's length fits

IsNan(f)  == f.e = ExpMask /\ f.m # 0
IsInf(f)  == f.e = ExpMask /\ f.m = 0
IsZero(f) == f.e = 0 /\ f.m = 0

\* xiom_f128_pack: the exponent and the significand lose what does not fit,
\* the implicit bit among it.
Pack(sign, exp, sig) == [s |-> sign, e |-> exp % Power[ExpBits], m |-> sig % Power[MantBits]]

Zero(sign)     == Pack(sign, 0, 0)
Infinity(sign) == Pack(sign, ExpMask, 0)
NaN(sign)      == Pack(sign, ExpMask, 1)

\* The implicit bit is set for subnormal operands too.
Significand(f) == Power[MantBits] + f.m

BitLength(n) == CHOOSE k \in 1 .. 2 * WordBits : Power[k - 1] <= n /\ n < Power[k]

\* A number shifted until its leading bit is the implicit one.
Aligned(n) == IF BitLength(n) > MantBits THEN n \div Power[BitLength(n) - MantBits - 1]
              ELSE n * Power[MantBits + 1 - BitLength(n)]

\* A shift of the word by its width or more is undefined: compiled code takes
\* the count modulo the width, or the compiler knows better.
Shifted(n, count) ==
  IF count < WordBits THEN {n \div Power[count]} ELSE {n \div Power[count % WordBits], 0}

Exponent(n) == BitLength(n) - MantBits - 1

RoundPack(sign, exp, sig, extra) ==
  IF extra <= 0 THEN Pack(sign, exp, sig) ELSE
  LET kept    == sig \div Power[extra]
      guard   == (sig \div Power[extra - 1]) % 2 = 1
      sticky  == sig % Power[extra - 1] # 0
      rounded == IF guard /\ (sticky \/ kept % 2 = 1) THEN kept + 1 ELSE kept
      grown   == rounded >= Power[MantBits + 1]
  IN IF rounded = 0 THEN Zero(sign)
     ELSE IF grown THEN Pack(sign, exp + 1, rounded \div 2) ELSE Pack(sign, exp, rounded)
-----------------------------------------------------------------------------
(* Arithmetic.  A result is a set of outcomes: the undefined shift has two. *)

\* Same sign: the smaller operand is shifted down and truncated, nothing rounds.
AddMagnitudes(sign, a, b) ==
  LET e == IF a.e > b.e THEN a.e ELSE b.e
  IN {RoundPack(sign, e + Exponent(x + y), Aligned(x + y), 0) :
        x \in Shifted(Significand(a), e - a.e), y \in Shifted(Significand(b), e - b.e)}

\* Faulty variant, in no result: the significands are ordered before the exponents.
FaultySubMagnitudes(sa, sb, a, b) ==
  LET swap  == a.m < b.m \/ (a.m = b.m /\ a.e < b.e)
      big   == IF swap THEN b ELSE a
      small == IF swap THEN a ELSE b
      gap   == IF big.e < small.e THEN 0 ELSE big.e - small.e
      diff  == Significand(big) - Significand(small) \div Power[gap]
  IN IF diff = 0 THEN Zero(0)
     ELSE RoundPack(IF swap THEN sb ELSE sa, big.e + Exponent(diff), Aligned(diff), 0)

\* Opposite signs: the larger operand gives the sign.
SubMagnitudes(sa, sb, a, b) ==
  LET swap  == a.e < b.e \/ (a.e = b.e /\ a.m < b.m)
      big   == IF swap THEN b ELSE a
      small == IF swap THEN a ELSE b
      sign  == IF swap THEN sb ELSE sa
      gap   == big.e - small.e
      diff  == Significand(big) - Significand(small) \div Power[gap]
  IN IF gap >= WordBits THEN Pack(sign, big.e, big.m)
     ELSE IF diff = 0 THEN Zero(0)
     ELSE RoundPack(sign, big.e + Exponent(diff), Aligned(diff), 0)

AddSub(a, b, subtract) ==
  LET sb == (b.s + subtract) % 2
  IN IF IsNan(a) THEN {a}
     ELSE IF IsNan(b) THEN {b}
     ELSE IF IsInf(a) THEN {IF IsInf(b) /\ (a.s + b.s) % 2 = subtract THEN NaN(a.s) ELSE a}
     ELSE IF IsInf(b) THEN {b}
     ELSE IF IsZero(a) THEN
       {IF ~IsZero(b) THEN [b EXCEPT !.s = sb] ELSE IF a.s = sb THEN Zero(a.s) ELSE Zero(0)}
     ELSE IF IsZero(b) THEN {a}
     ELSE IF a.s = sb THEN AddMagnitudes(a.s, a, b)
     ELSE {SubMagnitudes(a.s, sb, a, b)}

Mul(a, b) ==
  LET sign == (a.s + b.s) % 2
      p    == Significand(a) * Significand(b)
      e    == a.e + b.e - Bias
  IN IF IsNan(a) THEN a
     ELSE IF IsNan(b) THEN b
     ELSE IF IsInf(a) \/ IsInf(b) THEN
       IF IsZero(a) \/ IsZero(b) THEN NaN(sign) ELSE Infinity(sign)
     ELSE IF IsZero(a) \/ IsZero(b) THEN Zero(sign)
     ELSE IF p >= Power[2 * MantBits + 1] THEN RoundPack(sign, e + 1, p \div Power[MantBits + 1], 0)
     ELSE RoundPack(sign, e, p \div Power[MantBits], 0)

\* xiom_f128_udiv_114: the fraction num / den, num < den, to one bit more than
\* a significand has.
Udiv(num, den) == (num * Power[MantBits + 2]) \div den

\* The dividend's significand is halved, and loses its last bit, until it is
\* below the divisor's.
Dividend(a, b) ==
  IF Significand(a) >= Significand(b) THEN Significand(a) \div 2 ELSE Significand(a)

Quotient(a, b) == Udiv(Dividend(a, b), Significand(b))

Div(a, b) ==
  LET sign == (a.s + b.s) % 2
      e    == a.e - b.e + Bias - 1
  IN IF IsNan(a) THEN a
     ELSE IF IsNan(b) THEN b
     ELSE IF IsInf(a) THEN IF IsInf(b) THEN NaN(sign) ELSE Infinity(sign)
     ELSE IF IsZero(b) THEN IF IsZero(a) THEN NaN(sign) ELSE Infinity(sign)
     ELSE IF IsZero(a) \/ IsInf(b) THEN Zero(sign)
     ELSE RoundPack(sign, IF Significand(a) >= Significand(b) THEN e + 1 ELSE e,
                    Quotient(a, b), 1)

Neg(a) == [a EXCEPT !.s = 1 - @]
-----------------------------------------------------------------------------
(* Conversions *)

\* From a 64-bit integer.
FromInt(i) ==
  LET sign == IF i < 0 THEN 1 ELSE 0
      mag  == IF i < 0 THEN -i ELSE i
  IN IF mag = 0 THEN Zero(sign) ELSE Pack(sign, Bias + BitLength(mag) - 1, Aligned(mag))

\* From the word of a 128-bit integer; its low bits may be cut.
FromWide(u, neg) ==
  LET mag == IF neg = 1 THEN (Power[WordBits] - u) % Power[WordBits] ELSE u
  IN IF mag = 0 THEN Zero(neg) ELSE Pack(neg, Bias + BitLength(mag) - 1, Aligned(mag))

\* The number below the binary point is dropped; 0 stands for a NaN, an infinity
\* and for every number of 2^(MantBits + 1) or more, whether it fits or not.
Truncated(f) ==
  LET shift == MantBits - (f.e - Bias)
  IN IF IsNan(f) \/ IsInf(f) \/ IsZero(f) \/ shift < 0 \/ shift >= WordBits THEN 0
     ELSE Significand(f) \div Power[shift]

ToSigned(f, bits) ==
  LET mag == Truncated(f)
  IN IF f.s = 1 THEN IF mag > Power[bits - 1] THEN 0 ELSE -mag
     ELSE IF mag >= Power[bits - 1] THEN 0 ELSE mag

ToUnsigned(f, bits) == IF f.s = 1 THEN 0 ELSE Truncated(f) % Power[bits]

\* xiom_f128_from_f64_impl gives a subnormal double an implicit bit, too.
FromDouble(d) ==
  IF d.e = DExpMask THEN IF d.m = 0 THEN Infinity(d.s) ELSE NaN(d.s)
  ELSE IF d.e = 0 /\ d.m = 0 THEN Zero(d.s)
  ELSE Pack(d.s, d.e - DBias + Bias, d.m * Power[MantBits - DMantBits])

Dropped == MantBits - DMantBits

\* xiom_f128_to_f64_core; what is below the normal doubles loses the dropped
\* bits twice.
ToDouble(f) ==
  LET e      == f.e - Bias + DBias
      sig    == Significand(f)
      kept   == sig \div Power[Dropped]
      guard  == (sig \div Power[Dropped - 1]) % 2 = 1
      sticky == sig % Power[Dropped - 1] # 0
      mant   == IF guard /\ (sticky \/ kept % 2 = 1) THEN kept + 1 ELSE kept
      tiny   == Dropped + 1 - e
  IN IF IsNan(f) THEN [s |-> 0, e |-> DExpMask, m |-> Power[DMantBits - 1]]
     ELSE IF IsZero(f) THEN [s |-> f.s, e |-> 0, m |-> 0]
     ELSE IF IsInf(f) \/ e >= DExpMask THEN [s |-> f.s, e |-> DExpMask, m |-> 0]
     ELSE IF e <= 0 THEN
       [s |-> f.s, e |-> 0,
        m |-> IF tiny >= WordBits THEN 0 ELSE (sig \div Power[tiny]) \div Power[Dropped]]
     ELSE [s |-> f.s, e |-> IF mant >= Power[DMantBits + 1] THEN e + 1 ELSE e,
           m |-> (IF mant >= Power[DMantBits + 1] THEN mant \div 2 ELSE mant) % Power[DMantBits]]
-----------------------------------------------------------------------------
(* Comparisons: the C library's convention of a sign, 1 for "unordered". *)

Unordered(a, b) == IsNan(a) \/ IsNan(b)
Magnitude(f)    == f.e * Power[MantBits] + f.m

\* Bits are compared, so that the two zeros differ.
CmpEq(a, b) == IF ~Unordered(a, b) /\ a = b THEN 0 ELSE 1

Cmp(a, b) ==
  IF Unordered(a, b) THEN 1
  ELSE IF a = b THEN 0
  ELSE IF a.s # b.s THEN IF a.s = 1 THEN -1 ELSE 1
  ELSE IF (Magnitude(a) < Magnitude(b)) = (a.s = 0) THEN -1 ELSE 1

CmpGe(a, b) == IF Cmp(a, b) = 1 THEN 0 ELSE Cmp(a, b)
CmpGt(a, b) == IF Cmp(a, b) > 0 THEN 1 ELSE 0
CmpLe(a, b) == Cmp(a, b)
CmpLt(a, b) == IF Cmp(a, b) < 0 THEN -1 ELSE 0
=============================================================================
