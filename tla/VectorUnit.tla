---------------------------- MODULE VectorUnit ----------------------------
(***************************************************************************)
(* The vector kernels of simd_runtime.c in its three builds: x86 (SSE and  *)
(* AVX), NEON, and the scalar fallback.  A kernel reads its operands from  *)
(* memory at two addresses and writes its result at a third.  The          *)
(* elementary IEEE operations are the same on all of them and stay         *)
(* uninterpreted: a result is the term that says what was combined, in     *)
(* which order.  What the instruction sets define differently is spelt out *)
(* here: the minimum of NaNs and zeros, conversions and integers out of    *)
(* range, the order of a sum, and when the result is stored.               *)
(***************************************************************************)
EXTENDS Integers

CONSTANT IntRange   \* a 32-bit lane holds -IntRange .. IntRange - 1

ASSUME IntRangeAssumption == IntRange \in Nat \ {0}

\* Lanes: a number, a NaN, the negative zero; what no build promises.
Number(v) == [kind |-> "number", v |-> v]
NaNLane   == [kind |-> "nan", v |-> 0]
NegZero   == [kind |-> "negzero", v |-> 0]
Undefined == [kind |-> "undefined", v |-> 0]

Ordered(x, y) == x.kind # "nan" /\ y.kind # "nan"
Less(x, y)    == Ordered(x, y) /\ x.v < y.v
InRange(v)    == v \in -IntRange .. IntRange - 1
Wrapped(v)    == ((v + IntRange) % (2 * IntRange)) - IntRange

Exact(op, x, y) == CASE op = "i32x4_add" -> x.v + y.v
                     [] op = "i32x4_sub" -> x.v - y.v
                     [] op = "i32x4_mul" -> x.v * y.v

FloatOps   == {"f32x4_add", "f32x4_sub", "f32x4_mul", "f32x4_div", "f32x4_sqrt", "i32_to_f32"}
IntOps     == {"i32x4_add", "i32x4_sub", "i32x4_mul"}
Extrema    == {"f32x4_min", "f32x4_max"}
AvxOps     == {"f32x8_add", "f32x8_mul", "f64x4_add", "f64x4_mul"}
Moves      == {"load_f32x4", "store_f32x4"}
LaneOps    == FloatOps \cup IntOps \cup Extrema \cup Moves \cup {"f32_to_i32"}
Lanes(op)  == IF op \in {"f32x8_add", "f32x8_mul"} THEN 8 ELSE 4

\* An IEEE operation, correctly rounded by every instruction set.
Term(op, x, y) == [kind |-> "term", v |-> <<op, x, y>>]

\* MINPS and MAXPS give the second operand unless the first is less (greater).
X86Lane(op, x, y) ==
  CASE op \in FloatOps \cup AvxOps -> Term(op, x, y)
    [] op \in Moves       -> x
    [] op \in IntOps      -> Number(Wrapped(Exact(op, x, y)))
    [] op = "f32x4_min"   -> IF Less(x, y) THEN x ELSE y
    [] op = "f32x4_max"   -> IF Less(y, x) THEN x ELSE y
    [] op = "f32_to_i32"  -> IF x.kind = "nan" \/ ~InRange(x.v) THEN Number(-IntRange)
                             ELSE Number(x.v)

\* FMIN and FMAX give a NaN if there is one and order the zeros; conversions
\* saturate.
NeonLane(op, x, y) ==
  CASE op \in FloatOps    -> Term(op, x, y)
    [] op \in Moves       -> x
    [] op \in IntOps      -> Number(Wrapped(Exact(op, x, y)))
    [] op = "f32x4_min"   -> IF ~Ordered(x, y) THEN NaNLane
                             ELSE IF Less(x, y) \/ (x = NegZero /\ ~Less(y, x)) THEN x ELSE y
    [] op = "f32x4_max"   -> IF ~Ordered(x, y) THEN NaNLane
                             ELSE IF Less(y, x) \/ (y = NegZero /\ ~Less(x, y)) THEN x ELSE y
    [] op = "f32_to_i32"  -> IF x.kind = "nan" THEN Number(0)
                             ELSE IF InRange(x.v) THEN Number(x.v)
                             ELSE IF x.v < 0 THEN Number(-IntRange) ELSE Number(IntRange - 1)

\* C: a signed overflow and a conversion out of range are undefined.
ScalarLane(op, x, y) ==
  CASE op \in FloatOps \cup AvxOps -> Term(op, x, y)
    [] op \in Moves       -> x
    [] op \in IntOps      -> IF InRange(Exact(op, x, y)) THEN Number(Exact(op, x, y)) ELSE Undefined
    [] op = "f32x4_min"   -> IF Less(x, y) THEN x ELSE y
    [] op = "f32x4_max"   -> IF Less(y, x) THEN x ELSE y
    [] op = "f32_to_i32"  -> IF x.kind = "nan" \/ ~InRange(x.v) THEN Undefined ELSE Number(x.v)

\* Both operands are in registers before the result is stored.
X86(op, mem, a, b, out) ==
  [k \in DOMAIN mem |-> IF k - out \in 0 .. Lanes(op) - 1
                        THEN X86Lane(op, mem[a + k - out], mem[b + k - out]) ELSE mem[k]]

Neon(op, mem, a, b, out) ==
  [k \in DOMAIN mem |-> IF k - out \in 0 .. Lanes(op) - 1
                        THEN NeonLane(op, mem[a + k - out], mem[b + k - out]) ELSE mem[k]]

\* One lane of the loop.
Stored(op, m, a, b, out, k) == [m EXCEPT ![out + k] = ScalarLane(op, m[a + k], m[b + k])]

\* Lane after lane: a later lane reads what an earlier one stored.
Scalar(op, mem, a, b, out) ==
  LET stored[n \in 0 .. Lanes(op)] == IF n = 0 THEN mem ELSE Stored(op, stored[n - 1], a, b, out, n - 1)
  IN stored[Lanes(op)]

\* The inner product: the products in the order they are summed.
Product(mem, a, b, k) == Term("mul", mem[a + k], mem[b + k])
Sum(x, y)             == Term("add", x, y)

\* Faulty variant, in no result: the halves of the vector are added within themselves only.
FaultyNeonDot(mem, a, b) ==
  Sum(Sum(Product(mem, a, b, 0), Product(mem, a, b, 2)),
      Sum(Product(mem, a, b, 1), Product(mem, a, b, 2)))

X86Dot(mem, a, b) ==
  Sum(Sum(Product(mem, a, b, 0), Product(mem, a, b, 1)),
      Sum(Product(mem, a, b, 2), Product(mem, a, b, 3)))
NeonDot(mem, a, b) ==
  Sum(Sum(Product(mem, a, b, 0), Product(mem, a, b, 2)),
      Sum(Product(mem, a, b, 1), Product(mem, a, b, 3)))
ScalarDot(mem, a, b) ==
  Sum(Sum(Sum(Product(mem, a, b, 0), Product(mem, a, b, 1)),
          Product(mem, a, b, 2)), Product(mem, a, b, 3))
=============================================================================
