--------------------------- MODULE LibraryCalls ---------------------------
(***************************************************************************)
(* The runtime's pure kernels, called by a program: Float128 arithmetic,   *)
(* comparisons and conversions, the Win64 shims in front of them, 128-bit  *)
(* integers and bit scans, vector kernels, digests and Windows command     *)
(* lines.  A state is a call that has returned, with its operands and its  *)
(* result; the properties compare the result with a definition that does   *)
(* not share its algorithm.                                                *)
(***************************************************************************)
EXTENDS Float128, AbiShims, VectorUnit, WideInt, Sha2, ProcArgs, FiniteSets

CONSTANTS
  OperandExps,   \* the exponents of the floating-point operands
  IntBits,       \* bits of the narrow integers converted to and from floats (64)
  Specials,      \* the numbers a vector lane may hold beside ordinary ones
  MaxMessage,    \* bytes of the longest message
  MaxArg         \* characters of the longest argument

ASSUME CallsAssumption ==
  /\ OperandExps \subseteq 0 .. ExpMask /\ Specials \subseteq Int
  /\ {MaxMessage, MaxArg} \subseteq Nat /\ IntBits \in Nat \ {0}
  /\ 8 * MaxMessage < Place[LengthField]   \* the bits of a message are counted in 64 bits

VARIABLE call

NoCall   == [kind |-> "none"]
Operands == {f \in Floats : f.e \in OperandExps}
-----------------------------------------------------------------------------
(* Float128: the libcalls the compiler emits. *)

Arith(op, a, b) ==
  CASE op = "__addtf3" -> AddSub(a, b, 0)
    [] op = "__subtf3" -> AddSub(a, b, 1)
    [] op = "__multf3" -> {Mul(a, b)}
    [] op = "__divtf3" -> {Div(a, b)}
    [] op = "__negtf2" -> {Neg(a)}

CallArith ==
  \E op \in {"__addtf3", "__subtf3", "__multf3", "__divtf3", "__negtf2"}, a, b \in Operands :
    \E r \in Arith(op, a, b) :
      call' = [kind |-> "arith", op |-> op, a |-> a, b |-> b, result |-> r]

CallCompare ==
  \E a, b \in Operands :
    call' = [kind |-> "compare", a |-> a, b |-> b, eq |-> CmpEq(a, b), ge |-> CmpGe(a, b),
             gt |-> CmpGt(a, b), le |-> CmpLe(a, b), lt |-> CmpLt(a, b)]

\* __floatditf, __floattitf and their inverses.
CallFloatInt ==
  \E bits \in {IntBits, WordBits} : \E i \in -Power[bits - 1] .. Power[bits] - 1 :
    LET f == IF bits = WordBits THEN FromWide(i % Power[WordBits], IF i < 0 THEN 1 ELSE 0)
             ELSE FromInt(i)
    IN call' = [kind |-> "int", bits |-> bits, i |-> i,
                back |-> IF i < Power[bits - 1] THEN ToSigned(f, bits) ELSE ToUnsigned(f, bits)]

\* __extenddftf2, and back.
CallExtend ==
  \E d \in Doubles : call' = [kind |-> "extend", d |-> d, back |-> ToDouble(FromDouble(d))]

\* __trunctfdf2
CallTruncate == \E f \in Floats : call' = [kind |-> "truncate", f |-> f, result |-> ToDouble(f)]

\* A libcall through its shim; the wrapper may use its shadow space or not.
CallShim ==
  \E shim \in Shims, spills \in BOOLEAN :
    call' = [kind |-> "shim", shim |-> shim, spills |-> spills, end |-> RunShim(shim, spills)]
-----------------------------------------------------------------------------
(* Integers *)

CallDivide ==
  \E a \in Words, b \in Words \ {0} :
    call' = [kind |-> "divide", a |-> a, b |-> b, uquot |-> Udivti3(a, b),
             urem |-> Umodti3(a, b), quot |-> Divti3(a, b), rem |-> Modti3(a, b),
             prod |-> Multi3(a, b)]

CallScan ==
  \E x \in 0 .. Power[ScanWidth] - 1 :
    call' = [kind |-> "scan", x |-> x, leading |-> Clz64(x), trailing |-> Ctz64(x)]
-----------------------------------------------------------------------------
(* Vectors.  Ordinary lanes differ from each other, one place holds a       *)
(* special value, and the result may overlap the operands.                  *)

MemSize == 20

Memory(place, lane) == [k \in 0 .. MemSize - 1 |-> IF k = place THEN lane ELSE Number(k % 3)]

CallVector ==
  \E op \in LaneOps, place \in {1, 6}, b \in {0, 5}, out \in {0, 1, 4, 5, 10},
     lane \in {Number(v) : v \in Specials} \cup {NaNLane, NegZero} :
    LET mem == Memory(place, lane)
    IN /\ op \in IntOps => lane.kind = "number"
       /\ call' = [kind |-> "vector", op |-> op, mem |-> mem, b |-> b, out |-> out,
                   x86 |-> X86(op, mem, 0, b, out), neon |-> Neon(op, mem, 0, b, out),
                   scalar |-> Scalar(op, mem, 0, b, out)]

\* The 256-bit kernels, which the NEON build does not have.
CallWide ==
  \E op \in AvxOps, out \in {0, 1, 10} :
    LET mem == Memory(0, NaNLane)
    IN call' = [kind |-> "wide", op |-> op, mem |-> mem, b |-> 2, out |-> out,
                x86 |-> X86(op, mem, 0, 2, out), scalar |-> Scalar(op, mem, 0, 2, out)]

CallDot ==
  \E b \in {0, 5} :
    LET mem == [k \in 0 .. MemSize - 1 |-> Number(k)]
    IN call' = [kind |-> "dot", mem |-> mem, b |-> b,
                sums |-> {X86Dot(mem, 0, b), NeonDot(mem, 0, b), ScalarDot(mem, 0, b)}]
-----------------------------------------------------------------------------
(* Digests and command lines *)

\* A message whose bytes all differ: only its length matters.
Message(len) == [k \in 1 .. len |-> "m" \o ToString(k)]

CallDigest ==
  \E len \in 0 .. MaxMessage :
    call' = [kind |-> "digest", msg |-> Message(len),
             small |-> {Sha256Hash(Message(len)), Sha224Hash(Message(len))},
             large |-> {Sha512Hash(Message(len)), Sha384Hash(Message(len))}]

\* The streaming interface: the message in three pieces.
CallStream ==
  \E len \in 0 .. MaxMessage, i, j \in 0 .. MaxMessage :
    /\ i <= j /\ j <= len
    /\ LET piece(a, b) == SubSeq(Message(len), a + 1, b)
           ctx == Update(Update(Update(Init256("sha256"), piece(0, i)), piece(i, j)),
                         piece(j, len))
       IN call' = [kind |-> "digest", msg |-> Message(len),
                   small |-> {Digest("sha256", Final(ctx).chain, 8)}, large |-> {}]

File == <<"letter", "letter">>
Args == UNION {[1 .. n -> Chars] : n \in 0 .. MaxArg}

CallSpawnArgs ==
  \E args \in {<<x>> : x \in Args} \cup (Args \X Args) :
    call' = [kind |-> "spawn", args |-> args, line |-> CommandLine(File, args)]
-----------------------------------------------------------------------------
CallsInit == call = NoCall

CallsNext == call = NoCall /\
  \/ CallArith \/ CallCompare \/ CallFloatInt \/ CallExtend \/ CallTruncate
  \/ CallShim
  \/ CallDivide \/ CallScan
  \/ CallVector \/ CallWide \/ CallDot
  \/ CallDigest \/ CallStream \/ CallSpawnArgs

CallsSpec == CallsInit /\ [][CallsNext]_call
-----------------------------------------------------------------------------
(* Properties *)

Abs(n)     == IF n < 0 THEN -n ELSE n
Normal(f)  == f.e \in 1 .. ExpMask - 1
Ulp(f)     == Power[f.e]
Value(f)   == IF IsZero(f) THEN 0 ELSE (1 - 2 * f.s) * Significand(f) * Ulp(f)
Positive(f) == [f EXCEPT !.s = 0]

\* The numbers between the least and the greatest normal float.
Representable(v) ==
  Abs(v) >= Power[MantBits + 1] /\ Abs(v) < Power[MantBits + 1] * Power[ExpMask - 1]

\* A sum is off by less than a unit of the result or of the larger operand: what
\* is shifted out of the smaller one is lost before the subtraction, and there
\* are no guard digits.
SumIsClose(a, b, exact, r) ==
  Representable(exact) /\ Abs(a.e - b.e) < WordBits =>
    \E x \in {a, b, r} : Abs(Value(r) - exact) < Ulp(x)

\* A product is the exact one without the bits that do not fit.
ProductIsTruncated(a, b, r) ==
  LET e     == a.e + b.e - Bias
      exact == Significand(a) * Significand(b)
  IN e \in 1 .. ExpMask - 2 =>
       /\ r.s = (a.s + b.s) % 2 /\ r.e \in {e, e + 1}
       /\ exact - Significand(r) * Power[MantBits + r.e - e] \in 0 .. Power[MantBits + r.e - e] - 1

\* A quotient is off by at most two units, but that of equal odd significands,
\* whose leading bit is lost with the dividend's last.
QuotientIsClose(a, b, r) ==
  LET e     == a.e - b.e + Bias
      exact == Significand(a) * Power[MantBits + 1]
  IN e \in 2 .. ExpMask - 2 /\ ~(a.m = b.m /\ a.m % 2 = 1) =>
       /\ r.s = (a.s + b.s) % 2 /\ r.e \in {e - 1, e}
       /\ Abs(exact - Significand(b) * Significand(r) * Power[r.e - e + 1])
            <= 2 * Significand(b) * Power[r.e - e + 1]

\* "Exact IEEE rounding" is not what the helpers give, but for normal operands a
\* result is within a unit or two of the real one, whatever the order of the
\* operands, their exponents and signs.
ArithmeticIsClose ==
  call.kind = "arith" /\ Normal(call.a) /\ Normal(call.b) =>
    CASE call.op = "__addtf3" -> SumIsClose(call.a, call.b, Value(call.a) + Value(call.b), call.result)
      [] call.op = "__subtf3" -> SumIsClose(call.a, call.b, Value(call.a) - Value(call.b), call.result)
      [] call.op = "__multf3" -> ProductIsTruncated(call.a, call.b, call.result)
      [] call.op = "__divtf3" -> QuotientIsClose(call.a, call.b, call.result)
      [] call.op = "__negtf2" -> Value(call.result) = -Value(call.a)

\* Each comparison libcall answers for the real order, the zeros and NaNs aside:
\* zeros of different signs compare unequal, and __gttf2 says that a NaN is
\* greater.
NumberOrder(f) == (1 - 2 * f.s) * Magnitude(f)

ComparisonsFollowTheOrder ==
  call.kind = "compare" /\ ~Unordered(call.a, call.b) /\ ~(IsZero(call.a) /\ IsZero(call.b)) =>
    LET a == NumberOrder(call.a)
        b == NumberOrder(call.b)
    IN /\ (call.eq = 0) <=> a = b
       /\ (call.lt < 0) <=> a < b
       /\ (call.le <= 0) <=> a <= b
       /\ (call.gt > 0) <=> a > b
       /\ (call.ge >= 0) <=> a >= b

\* Integers and doubles come back from a Float128 unchanged: every 64-bit
\* integer, every 128-bit one of no more significant bits than the format has
\* and below 2^113, every double that is not subnormal.  A Float128 in the range
\* of the doubles becomes the nearest one, the even one of two.
NearestDouble(f, d) ==
  LET unit == Power[Dropped]
      back == FromDouble(d)
      off  == Value(Positive(back)) - Value(Positive(f))
  IN f.s = d.s /\ (IsInf(back) \/
       (/\ 2 * Abs(off) <= unit * Ulp(f)
        /\ 2 * Abs(off) = unit * Ulp(f) => d.m % 2 = 0))

ConversionsComeBack ==
  /\ call.kind = "int" /\ Abs(call.i) < Power[MantBits + 1] => call.back = call.i
  /\ call.kind = "extend" /\ ~(call.d.e = 0 /\ call.d.m # 0) =>
       IF call.d.e = DExpMask /\ call.d.m # 0
       THEN call.back.e = DExpMask /\ call.back.m # 0 ELSE call.back = call.d
  /\ call.kind = "truncate" /\ call.f.e - Bias + DBias \in 1 .. DExpMask - 1 =>
       NearestDouble(call.f, call.result)

\* A program may compute with Float128 as with numbers, within these errors.
FloatsAreSound == ArithmeticIsClose /\ ComparisonsFollowTheOrder /\ ConversionsComeBack
-----------------------------------------------------------------------------
\* What the wrapper computes from the operands of a libcall.
Delivered(kind) ==
  CASE kind \in {"binary", "compare"} -> <<kind, "a", "b">>
    [] kind = "wide"          -> <<kind, "a", <<"sign", "a">>>>
    [] kind = "unsigned wide" -> <<"wide", "a", 0>>
    [] OTHER                  -> <<kind, "a">>

\* A shim hands the wrapper both operands, in their order, and its result to the
\* caller, on an aligned stack which it leaves as it was.  The shims for older
\* compilers save operands at rsp and rsp + 16, in the very shadow space that
\* belongs to the wrapper: they deliver only to a wrapper that does not use it.
ShimsDeliver ==
  call.kind = "shim" =>
    /\ call.end.legal /\ call.end.rsp = Entry /\ call.end.mem[Entry] = "return address"
    /\ (call.spills /\ call.shim.convention = "xmm" /\ call.shim.kind \notin Conversions)
         \/ call.end.regs[IF call.shim.kind \in {"scalar", "compare"} THEN "ret" ELSE "xmm0"]
              = Delivered(call.shim.kind)
-----------------------------------------------------------------------------
\* Quotient and remainder of 128-bit integers are those of the definition, for
\* every dividend and divisor: truncated towards zero, and -2^127 / -1 wraps.
TruncatedQuotient(a, b) ==
  LET q == Abs(a) \div Abs(b) IN IF (a < 0) # (b < 0) THEN -q ELSE q

WideIntegersAreExact ==
  /\ call.kind = "divide" =>
       LET q == TruncatedQuotient(Signed(call.a), Signed(call.b))
       IN /\ call.uquot = call.a \div call.b /\ call.urem = call.a % call.b
          /\ call.quot = Word(q)
          /\ call.rem = Word(Signed(call.a) - q * Signed(call.b))
          /\ call.prod = Word(Signed(call.a) * Signed(call.b))
  /\ call.kind = "scan" /\ call.x # 0 =>
       /\ Power[ScanWidth - 1 - call.leading] <= call.x /\ call.x < Power[ScanWidth - call.leading]
       /\ call.x % Power[call.trailing] = 0 /\ (call.x \div Power[call.trailing]) % 2 = 1
-----------------------------------------------------------------------------
\* A program gets the same from all three builds of a vector kernel, lane for
\* lane, when the result is stored over an operand or apart from both, but for:
\* the extrema of a NaN or of two zeros, and numbers that a 32-bit lane cannot
\* hold.
InPlaceOrApart(op, out, b) == \A x \in {0, b} : out = x \/ Abs(out - x) >= Lanes(op)

Unusual(op, x, y) ==
  \/ op \in Extrema /\ (~Ordered(x, y) \/ (x.v = 0 /\ y.v = 0))
  \/ op = "f32_to_i32" /\ (x.kind = "nan" \/ ~InRange(x.v))
  \/ op \in IntOps /\ ~InRange(Exact(op, x, y))

\* The products an inner product adds up, whatever the order.
Opened(T) == UNION {IF t.v[1] = "add" THEN {t.v[2], t.v[3]} ELSE {t} : t \in T}
Summands(t) == Opened(Opened(Opened({t})))

VectorBuildsAgree ==
  /\ call.kind = "vector" /\ InPlaceOrApart(call.op, call.out, call.b) =>
       \A k \in DOMAIN call.mem :
         LET i == k - call.out
         IN \/ i \in 0 .. Lanes(call.op) - 1 /\ Unusual(call.op, call.mem[i], call.mem[call.b + i])
            \/ (call.x86[k] = call.neon[k] /\ call.x86[k] = call.scalar[k])
  /\ call.kind = "wide" /\ InPlaceOrApart(call.op, call.out, call.b) => call.x86 = call.scalar
  /\ call.kind = "dot" =>
       \A t \in call.sums : Summands(t) = {Product(call.mem, 0, call.b, k) : k \in 0 .. 3}
-----------------------------------------------------------------------------
\* The padding of the standard: a stop byte, as few zeros as fill a block, and
\* the length in bits.
StandardChain(msg, block, field) ==
  LET zeros == CHOOSE z \in 0 .. block - 1 : (Len(msg) + 1 + z + field) % block = 0
      text  == msg \o <<Stop>> \o [k \in 1 .. zeros |-> 0]
                   \o [k \in 1 .. field |-> ((8 * Len(msg)) \div Place[field - k]) % Radix]
  IN [n \in 1 .. Len(text) \div block |-> SubSeq(text, (n - 1) * block + 1, n * block)]

\* A digest is that of the standard for a message of every length, however a
\* caller cuts it into pieces, and nothing that was in the buffer shows in it.
DigestsAreStandard ==
  call.kind = "digest" =>
    /\ \A d \in call.small : d.chain = StandardChain(call.msg, Block, LengthField)
    /\ \A d \in call.large : d.chain = StandardChain(call.msg, Block512, Length512)

\* "Quoting so that the child's CommandLineToArgvW gives back each argument": a
\* command line that fits the buffer parses into the arguments it was built
\* from, up to the first empty one, which the caller's blob cannot carry.
ArgumentsSurvive ==
  call.kind = "spawn" /\ call.line # NoRoom =>
    /\ Len(call.line) < LineCap
    /\ Parse(call.line) = IF Blob(call.args) = <<>> THEN <<File>> ELSE Blob(call.args)

\* xiom_f128_div: "114 bits: 113 + guard", the quotient of two significands
\* always has its leading bit.
QuotientHasItsLeadingBit ==
  call.kind = "arith" /\ call.op = "__divtf3" /\ Normal(call.a) /\ Normal(call.b) =>
    BitLength(Quotient(call.a, call.b)) = MantBits + 2
=============================================================================
