----------------------------- MODULE AbiShims -----------------------------
(***************************************************************************)
(* The Win64 assembly shims that stand between the compiler's Float128     *)
(* libcalls and the C wrappers: a machine of a few registers and a stack,  *)
(* the shims as its programs, and the wrappers as what the calling         *)
(* convention lets a C function do.  A clang of 21 or more passes a        *)
(* Float128 by address, an older one in a vector register; both expect the *)
(* result in xmm0.                                                         *)
(***************************************************************************)
EXTENDS Integers, SequencesExt

Entry      == 200         \* rsp at the entry of a shim: 8 modulo 16
Operand(x) == IF x = "a" THEN 256 ELSE 272        \* the caller's slots
Garbage    == "garbage"

\* One instruction: to, from and a number, as far as it has them.
Sub(n)         == [op |-> "sub", n |-> n]
Add(n)         == [op |-> "add", n |-> n]
Mov(from, to)  == [op |-> "mov", from |-> from, to |-> to]
Lea(n, to)     == [op |-> "lea", n |-> n, to |-> to]
Save(from, n)  == [op |-> "save", from |-> from, n |-> n]
Load(n, to)    == [op |-> "load", n |-> n, to |-> to]
Sign(from, to) == [op |-> "sign", from |-> from, to |-> to]
Clear(to)      == [op |-> "clear", to |-> to]
Call(wrapper)  == [op |-> "call", wrapper |-> wrapper]

\* The end of every shim of a wrapper that returns a Float128.
Forward(wrapper, frame) == <<Call(wrapper), Load(32, "xmm0"), Add(frame)>>
-----------------------------------------------------------------------------
(* The shims.  Those of one kind differ in their wrapper only. *)

\* Faulty variant, in no result: the first operand is moved before the second.
FaultyPointerArith(kind) ==
  CASE kind = "binary" ->
         <<Sub(72), Mov("rcx", "rdx"), Mov("rdx", "r8"), Lea(32, "rcx")>> \o Forward("binary", 72)
    [] kind = "unary" -> <<Sub(72), Mov("rcx", "rdx"), Lea(32, "rcx")>> \o Forward("unary", 72)

\* __addtf3, __subtf3, __multf3, __divtf3; __negtf2.
PointerArith(kind) ==
  CASE kind = "binary" ->
         <<Sub(72), Mov("rdx", "r8"), Mov("rcx", "rdx"), Lea(32, "rcx")>> \o Forward("binary", 72)
    [] kind = "unary" -> <<Sub(72), Mov("rcx", "rdx"), Lea(32, "rcx")>> \o Forward("unary", 72)

\* __extenddftf2, __extendsftf2; __floatsitf, __floatditf and the unsigned ones;
\* __floattitf; __floatuntitf.
PointerConversions(kind) ==
  CASE kind = "extend" ->
         <<Sub(72), Lea(32, "rcx"), Mov("xmm0", "xmm1")>> \o Forward("extend", 72)
    [] kind = "int" -> <<Sub(72), Mov("rcx", "rdx"), Lea(32, "rcx")>> \o Forward("int", 72)
    [] kind = "wide" ->
         <<Sub(88), Mov("rcx", "rdx"), Lea(32, "rcx"), Sign("rdx", "r8")>> \o Forward("wide", 88)
    [] kind = "unsigned wide" ->
         <<Sub(88), Mov("rcx", "rdx"), Lea(32, "rcx"), Clear("r8")>> \o Forward("wide", 88)

\* Their arguments arrive alike in both conventions.
XmmConversions(kind) == PointerConversions(kind)

XmmArith(kind) ==
  CASE kind = "binary" ->
         <<Sub(72), Save("xmm0", 0), Save("xmm1", 16),
           Lea(32, "rcx"), Lea(0, "rdx"), Lea(16, "r8")>> \o Forward("binary", 72)
    [] kind = "unary" ->
         <<Sub(56), Save("xmm0", 0), Lea(32, "rcx"), Lea(0, "rdx")>> \o Forward("unary", 56)

\* __trunctfdf2, __fixtfdi, ...: the core's result is the shim's.
XmmToScalar == <<Sub(40), Save("xmm0", 0), Lea(0, "rcx"), Call("scalar"), Add(40)>>

\* __eqtf2, __lttf2, ...
XmmCompare ==
  <<Sub(56), Save("xmm0", 0), Save("xmm1", 16), Lea(0, "rcx"), Lea(16, "rdx"),
    Call("compare"), Add(56)>>

Arithmetic  == {"binary", "unary"}
Conversions == {"extend", "int", "wide", "unsigned wide"}

Shims ==
  {[convention |-> "pointer", kind |-> k] : k \in Arithmetic \cup Conversions} \cup
  {[convention |-> "xmm", kind |-> k] : k \in Arithmetic \cup Conversions \cup {"scalar", "compare"}}

ShimCode(shim) ==
  CASE shim.kind \in Arithmetic ->
         IF shim.convention = "pointer" THEN PointerArith(shim.kind) ELSE XmmArith(shim.kind)
    [] shim.kind \in Conversions ->
         IF shim.convention = "pointer" THEN PointerConversions(shim.kind)
         ELSE XmmConversions(shim.kind)
    [] shim.kind = "scalar"  -> XmmToScalar
    [] shim.kind = "compare" -> XmmCompare
-----------------------------------------------------------------------------
(* The machine *)

\* Where the compiler puts the arguments of a libcall.
AtEntry(shim) ==
  LET nothing == [r \in {"rcx", "rdx", "r8", "xmm0", "xmm1", "ret"} |-> Garbage]
      regs    ==
        CASE shim.kind = "extend" -> [nothing EXCEPT !["xmm0"] = "a"]
          [] shim.kind = "int" -> [nothing EXCEPT !["rcx"] = "a"]
          [] shim.kind \in {"wide", "unsigned wide"} -> [nothing EXCEPT !["rcx"] = Operand("a")]
          [] OTHER -> IF shim.convention = "pointer"
                      THEN [nothing EXCEPT !["rcx"] = Operand("a"), !["rdx"] = Operand("b")]
                      ELSE [nothing EXCEPT !["xmm0"] = "a", !["xmm1"] = "b"]
  IN [rsp |-> Entry, regs |-> regs, legal |-> TRUE,
      mem |-> Operand("a") :> "a" @@ Operand("b") :> "b" @@ Entry :> "return address"]

At(mem, address) == IF address \in DOMAIN mem THEN mem[address] ELSE Garbage

\* What a C wrapper of these parameters gives back: Win64 numbers the integer
\* and the vector registers by position.
Returned(wrapper, regs, mem) ==
  CASE wrapper = "binary"  -> <<wrapper, At(mem, regs["rdx"]), At(mem, regs["r8"])>>
    [] wrapper = "unary"   -> <<wrapper, At(mem, regs["rdx"])>>
    [] wrapper = "extend"  -> <<wrapper, regs["xmm1"]>>
    [] wrapper = "int"     -> <<wrapper, regs["rdx"]>>
    [] wrapper = "wide"    -> <<wrapper, At(mem, regs["rdx"]), regs["r8"]>>
    [] wrapper = "scalar"  -> <<wrapper, At(mem, regs["rcx"])>>
    [] wrapper = "compare" -> <<wrapper, At(mem, regs["rcx"]), At(mem, regs["rdx"])>>

\* The called function owns the 32 bytes above its return address, and may use
\* them before it reads its operands; it leaves no volatile register alone.
Called(st, wrapper, spills) ==
  LET mem == IF spills THEN st.rsp :> Garbage @@ (st.rsp + 16) :> Garbage @@ st.mem ELSE st.mem
      val == Returned(wrapper, st.regs, mem)
      out == st.regs["rcx"]
  IN [st EXCEPT !.regs  = [r \in DOMAIN st.regs |-> IF r = "ret" THEN val ELSE Garbage],
                !.mem   = IF wrapper \in {"scalar", "compare"} THEN mem ELSE out :> val @@ mem,
                !.legal = @ /\ st.rsp % 16 = 0]

Step(st, ins, spills) ==
  CASE ins.op = "sub"   -> [st EXCEPT !.rsp = @ - ins.n]
    [] ins.op = "add"   -> [st EXCEPT !.rsp = @ + ins.n]
    [] ins.op = "mov"   -> [st EXCEPT !.regs[ins.to] = st.regs[ins.from]]
    [] ins.op = "lea"   -> [st EXCEPT !.regs[ins.to] = st.rsp + ins.n]
    [] ins.op = "load"  -> [st EXCEPT !.regs[ins.to] = At(st.mem, st.rsp + ins.n)]
    [] ins.op = "save"  -> [st EXCEPT !.mem = (st.rsp + ins.n) :> st.regs[ins.from] @@ @,
                                      !.legal = @ /\ (st.rsp + ins.n) % 16 = 0]
    [] ins.op = "sign"  -> [st EXCEPT !.regs[ins.to] = <<"sign", At(st.mem, st.regs[ins.from])>>]
    [] ins.op = "clear" -> [st EXCEPT !.regs[ins.to] = 0]
    [] ins.op = "call"  -> Called(st, ins.wrapper, spills)

RunShim(shim, spills) ==
  FoldLeft(LAMBDA st, ins : Step(st, ins, spills), AtEntry(shim), ShimCode(shim))
=============================================================================
