------------------------------- MODULE Sha2 -------------------------------
(***************************************************************************)
(* The SHA-2 drivers: how a message is cut into blocks, padded and followed*)
(* by its length.  The compression function is uninterpreted: a digest is  *)
(* the initial value with the chain of blocks it went through, and the     *)
(* number of words that are given out.                                     *)
(*                                                                         *)
(* sha256_sw.c streams through a context whose buffer is never cleared;    *)
(* the SHA-512 driver of xiom_runtime.c works on the whole message.        *)
(***************************************************************************)
EXTENDS Integers, Sequences

CONSTANTS Block,      \* bytes of a SHA-256 block (64); SHA-512 has twice as many
          LengthField \* bytes of its length (8), likewise

ASSUME BlockAssumption == {Block, LengthField} \subseteq Nat \ {0} /\ LengthField < Block

Radix == 16      \* a byte of the length field, 256 in the code
Stop  == "0x80"
Junk  == "junk"  \* what the stack or an earlier message left in the buffer

\* What a byte of the length counts, the last one first.
Place[k \in Nat] == IF k = 0 THEN 1 ELSE Radix * Place[k - 1]

\* sha256_transform: the block is compressed into the chaining value.
Transform(ctx) == [ctx EXCEPT !.chain = Append(@, ctx.data)]

Init256(iv) == [iv |-> iv, chain |-> <<>>, data |-> [k \in 1 .. Block |-> Junk],
                datalen |-> 0, bitlen |-> 0]

\* One byte of sha256_update.
Absorb(ctx, byte) ==
  LET filled == [ctx EXCEPT !.data[ctx.datalen + 1] = byte, !.datalen = @ + 1]
  IN IF filled.datalen = Block
     THEN [Transform(filled) EXCEPT !.bitlen = @ + 8 * Block, !.datalen = 0] ELSE filled

Update(ctx, bytes) ==
  LET after[k \in 0 .. Len(bytes)] == IF k = 0 THEN ctx ELSE Absorb(after[k - 1], bytes[k])
  IN after[Len(bytes)]

\* Stop byte and zeros up to `upto`.
Padded(ctx, upto) ==
  [ctx EXCEPT !.data = [k \in 1 .. Block |-> IF k <= ctx.datalen \/ k > upto THEN @[k]
                                             ELSE IF k = ctx.datalen + 1 THEN Stop ELSE 0]]

\* Faulty variant, in no result: a block that is full up to the length takes the stop byte.
FaultyFinal(ctx) ==
  LET room == Block - LengthField
      bits == ctx.bitlen + 8 * ctx.datalen
      pad  == IF ctx.datalen <= room THEN Padded(ctx, room)
              ELSE [Transform(Padded(ctx, Block)) EXCEPT
                     !.data = [k \in 1 .. Block |-> IF k <= room THEN 0 ELSE @[k]]]
  IN Transform([pad EXCEPT !.data = [k \in 1 .. Block |->
                  IF k <= room THEN @[k] ELSE (bits \div Place[Block - k]) % Radix]])

Final(ctx) ==
  LET room == Block - LengthField
      pad  == IF ctx.datalen < room THEN Padded(ctx, room)
              ELSE [Transform(Padded(ctx, Block)) EXCEPT
                     !.data = [k \in 1 .. Block |-> IF k <= room THEN 0 ELSE @[k]]]
      bits == ctx.bitlen + 8 * ctx.datalen
  IN Transform([pad EXCEPT !.data = [k \in 1 .. Block |->
                  IF k <= room THEN @[k] ELSE (bits \div Place[Block - k]) % Radix]])

Digest(iv, chain, words) == [iv |-> iv, chain |-> chain, words |-> words]

Sha256Hash(msg) == Digest("sha256", Final(Update(Init256("sha256"), msg)).chain, 8)
Sha224Hash(msg) == Digest("sha224", Final(Update(Init256("sha224"), msg)).chain, 7)
-----------------------------------------------------------------------------
Block512  == 2 * Block
Length512 == 2 * LengthField

\* sha512_core: full blocks straight from the message, the rest from a cleared
\* buffer.  Only the low half of the length field is written.
Sha512Core(iv, msg, words) ==
  LET full  == Len(msg) \div Block512
      rem   == Len(msg) % Block512
      tail  == [k \in 1 .. Block512 |-> IF k <= rem THEN msg[full * Block512 + k]
                                        ELSE IF k = rem + 1 THEN Stop ELSE 0]
      split == rem >= Block512 - Length512
      last  == IF split THEN [k \in 1 .. Block512 |-> 0] ELSE tail
      bits  == 8 * Len(msg)
      ended == [k \in 1 .. Block512 |->
                 IF k > Block512 - LengthField THEN (bits \div Place[Block512 - k]) % Radix
                 ELSE last[k]]
      whole == [n \in 1 .. full |-> SubSeq(msg, (n - 1) * Block512 + 1, n * Block512)]
  IN Digest(iv, whole \o (IF split THEN <<tail, ended>> ELSE <<ended>>), words)

Sha512Hash(msg) == Sha512Core("sha512", msg, 8)
Sha384Hash(msg) == Sha512Core("sha384", msg, 6)
=============================================================================
