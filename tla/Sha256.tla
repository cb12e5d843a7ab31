------------------------------- MODULE Sha256 -------------------------------
(***************************************************************************)
(* How src/common/sha256.c cuts a message into the blocks it compresses:   *)
(* sha256_update fills a buffer of one block from any sequence of calls,   *)
(* sha256_final pads the last one or two blocks.  The compression itself   *)
(* is left out: a digest is the sequence of blocks that went through       *)
(* sha256_transform, so that two digests are equal when those are.         *)
(***************************************************************************)
EXTENDS Integers, Sequences

CONSTANT DataLen     \* 56: what a block holds beside the length field

ASSUME Sha256Assumption == DataLen \in Nat \ {0}

BlockLen == DataLen + 8
Mark == 128
Zeros(n) == [i \in 1..n |-> 0]

(* The eight bytes that close the last block.  The number of bits stands   *)
(* in one of them, as it is.                                               *)
LengthField(len) == Zeros(7) \o <<8 * len>>

(* sha256_ctx_t: the blocks compressed so far, the buffer, and bit_len     *)
(* counted in bytes.                                                       *)
sha256_init == [blocks |-> <<>>, data |-> <<>>, len |-> 0]

PutByte(ctx, byte) ==
  LET data == Append(ctx.data, byte) IN
  IF Len(data) < BlockLen THEN [ctx EXCEPT !.data = data]
  ELSE [blocks |-> Append(ctx.blocks, data), data |-> <<>>, len |-> ctx.len + BlockLen]

sha256_update(ctx, bytes) ==
  LET after[n \in 0..Len(bytes)] == IF n = 0 THEN ctx ELSE PutByte(after[n - 1], bytes[n])
  IN  after[Len(bytes)]

(* The mark and zeros; a block of zeros more when the length does not fit  *)
(* behind the mark.                                                        *)
sha256_final(ctx) ==
  LET marked == Append(ctx.data, Mark)
      length == LengthField(ctx.len + Len(ctx.data))
  IN IF Len(marked) > DataLen
     THEN ctx.blocks \o << marked \o Zeros(BlockLen - Len(marked)), Zeros(DataLen) \o length >>
     ELSE Append(ctx.blocks, marked \o Zeros(DataLen - Len(marked)) \o length)

(* FIPS 180-4, 5.1.1 and 5.2.1: the message, the mark, the least number of *)
(* zeros that leaves room for the length, the length, cut into blocks.     *)
PaddedLen(n) == CHOOSE m \in (n + 9)..(n + 8 + BlockLen) : m % BlockLen = 0
Padded(msg)  == msg \o <<Mark>> \o Zeros(PaddedLen(Len(msg)) - Len(msg) - 9) \o LengthField(Len(msg))
Digest(msg)  ==
  [b \in 1..(PaddedLen(Len(msg)) \div BlockLen) |->
     SubSeq(Padded(msg), (b - 1) * BlockLen + 1, b * BlockLen)]
=============================================================================
