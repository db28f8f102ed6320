------------------------------- MODULE Encoding -------------------------------
(***************************************************************************)
(* The bit stream of an update: Hugin's encoder (Scheduler/Encoding/       *)
(* encoder.cpp), and the decoder both sides share (common/decoding/        *)
(* decoder.c).                                                             *)
(*                                                                         *)
(* A stream is a sequence of bits, the strong one of a byte first.  Both    *)
(* sides keep a context: the block in use, the base of the last REBASE, and  *)
(* the width of a block number since then.                                 *)
(***************************************************************************)
EXTENDS Instructions
LOCAL INSTANCE Bitwise

CONSTANTS BlockSizeBit,      \* BLOCK_SIZE_BIT
          BlockIDSpace,      \* BLOCK_ID_SPACE, bits of a block number
          RebaseLengthBits,  \* REBASE_LENGTH_BITS
          MaxSkipLengthBits, \* MAX_SKIP_LENGTH_BITS
          QwordBits          \* bits of a qword

InstructionWidth == 4
ByteBits == 8

\* No field but the last may end where a qword does: writeBits would shift into the
\* full qword.  With 64 bits only COPY_NN can get there, when FLASH_SIZE_BIT is 30.
ASSUME EncodingAssumption ==
    /\ BlockSizeBit \in Nat /\ BlockSize = 2 ^ BlockSizeBit
    /\ MaxSkipLengthBits \in Nat /\ MaxSkipLength = 2 ^ MaxSkipLengthBits - 1
    /\ BlockIDSpace \in Nat \ {0} /\ RebaseLengthBits \in Nat
    /\ QwordBits > InstructionWidth + BlockIDSpace + 2 * BlockSizeBit
    /\ \A b \in 1 .. BlockIDSpace : QwordBits # InstructionWidth + 2 * (b + BlockSizeBit)

Opcodes == << "ERASE", "LOAD_FLUSH", "COMMIT", "FLUSH_COMMIT", "USE_BLOCK", "RELEASE",
              "REBASE", "ILLEGAL", "COPY_NN", "COPY_NC", "COPY_CN", "COPY_CC",
              "CHAINED_COPY_N", "CHAINED_COPY_C", "CHAINED_SKIP", "END_OF_STREAM" >>

BitsOf(x, n) == [i \in 1 .. n |-> (x \div 2 ^ (n - i)) % 2]
Number(bits) == FoldLeft(LAMBDA x, b : 2 * x + b, 0, bits)
LastBits(bits, n) == SubSeq(bits, Len(bits) - n + 1, Len(bits))

-----------------------------------------------------------------------------
(* Encoder *)

\* A field is a value, the bits it is written with and, when an assertion bounds
\* it, the bits it must fit in.  Without, strong bits are masked off.
Field(x, n)           == [value |-> x, width |-> n, ok |-> TRUE]
Asserted(x, n, limit) == [value |-> x, width |-> n, ok |-> x >= 0 /\ NumberOfBits(x) =< limit]
OpcodeField(name) ==
    Field(CHOOSE k \in 0 .. 15 : Opcodes[k + 1] = name, InstructionWidth)

\* Encoder::reset
EncoderReset == [usingBlock |-> FALSE, blockIDBits |-> BlockIDSpace, blockBase |-> 0]

\* extractBlockID
BlockIDField(ctx, a) ==
    Asserted(BlockOf(a) - BlockOf(ctx.blockBase), ctx.blockIDBits, ctx.blockIDBits)
OffsetField(a)  == Field(Offset(a), BlockSizeBit)
LengthField(c)  == Field(c.length - 1, BlockSizeBit)

CopyOpcode(c) ==
    CASE IsCache(c.main) /\ IsCache(c.sec)   -> "COPY_CC"
      [] IsCache(c.main) /\ ~IsCache(c.sec)  -> "COPY_CN"
      [] ~IsCache(c.main) /\ IsCache(c.sec)  -> "COPY_NC"
      [] ~IsCache(c.main) /\ ~IsCache(c.sec) -> "COPY_NN"

\* The block of the main operand, unless USE_BLOCK said it, or it is the cache.
MainFields(ctx, c) ==
    IF ctx.usingBlock \/ IsCache(c.main) THEN <<>> ELSE << BlockIDField(ctx, c.main) >>

\* Mutant: USE_BLOCK stands for the second operand whatever the first one is.
MutantSecondaryFields(ctx, c) ==
    IF IsCache(c.sec) \/ ctx.usingBlock THEN <<>> ELSE << BlockIDField(ctx, c.sec) >>

\* The block of the second operand, unless USE_BLOCK stands for it.
SecondaryFields(ctx, c) ==
    IF IsCache(c.sec) \/ (ctx.usingBlock /\ IsCache(c.main)) THEN <<>>
    ELSE << BlockIDField(ctx, c.sec) >>

\* REBASE writes its block with all the bits, but asserts that it fits in the bits
\* of the range that begins.
RebaseFields(c) ==
    LET bits == NumberOfBits(c.length)
    IN  << OpcodeField("REBASE"), Asserted(BlockOf(c.main), BlockIDSpace, bits),
           Asserted(bits - 1, RebaseLengthBits, RebaseLengthBits) >>

\* encodeInstruction: the fields of an instruction, and the context after it.
EncodeInstruction(ctx, c) ==
    CASE c.command = "ERASE"          -> << OpcodeField("ERASE") >> \o MainFields(ctx, c)
      [] c.command = "LOAD_AND_FLUSH" -> << OpcodeField("LOAD_FLUSH") >> \o MainFields(ctx, c)
      [] c.command = "COMMIT"         -> << OpcodeField("COMMIT") >> \o MainFields(ctx, c)
      [] c.command = "FLUSH_AND_PARTIAL_COMMIT" ->
            << OpcodeField("FLUSH_COMMIT") >> \o MainFields(ctx, c) \o << LengthField(c) >>
      [] c.command = "COPY" ->
            << OpcodeField(CopyOpcode(c)) >> \o MainFields(ctx, c)
               \o << OffsetField(c.main), LengthField(c) >>
               \o SecondaryFields(ctx, c) \o << OffsetField(c.sec) >>
      [] c.command = "CHAINED_COPY" ->
            << OpcodeField(IF IsCache(c.main) THEN "CHAINED_COPY_C" ELSE "CHAINED_COPY_N") >>
               \o MainFields(ctx, c) \o << OffsetField(c.main), LengthField(c) >>
      [] c.command = "CHAINED_COPY_SKIP" ->
            << OpcodeField("CHAINED_SKIP"), Field(c.length - 1, MaxSkipLengthBits) >>
      [] c.command = "USE_BLOCK"      -> << OpcodeField("USE_BLOCK"), BlockIDField(ctx, c.main) >>
      [] c.command = "RELEASE_BLOCK"  -> << OpcodeField("RELEASE") >>
      [] c.command = "REBASE"         -> RebaseFields(c)
ContextAfter(ctx, c) ==
    CASE c.command = "USE_BLOCK"     -> [ctx EXCEPT !.usingBlock = TRUE]
      [] c.command = "RELEASE_BLOCK" -> [ctx EXCEPT !.usingBlock = FALSE]
      [] c.command = "REBASE"        -> [ctx EXCEPT !.blockIDBits = NumberOfBits(c.length),
                                                    !.blockBase = c.main]
      [] OTHER -> ctx

\* writeBits: a field that does not fit in the qword goes on in a new one.
WriteBits(qwords, field) ==
    LET bits == BitsOf(field.value, field.width)
        left == QwordBits - Len(Last(qwords))
    IN  IF field.width =< left
        THEN Front(qwords) \o << Last(qwords) \o bits >>
        ELSE Front(qwords) \o << Last(qwords) \o SubSeq(bits, 1, left),
                                 LastBits(bits, field.width - left) >>

\* appendInstruction
AppendInstruction(stream, fields) == stream \o FlattenSeq(FoldLeft(WriteBits, << <<>> >>, fields))

UsedInByte(stream) == Len(stream) % ByteBits
PadByte(stream)    == stream \o [i \in 1 .. (-Len(stream)) % ByteBits |-> 1]

\* Mutant: what is left of the last byte is always enough for the end of the stream.
MutantEndStream(stream) == PadByte(stream)

\* The end of encode: four ones at least, and ones up to the end of the byte.
EndStream(stream) ==
    LET needsMark == UsedInByte(stream) = 0 \/ ByteBits - UsedInByte(stream) < InstructionWidth
    IN  PadByte(IF needsMark THEN AppendInstruction(stream, << OpcodeField("END_OF_STREAM") >>)
                ELSE stream)

\* encode; ok says that no assertion failed.
Encode(cmds) ==
    LET step(st, c) ==
          LET fields == EncodeInstruction(st.ctx, c)
          IN  [ctx    |-> ContextAfter(st.ctx, c),
               stream |-> AppendInstruction(st.stream, fields),
               ok     |-> st.ok /\ \A i \in DOMAIN fields : fields[i].ok]
        end == FoldLeft(step, [ctx |-> EncoderReset, stream |-> <<>>, ok |-> TRUE], cmds)
    IN  [stream |-> EndStream(end.stream), ok |-> end.ok]

-----------------------------------------------------------------------------
(* Decoder.  d is the DecoderContext, with the offset in the stream.  past   *)
(* says that readBits went past the end: its assertion, offset >> 8 where     *)
(* bytes are offset >> 3, does not stop it.                                *)

\* The contexts of Encoder::decode and of runCommands on the device.
DecoderContext(base) ==
    [usingBlock |-> FALSE, blockInUse |-> 0, blockIDBits |-> BlockIDSpace, blockBase |-> base,
     offset |-> 0, past |-> FALSE]
HuginContext  == DecoderContext(0)
DeviceContext == DecoderContext(BlockIDSpace)

\* readBits
ReadBits(stream, from, n) ==
    Number([i \in 1 .. n |-> IF from + i =< Len(stream) THEN stream[from + i] ELSE 0])

\* The operands of an opcode are, in this order, a block, an offset, a length, a
\* second block and a second offset; an operand it does not have is 0 bits wide.
MainIsCache(op)      == op \in {"COPY_CN", "COPY_CC", "CHAINED_COPY_C"}
SecondaryIsCache(op) == op \in {"COPY_NC", "COPY_CC"}
OperandWidths(d, op) ==
    LET main == IF d.usingBlock \/ MainIsCache(op) THEN 0 ELSE d.blockIDBits
        sec  == IF SecondaryIsCache(op) \/ (d.usingBlock /\ MainIsCache(op)) THEN 0
                ELSE d.blockIDBits
    IN  CASE op \in {"ERASE", "LOAD_FLUSH", "COMMIT"} -> <<main, 0, 0, 0, 0>>
          [] op = "FLUSH_COMMIT" -> <<main, 0, BlockSizeBit, 0, 0>>
          [] op = "USE_BLOCK"    -> <<d.blockIDBits, 0, 0, 0, 0>>
          [] op \in {"COPY_NN", "COPY_NC", "COPY_CN", "COPY_CC"} ->
                <<main, BlockSizeBit, BlockSizeBit, sec, BlockSizeBit>>
          [] op \in {"CHAINED_COPY_N", "CHAINED_COPY_C"} -> <<main, BlockSizeBit, BlockSizeBit, 0, 0>>
          [] op = "CHAINED_SKIP" -> <<0, 0, MaxSkipLengthBits, 0, 0>>
          [] op = "REBASE"       -> <<BlockIDSpace, 0, RebaseLengthBits, 0, 0>>
          [] OTHER               -> <<0, 0, 0, 0, 0>>

\* readBlockID and the offset that is joined to the block by "or".
BlockAddress(d, id, width) == IF width = 0 THEN d.blockInUse ELSE d.blockBase + Base(id)
OperandAddress(d, id, width, offset, isCache) ==
    IF isCache THEN Cache + offset ELSE BlockAddress(d, id, width) | offset

\* Mutant: the base of the range before is not reset.
MutantRebaseAddress(d, id) == d.blockBase + Base(id)

\* A REBASE is read with all the bits, from base 0.
RebaseAddress(d, id) == Base(id)

CommandOf(op) ==
    CASE op = "LOAD_FLUSH"   -> "LOAD_AND_FLUSH"
      [] op = "FLUSH_COMMIT" -> "FLUSH_AND_PARTIAL_COMMIT"
      [] op = "RELEASE"      -> "RELEASE_BLOCK"
      [] op = "CHAINED_SKIP" -> "CHAINED_COPY_SKIP"
      [] op \in {"COPY_NN", "COPY_NC", "COPY_CN", "COPY_CC"} -> "COPY"
      [] op \in {"CHAINED_COPY_N", "CHAINED_COPY_C"} -> "CHAINED_COPY"
      [] OTHER -> op

\* decodeInstruction
DecodeInstruction(stream, d) ==
    LET op     == Opcodes[ReadBits(stream, d.offset, InstructionWidth) + 1]
        widths == OperandWidths(d, op)
        at[i \in 1 .. 6] == IF i = 1 THEN d.offset + InstructionWidth ELSE at[i - 1] + widths[i - 1]
        field(i) == ReadBits(stream, at[i], widths[i])
        read   == [d EXCEPT !.offset = at[6], !.past = @ \/ at[6] > Len(stream)]
        ctx    == CASE op = "USE_BLOCK" ->
                          [read EXCEPT !.usingBlock = TRUE,
                                       !.blockInUse = BlockAddress(d, field(1), widths[1])]
                    [] op \in {"RELEASE", "END_OF_STREAM"} -> [read EXCEPT !.usingBlock = FALSE]
                    [] op = "REBASE" -> [read EXCEPT !.blockBase = RebaseAddress(d, field(1)),
                                                     !.blockIDBits = field(3) + 1]
                    [] OTHER -> read
        main   == CASE op \in {"RELEASE", "CHAINED_SKIP"} -> 0
                    [] op = "REBASE" -> ctx.blockBase
                    [] OTHER -> OperandAddress(d, field(1), widths[1], field(2), MainIsCache(op))
        sec    == IF CommandOf(op) # "COPY" THEN 0
                  ELSE OperandAddress(d, field(4), widths[4], field(5), SecondaryIsCache(op))
        length == CASE op = "REBASE" -> 2 ^ ctx.blockIDBits - 1
                    [] CommandOf(op) \in {"FLUSH_AND_PARTIAL_COMMIT", "COPY", "CHAINED_COPY",
                                          "CHAINED_COPY_SKIP"} -> field(3) + 1
                    [] OTHER -> 0
    IN  [ctx |-> ctx, stop |-> op \in {"ILLEGAL", "END_OF_STREAM"},
         cmd |-> Cmd(CommandOf(op), main, length, sec)]

\* The loop of decode and of runCommands.
RECURSIVE Decode(_, _, _)
Decode(stream, d, cmds) ==
    LET next == DecodeInstruction(stream, d)
    IN  IF next.stop \/ next.ctx.past THEN [cmds |-> cmds, ctx |-> next.ctx]
        ELSE Decode(stream, next.ctx, Append(cmds, next.cmd))

\* What runCommands takes for the end of the commands, in bits: the next whole byte.
EndOfCommands(ctx) == ctx.offset + ((-ctx.offset) % ByteBits)
=============================================================================
