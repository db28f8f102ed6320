---------------------------- MODULE Decompression ----------------------------
(***************************************************************************)
(* The stream of a delta: compressed by Hugin (writeBSDiff and              *)
(* lzfx_compress), decompressed on the device into cacheRAM                 *)
(* (lzfx_decompress of munin/Delta/lzfx_light.c) as applyDeltaPatch         *)
(* consumes it (consumeByte, consumeWord and consumeDWord of bsdiff.c).     *)
(*                                                                         *)
(* The compressed stream is a sequence of cells.  A control byte is a cell  *)
(* with a token, and a cell of a literal run has the byte.  Positions begin *)
(* at 0, as pointers do.                                                    *)
(***************************************************************************)
EXTENDS Integers, Sequences, SequencesExt, FiniteSetsExt

CONSTANTS Originals,           \* the streams writeBSDiff may be given
          LZFX_MAX_LIT,        \* longest literal run; a control byte counts to twice as much
          MAX_REF_FORMAT_1,    \* lengths from here on need format 2
          OffsetWidth,         \* bits of an offset in format 1
          LengthWidth,         \* bits of a length in format 2
          CacheSize            \* bytes of cacheRAM, a power of two

VARIABLES original,                \* what writeBSDiff compresses
          ip, lit, htab, written,  \* lzfx_compress: htab as the positions entered in it
          phase,                   \* "compress", "compressed", then "read"
          context,                 \* the BSDiffContext
          read                     \* the bytes consumed so far
vars == <<original, ip, lit, htab, written, phase, context, read>>

Junk == -1   \* a byte that is not of the stream
MAX_OFF_FORMAT_1 == 2 ^ (OffsetWidth + 1)
LZFX_MAX_OFF     == 2 ^ (OffsetWidth + 2)
LZFX_MAX_REF(off) == 2 ^ LengthWidth + (IF off < MAX_OFF_FORMAT_1 THEN MAX_REF_FORMAT_1 ELSE 0)

Data(b)  == [byte |-> b, token |-> [kind |-> "none"]]
Token(t) == [byte |-> Junk, token |-> t]
Byte(i)  == original[i + 1]
InEnd    == Len(original) - 1     \* writeBSDiff compresses index - 1 bytes

-----------------------------------------------------------------------------
(* lzfx_compress *)

\* op[-lit - 1] = lit - 1, or the run is undone.
Run(bytes) == IF bytes = <<>> THEN <<>>
              ELSE <<Token([kind |-> "literal", length |-> Len(bytes)])>>
                       \o [i \in DOMAIN bytes |-> Data(bytes[i])]

\* The two formats, with what their fields keep of the offset and the length.
Reference(len, off) ==
    IF len < MAX_REF_FORMAT_1 /\ off < MAX_OFF_FORMAT_1
    THEN [kind |-> "format 1", length |-> len, offset |-> off % 2 ^ OffsetWidth]
    ELSE [kind |-> "format 2", offset |-> off,
          length |-> (IF off < MAX_OFF_FORMAT_1 THEN len - MAX_REF_FORMAT_1 ELSE len) % 2 ^ LengthWidth]

\* The three bytes at ip select a slot, which holds the last position entered in it.
SameSlot == {r \in htab : \A k \in 0 .. 2 : Byte(r + k) = Byte(ip + k)}
Slot     == Max(SameSlot \cup {0})
Matches  == Slot > 0 /\ ip - Slot - 1 < LZFX_MAX_OFF /\ ip + 4 < InEnd
MatchLength ==
    LET off == ip - Slot - 1
    IN  Max({n \in 3 .. Min({LZFX_MAX_REF(off), InEnd - ip - 2}) :
                \A k \in 0 .. n - 1 : Byte(Slot + k) = Byte(ip + k)})

Looping == phase = "compress" /\ ip + 2 < InEnd

Match ==
    /\ Looping /\ Matches
    /\ LET n == MatchLength
       IN  /\ written' = written \o Run(lit)
                             \o <<Token(Reference(n - 2, ip - Slot - 1))>>
           /\ ip' = ip + n
           /\ htab' = htab \cup {ip} \cup {p \in {ip + n - 1} : p + 3 < InEnd}
    /\ lit' = <<>>
    /\ UNCHANGED <<original, phase, context, read>>

AddLiteral ==
    LET bytes == Append(lit, Byte(ip))
        full  == Len(bytes) = LZFX_MAX_LIT
    IN  /\ ip' = ip + 1
        /\ lit' = IF full THEN <<>> ELSE bytes
        /\ written' = IF full THEN written \o Run(bytes) ELSE written

\* Nothing matches, or the slot was taken by other bytes since.
Literal ==
    /\ Looping
    /\ Matches => \E p \in htab : p > Slot
    /\ AddLiteral /\ htab' = htab \cup {ip}
    /\ UNCHANGED <<original, phase, context, read>>

LastBytes ==
    /\ phase = "compress" /\ InEnd =< ip + 2 /\ ip < InEnd
    /\ AddLiteral
    /\ UNCHANGED <<original, htab, phase, context, read>>

Finish ==
    /\ phase = "compress" /\ ip = InEnd
    /\ written' = written \o Run(lit) /\ lit' = <<>>
    /\ phase' = "compressed"
    /\ UNCHANGED <<original, ip, htab, context, read>>

-----------------------------------------------------------------------------
(* lzfx_decompress.  l is the Lzfx4KContext.  memory is what was written from *)
(* cacheRAM on, so that context->output is its length; the device never sets *)
(* output back, and what exceeds CacheSize is behind cacheRAM.               *)

Cell(i) == IF i < Len(written) THEN written[i + 1] ELSE Data(Junk)
At(memory, i) == IF i < Len(memory) THEN memory[i + 1] ELSE Junk

\* getOutputPointerWithBackOffset
BackOffset(memory, backOffset) ==
    LET back == backOffset % CacheSize
    IN  IF back =< Len(memory) THEN Len(memory) - back ELSE Len(memory) + CacheSize - back

\* Byte by byte, from ref to the end of cacheRAM and on from its beginning.
CopyBack(memory, ref, length) ==
    LET room == IF ref < CacheSize THEN CacheSize - ref ELSE 0
        Source(k) == IF k =< room THEN ref + k - 1 ELSE (k - room - 1) % CacheSize
    IN  FoldLeft(LAMBDA m, k : Append(m, At(m, Source(k))), memory, [k \in 1 .. length |-> k])

CopyLiterals(memory, p, length) == memory \o [i \in 1 .. length |-> Cell(p + i - 1).byte]

ResumeCurrentSegment(l, outputLength) ==
    LET more   == l.lengthToRead > outputLength
        length == IF more THEN outputLength ELSE l.lengthToRead
        reuse  == l.status = "suspend decompress"
        frozen == [l EXCEPT !.status = IF more THEN @ ELSE "ok",
                            !.lengthToRead = IF more THEN @ - outputLength ELSE @,
                            !.backRef = IF more /\ reuse THEN (@ + outputLength) % CacheSize ELSE @]
    IN  CASE l.status = "ok" -> l
          [] reuse -> [frozen EXCEPT !.memory = CopyBack(@, BackOffset(@, l.backRef), length)]
          [] l.status = "suspend literal" ->
                [frozen EXCEPT !.memory = CopyLiterals(@, l.offset, length), !.offset = @ + length]

\* Mutant: the limit itself counts as a low offset.
MutantReferenceLength(t) ==
    t.length + 2 + (IF t.kind = "format 2" /\ t.offset =< MAX_OFF_FORMAT_1 THEN MAX_REF_FORMAT_1 ELSE 0)

ReferenceLength(t) ==
    t.length + 2 + (IF t.kind = "format 2" /\ t.offset < MAX_OFF_FORMAT_1 THEN MAX_REF_FORMAT_1 ELSE 0)

\* What does not fit before outputEnd is left for the next call.
DecodeReference(l, t, outputEnd) ==
    LET length == ReferenceLength(t)
        fits   == Min({length, outputEnd - Len(l.memory)})
        copied == [l EXCEPT !.offset = @ + 1,
                            !.memory = CopyBack(@, BackOffset(@, t.offset + 1), fits)]
    IN  IF fits = length THEN copied
        ELSE [copied EXCEPT !.status = "suspend decompress", !.lengthToRead = length - fits,
                            !.backRef = (t.offset + 1 - fits) % CacheSize]

\* The loop is do ... while(--ctrl): with no room left, ctrl is zero and wraps.
DecodeLiteral(l, t, outputEnd) ==
    LET fits   == Min({t.length, outputEnd - Len(l.memory)})
        count  == IF fits = 0 THEN 2 * LZFX_MAX_LIT ELSE fits
        copied == [l EXCEPT !.offset = @ + 1 + count, !.memory = CopyLiterals(@, l.offset + 1, count)]
    IN  IF fits = t.length THEN copied
        ELSE [copied EXCEPT !.status = "suspend literal", !.lengthToRead = t.length - fits]

\* Token by token.  Once the wrap above has lost the place in the input, bytes of a
\* literal are taken for control bytes: nothing more is said of such a stream.
RECURSIVE DecodeFrom(_, _)
DecodeFrom(l, outputEnd) ==
    LET t == Cell(l.offset).token
    IN  CASE l.offset >= Len(written) \/ l.status # "ok" -> l
          [] l.offset < Len(written) /\ l.status = "ok" ->
                CASE t.kind = "literal" -> DecodeFrom(DecodeLiteral(l, t, outputEnd), outputEnd)
                  [] t.kind \in {"format 1", "format 2"} -> DecodeFrom(DecodeReference(l, t, outputEnd), outputEnd)
                  [] t.kind = "none" -> [l EXCEPT !.status = "corrupt"]

\* LZFX_EARGS, with no output, when the stream is done.
LzfxDecompress(l, outputLength) ==
    LET last == DecodeFrom(ResumeCurrentSegment(l, outputLength), Len(l.memory) + outputLength)
    IN  IF l.status \in {"done", "corrupt"} THEN l
        ELSE [last EXCEPT !.status = IF @ = "ok" THEN "done" ELSE @]

-----------------------------------------------------------------------------
(* The consumers of bsdiff.c.  Each returns the context and the bytes read.  *)

ReadChunk(c) ==
    LET l == LzfxDecompress(c.lzfx, CacheSize)
    IN  [c EXCEPT !.lzfx = l, !.currentCacheOffset = 0,
                  !.lengthLeft = Len(l.memory) - Len(c.lzfx.memory)]

ConsumeByte(c) ==
    LET d == IF c.currentCacheOffset >= c.lengthLeft THEN ReadChunk(c) ELSE c
    IN  IF d.lengthLeft < 1 THEN [context |-> [d EXCEPT !.isOutOfData = TRUE], bytes |-> <<0>>]
        ELSE [context |-> [d EXCEPT !.currentCacheOffset = @ + 1],
              bytes   |-> <<d.lzfx.memory[d.currentCacheOffset + 1]>>]

\* At once when the buffer has all of it, half by half otherwise.
InOneGo(c, n) ==
    [context |-> [c EXCEPT !.currentCacheOffset = @ + n],
     bytes   |-> [i \in 1 .. n |-> c.lzfx.memory[c.currentCacheOffset + i]]]
Both(first, second) == [context |-> second.context, bytes |-> first.bytes \o second.bytes]

ConsumeWord(c) ==
    LET low == ConsumeByte(c)
    IN  IF c.currentCacheOffset + 2 > c.lengthLeft THEN Both(low, ConsumeByte(low.context))
        ELSE InOneGo(c, 2)

ConsumeDWord(c) ==
    LET low == ConsumeWord(c)
    IN  IF c.currentCacheOffset + 4 > c.lengthLeft THEN Both(low, ConsumeWord(low.context))
        ELSE InOneGo(c, 4)

\* applyDeltaPatch begins: "We grab a good chunk of data".
Open ==
    /\ phase = "compressed" /\ phase' = "read"
    /\ context' = ReadChunk(context)
    /\ UNCHANGED <<original, ip, lit, htab, written, read>>

Consume ==
    /\ phase = "read" /\ Len(read) < Len(original)
    /\ \E r \in {ConsumeByte(context), ConsumeWord(context), ConsumeDWord(context)} :
          /\ Len(read) + Len(r.bytes) =< Len(original)
          /\ context' = r.context /\ read' = read \o r.bytes
    /\ UNCHANGED <<original, ip, lit, htab, written, phase>>

Init ==
    /\ original \in Originals
    /\ ip = 0 /\ lit = <<>> /\ htab = {} /\ written = <<>>
    /\ phase = "compress" /\ read = <<>>
    /\ context = [lzfx |-> [offset |-> 0, memory |-> <<>>, status |-> "ok", lengthToRead |-> 0, backRef |-> 0],
                  currentCacheOffset |-> 0, lengthLeft |-> 0, isOutOfData |-> FALSE]
Next == Match \/ Literal \/ LastBytes \/ Finish \/ Open \/ Consume
Spec == Init /\ [][Next]_vars

-----------------------------------------------------------------------------
\* As long as cacheRAM was filled only once, the patcher gets the stream Hugin wrote,
\* whatever the cuts: runs, references in both formats, reads across the end of the
\* data, and a token that does not fit.  The byte writeBSDiff leaves out reads as zero.
FirstBufferAsWritten ==
    /\ \A i \in 1 .. Min({CacheSize, Len(read)}) : read[i] = original[i]
    /\ context.isOutOfData => Len(read) >= Min({CacheSize, Len(original)})
-----------------------------------------------------------------------------
(* Instances: every short stream of two bytes, and streams in which a pattern *)
(* comes back from a distance.                                                *)

Short(n) == {Append(s, 0) : s \in UNION {[1 .. m -> 0 .. 1] : m \in 1 .. n}}

\* A pattern of m bytes that comes back off + 1 bytes later, off >= m - 1.
Repeated(m, off) ==
    LET pattern == [i \in 1 .. m |-> 100 + i]
        filler  == [i \in 1 .. off + 1 - m |-> 200 + i]
    IN  <<50>> \o pattern \o filler \o pattern \o <<51, 52, 53, 54, 0>>
Far(offsets) == {Repeated(m, off) : m \in 3 .. 7, off \in offsets}

\* Offsets that format 1 cannot hold, but takes, are 4 .. 7.
Faithful == Short(8) \cup Far(8 .. 17)
Between  == Far(6 .. 7)
=============================================================================
