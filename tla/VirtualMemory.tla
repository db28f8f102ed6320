---------------------------- MODULE VirtualMemory ----------------------------
(***************************************************************************)
(* What the scheduler believes of the flash and the cache while it moves   *)
(* the bytes of a network of blocks (VirtualMemory.h and                   *)
(* cache_management.cpp).                                                  *)
(*                                                                         *)
(* w.table   the TranslationTable: for each block of the network, where    *)
(*           its original bytes are now                                    *)
(* w.cache   the CacheMemory: which original bytes the cache holds         *)
(* w.pending the last block write, not emitted yet (cachedWrite...)        *)
(* w.s       the commands emitted                                          *)
(* w.ok      no assertion has failed (VERY_AGGRESSIVE_ASSERT is on)        *)
(***************************************************************************)
EXTENDS Instructions

-----------------------------------------------------------------------------
(* A block as a sequence of segments (DetailedBlock.h).  A segment says that  *)
(* the `len` bytes placed at dst are those that belong to, or are found at,   *)
(* src.  Its tag is "free" when nobody needs it, "held" when it is in use and *)
(* "leaving" when it is in use until the end of a write (willUntag).          *)

Segment(src, dst, len, tag) == [src |-> src, dst |-> dst, len |-> len, tag |-> tag]
Tagged(seg)  == seg.tag # "free"
SrcEnd(seg)  == seg.src + seg.len
DstEnd(seg)  == seg.dst + seg.len
WholeBlock(b) == << Segment(Base(b), Base(b), BlockSize, "free") >>

\* The ranges [a, a + n) and [b, b + m) share a byte.
Overlap(a, n, b, m) == n > 0 /\ m > 0 /\ a < b + m /\ b < a + n
Shifted(seg, n) == [seg EXCEPT !.src = @ + n, !.dst = @ + n, !.len = @ - n]

SumLen(segs) == FoldLeft(LAMBDA sum, seg : sum + seg.len, 0, segs)
TaggedOnly(segs) == SelectSeq(segs, Tagged)

\* The parts of segs between the destinations a and a + n.
Between(seg, lo, hi) == [seg EXCEPT !.src = @ + (lo - seg.dst), !.dst = lo, !.len = hi - lo]
Sliced(hits, a, n) ==
    [i \in DOMAIN hits |-> Between(hits[i], Max({a, hits[i].dst}), Min({a + n, DstEnd(hits[i])}))]
Slice(segs, a, n) == Sliced(SelectSeq(segs, LAMBDA seg : Overlap(a, n, seg.dst, seg.len)), a, n)

\* segmentsOverlap, of an existing segment and a new one, which may be empty.
SegmentsOverlap(seg, new) ==
    \/ seg.dst =< new.dst /\ new.dst < DstEnd(seg)
    \/ seg.dst < DstEnd(new) /\ DstEnd(new) =< DstEnd(seg)
    \/ new.dst < seg.dst /\ DstEnd(new) > DstEnd(seg)

\* _insertNewSegment: the new segment takes the place of what it covers; what is
\* left over goes where its destination says.  An empty one cuts what it falls in.
\* m is what is still to be inserted, `part` its bytes that fall in seg.
Covered(seg, m, part) ==
    LET before == IF m.dst > seg.dst THEN << [seg EXCEPT !.len = m.dst - seg.dst] >> ELSE <<>>
    IN  before
        \o (IF part > 0 \/ m.dst =< seg.dst THEN << [m EXCEPT !.len = part] >> ELSE <<>>)
        \o (IF DstEnd(m) < DstEnd(seg) THEN << Shifted(seg, DstEnd(m) - seg.dst) >> ELSE <<>>)
InsertInto(acc, seg, m, part) ==
    CASE ~acc.done /\ [seg EXCEPT !.tag = m.tag] = m ->
            [acc EXCEPT !.segs = Append(@, m), !.done = TRUE]
      [] ~acc.done /\ [seg EXCEPT !.tag = m.tag] # m /\ SegmentsOverlap(seg, m) ->
            [segs |-> acc.segs \o Covered(seg, m, part), rest |-> Shifted(m, part),
             done |-> DstEnd(m) =< DstEnd(seg)]
      [] OTHER -> [acc EXCEPT !.segs = Append(@, seg)]
InsertStep(acc, seg) ==
    InsertInto(acc, seg, acc.rest, Min({DstEnd(seg), DstEnd(acc.rest)}) - acc.rest.dst)
PlaceRest(end, later) ==
    CASE end.done -> end.segs
      [] ~end.done /\ (later = {} \/ DstEnd(Last(end.segs)) < end.rest.dst) ->
            Append(end.segs, end.rest)
      [] OTHER -> InsertAt(end.segs, Min(later), end.rest)
PlaceLater(end) == PlaceRest(end, {i \in DOMAIN end.segs : end.segs[i].dst > end.rest.dst})
InsertNewSegment(segs, new) ==
    PlaceLater(FoldLeft(InsertStep, [segs |-> <<>>, rest |-> new, done |-> FALSE], segs))

InsertAll(segs, news) == FoldLeft(InsertNewSegment, segs, news)

\* compactSegments
CompactSegments(segs) ==
    LET joins(a, b) == /\ BlockOf(a.src) = BlockOf(b.src) /\ SrcEnd(a) = b.src
                       /\ Tagged(a) = Tagged(b)
    IN  FoldLeft(LAMBDA out, seg :
                    IF out # <<>> /\ joins(Last(out), seg)
                    THEN [out EXCEPT ![Len(out)].len = @ + seg.len] ELSE Append(out, seg),
                 <<>>, segs)

\* trimUntagged
FreeAtItself(segs) ==
    [i \in DOMAIN segs |-> IF Tagged(segs[i]) THEN segs[i] ELSE [segs[i] EXCEPT !.src = segs[i].dst]]
TrimUntagged(segs) ==
    FreeAtItself(CompactSegments(FoldLeft(LAMBDA out, seg :
        IF out # <<>> /\ ~Tagged(Last(out)) /\ ~Tagged(seg)
        THEN [out EXCEPT ![Len(out)].len = @ + seg.len] ELSE Append(out, seg), <<>>, segs)))

\* fitSegmentInUntagged: at the head of the first free segment that is large
\* enough, or else spread over the free segments.
FitSegmentInUntagged(segs, new) ==
    LET fits == {i \in DOMAIN segs : ~Tagged(segs[i]) /\ segs[i].len >= new.len}
        at   == Min(fits)
        Spread(acc, seg) ==
            LET m == acc.rest
            IN  IF Tagged(seg) \/ m.len = 0 THEN [acc EXCEPT !.segs = Append(@, seg)]
                ELSE IF seg.len =< m.len
                THEN [segs |-> Append(acc.segs, [m EXCEPT !.len = seg.len]), rest |-> Shifted(m, seg.len)]
                ELSE [segs |-> acc.segs \o << m, Shifted(seg, m.len) >>, rest |-> Shifted(m, m.len)]
        spread == FoldLeft(Spread, [segs |-> <<>>, rest |-> new], segs)
    IN  IF fits = {} THEN [segs |-> spread.segs, ok |-> spread.rest.len = 0]
        ELSE [ok |-> TRUE, segs |->
              IF segs[at].len = new.len
              THEN [segs EXCEPT ![at].src = new.src, ![at].tag = "held"]
              ELSE InsertAt([segs EXCEPT ![at] = Shifted(@, new.len)], at, new)]

-----------------------------------------------------------------------------
(* The translation table and the cache. *)

EmptyCache == WholeBlock(CacheBlock)
NoPending  == [has |-> FALSE, block |-> CacheBlock, other |-> CacheBlock,
               request |-> <<>>, ignoreLayout |-> FALSE]
NewVirtualMemory(bs, s) ==
    [table |-> [b \in bs |-> WholeBlock(b)], cache |-> EmptyCache,
     pending |-> NoPending, s |-> s, ok |-> TRUE]

\* An assertion of the code.
Assertion(w, holds) == [w EXCEPT !.ok = @ /\ holds]
Emit(w, c) == [w EXCEPT !.s = InsertCommand(@, c)]

\* translateSegment: where the bytes of [from, from + len) are, in pieces [src, len].
Piece(src, len) == [src |-> src, len |-> len]
Sources(slices) == [i \in DOMAIN slices |-> Piece(slices[i].src, slices[i].len)]
TranslateHere(table, from, n) ==
    IF BlockOf(from) \in DOMAIN table THEN Sources(Slice(table[BlockOf(from)], from, n))
    ELSE << Piece(from, n) >>
RECURSIVE Translate(_, _, _)
Translate(table, from, len) ==
    LET here == Min({len, BlockSize - Offset(from)})
    IN  IF len = 0 THEN <<>>
        ELSE TranslateHere(table, from, here) \o Translate(table, from + here, len - here)

\* redirect: the original bytes at virt are now at real.
Redirect(w, virt, len, real) ==
    IF BlockOf(virt) \notin DOMAIN w.table THEN w
    ELSE Assertion([w EXCEPT !.table[BlockOf(virt)] =
                        InsertNewSegment(@, Segment(real, virt, len, "held"))],
                   len > 0 /\ Offset(virt) + len =< BlockSize)

\* segmentInCache: the parts of an original range that the cache holds, at `at`,
\* and those it does not.  over are the segments of the cache with a byte of it.
FirstPart(cache, base, len, over) ==
    LET heads == {i \in over : cache[i].src =< base}
        seg   == cache[Min(heads)]
    IN  IF heads # {}
        THEN [virt |-> base, cached |-> TRUE, at |-> seg.dst + (base - seg.src),
              len |-> Min({SrcEnd(seg) - base, len})]
        ELSE [virt |-> base, cached |-> FALSE, at |-> base,
              len |-> Min({len} \cup {cache[i].src - base : i \in over})]
RECURSIVE SegmentInCache(_, _, _)
PartAndRest(cache, base, len, part) ==
    << part >> \o SegmentInCache(cache, base + part.len, len - part.len)
SegmentInCache(cache, base, len) ==
    IF len = 0 THEN <<>>
    ELSE PartAndRest(cache, base, len,
            FirstPart(cache, base, len, {i \in DOMAIN cache :
                Tagged(cache[i]) /\ Overlap(base, len, cache[i].src, cache[i].len)}))

\* generateCopyWithTranslatedAddress marks what it reads from the cache; and
\* applyCacheWillUntag lets it go.
InsertLeaving(cache, segs) ==
    InsertAll(cache, [i \in DOMAIN segs |-> [segs[i] EXCEPT !.tag = "leaving"]])
Leave(cache, from, len) == InsertLeaving(cache, Slice(cache, from, len))
ApplyCacheWillUntag(cache) ==
    [i \in DOMAIN cache |-> IF cache[i].tag = "leaving" THEN [cache[i] EXCEPT !.tag = "free"]
                                                        ELSE cache[i]]
AvailableRoom(cache) == BlockSize - SumLen(TaggedOnly(cache))

-----------------------------------------------------------------------------
(* writeTaggedToBlock: the tagged segments, from the cache or from where    *)
(* they are now, one after the other into a block.                          *)

\* Where a segment's bytes are read from: pieces [virt, src, len].
SourceOf(w, part) ==
    IF part.cached THEN << Piece(part.at, part.len) >> ELSE Translate(w.table, part.virt, part.len)
ReadingsOf(w, seg, parts) ==
    FoldLeft(LAMBDA out, p : Append(out, [src |-> p.src, len |-> p.len, virt |-> seg.src + SumLen(out)]),
             <<>>, FlattenSeq([i \in DOMAIN parts |-> SourceOf(w, parts[i])]))
Readings(w, seg) == ReadingsOf(w, seg, SegmentInCache(w.cache, seg.src, seg.len))

\* acc: the copies so far, and where the next one goes.
CopyPiece(acc, p) ==
    [copies |-> Append(acc.copies, [virt |-> p.virt, src |-> p.src, len |-> p.len, to |-> acc.to]),
     to     |-> acc.to + p.len,
     w      |-> IF IsCache(p.src) THEN [acc.w EXCEPT !.cache = Leave(@, p.src, p.len)] ELSE acc.w]
CopySegment(acc, seg) ==
    IF Tagged(seg) THEN FoldLeft(CopyPiece, acc, Readings(acc.w, seg)) ELSE [acc EXCEPT !.to = @ + seg.len]
CopiesOf(w, b, request) == FoldLeft(CopySegment, [w |-> w, copies |-> <<>>, to |-> Base(b)], request)

\* Without a layout: by source, the cache first, packed from the start of the block.
Packed(copies, b) ==
    LET before(x, y) == IF BlockOf(x.src) # BlockOf(y.src) /\ (IsCache(x.src) \/ IsCache(y.src))
                        THEN IsCache(x.src) ELSE x.src < y.src
    IN  FoldLeft(LAMBDA out, c : Append(out, [c EXCEPT !.to = Base(b) + SumLen(out)]),
                 <<>>, SortSeq(copies, before))
RedirectCopies(w, copies) ==
    FoldLeft(LAMBDA v, c : Redirect(v, c.virt, c.len, c.to), w, copies)

\* Mutant: the segments are taken to follow each other, the holes are forgotten.
MutantRedirectSegments(w, b, request) ==
    LET step(acc, seg) == [w |-> Redirect(acc.w, seg.src, seg.len, Base(b) + acc.offset),
                           offset |-> acc.offset + seg.len]
    IN  FoldLeft(step, [w |-> w, offset |-> 0], TaggedOnly(request)).w

\* With a layout: where each segment belongs.
RedirectSegments(w, b, request) ==
    LET step(acc, seg) ==
          LET offset == IF BlockOf(seg.dst) = b THEN Offset(seg.dst) ELSE acc.offset
          IN  [w |-> Redirect(acc.w, seg.src, seg.len, Base(b) + offset), offset |-> offset + seg.len]
    IN  FoldLeft(step, [w |-> w, offset |-> 0], TaggedOnly(request)).w

EmitCopies(w, copies) ==
    [w EXCEPT !.s = FinishTransaction(InsertCommands(NewTransaction(@),
        [i \in DOMAIN copies |-> COPY(copies[i].src, copies[i].len, copies[i].to)]))]
WritePacked(w, copies) == EmitCopies(RedirectCopies(w, copies), copies)
WriteCopies(w, b, request, ignoreLayout, copies) ==
    IF ignoreLayout THEN WritePacked(w, Packed(copies, b))
    ELSE EmitCopies(RedirectSegments(w, b, request), copies)
WriteRead(read, b, request, ignoreLayout) ==
    WriteCopies([read.w EXCEPT !.cache = ApplyCacheWillUntag(@)], b, request, ignoreLayout, read.copies)
WriteTaggedToBlock(w, b, request, ignoreLayout) ==
    WriteRead(CopiesOf(w, b, request), b, request, ignoreLayout)

\* commitCachedWrite: the write that was kept back is emitted now.
AllWritten(w) == Assertion([w EXCEPT !.pending.has = FALSE], TaggedOnly(w.cache) = <<>>)
CommitCachedWrite(w) ==
    IF ~w.pending.has THEN w
    ELSE AllWritten(WriteTaggedToBlock(w, w.pending.block, w.pending.request, w.pending.ignoreLayout))

DropCachedWrite(w) == [w EXCEPT !.pending.has = FALSE]

\* cacheWrite: keeps a write back, as the next step may make it pointless.
CacheWrite(w, b, request, other, ignoreLayout) ==
    [CommitCachedWrite(w) EXCEPT !.pending =
        [has |-> TRUE, block |-> b, other |-> other, request |-> request,
         ignoreLayout |-> ignoreLayout]]

\* flushCacheToBlock: all that the cache holds, one after the other.
PackedCache(cache, b) ==
    FoldLeft(LAMBDA acc, seg :
                [segs |-> InsertNewSegment(acc.segs, Segment(seg.src, acc.out, seg.len, "held")),
                 out  |-> acc.out + seg.len],
             [segs |-> WholeBlock(b), out |-> Base(b)], TaggedOnly(cache)).segs
FlushCacheToBlock(w, b, other, shouldCacheWrite) ==
    IF shouldCacheWrite THEN CacheWrite(w, b, PackedCache(w.cache, b), other, TRUE)
    ELSE WriteTaggedToBlock(w, b, PackedCache(w.cache, b), FALSE)

-----------------------------------------------------------------------------
(* loadTaggedToTMP: the tagged segments are brought into the cache, beside   *)
(* what it holds already.                                                    *)

\* extractSubSectionToLoad: what the cache does not hold, the remainders last.
ExtractSubSectionToLoad(seg, cache) ==
    LET outside(out, held) ==
          LET hit(p)  == Overlap(held.src, held.len, p.src, p.len)
              rest(p) == (IF p.src < held.src THEN << Piece(p.src, held.src - p.src) >> ELSE <<>>)
                      \o (IF SrcEnd(p) > SrcEnd(held)
                          THEN << Piece(SrcEnd(held), SrcEnd(p) - SrcEnd(held)) >> ELSE <<>>)
              hits    == SelectSeq(out, hit)
          IN  SelectSeq(out, LAMBDA p : ~hit(p)) \o FlattenSeq([i \in DOMAIN hits |-> rest(hits[i])])
    IN  FoldLeft(outside, << Piece(seg.src, seg.len) >>, TaggedOnly(cache))

\* _sortBySortedAddress: in the order of where the bytes are now.
Located(w, seg) ==
    FoldLeft(LAMBDA out, p : Append(out, Segment(seg.src + SumLen(out), p.src, p.len, "held")),
             <<>>, Translate(w.table, seg.src, seg.len))
SortLocated(w, held) ==
    SortSeq(FlattenSeq([i \in DOMAIN held |-> Located(w, held[i])]), LAMBDA a, b : a.dst < b.dst)
SortBySortedAddress(w, request) ==
    IF Len(request) = 1 THEN TaggedOnly(request) ELSE SortLocated(w, TaggedOnly(request))

\* _retagReusedToken: bytes let go but still in the cache are taken back.  What
\* follows the end of a match is not looked at again.
RetagSegment(seg, request) ==
    LET step(acc, l) ==
          LET early == IF acc.seg.src < l.src THEN l.src - acc.seg.src ELSE 0
              head  == IF early > 0 THEN << [acc.seg EXCEPT !.len = early] >> ELSE <<>>
              mid   == IF early > 0 THEN [Shifted(acc.seg, early) EXCEPT !.tag = "held"] ELSE acc.seg
              late  == SrcEnd(mid) - SrcEnd(l)
          IN  IF acc.stop \/ ~Overlap(acc.seg.src, acc.seg.len, l.src, l.len) THEN acc
              ELSE IF late > 0
              THEN [stop |-> TRUE, seg |-> Shifted(mid, mid.len - late),
                    out |-> acc.out \o head \o << [mid EXCEPT !.len = @ - late, !.tag = "held"] >>]
              ELSE [stop |-> FALSE, out |-> acc.out \o head, seg |-> [mid EXCEPT !.tag = "held"]]
        end == FoldLeft(step, [out |-> <<>>, seg |-> seg, stop |-> FALSE], request)
    IN  Append(end.out, end.seg)
RetagReusedToken(cache, request) ==
    FlattenSeq([i \in DOMAIN cache |->
        IF Tagged(cache[i]) THEN << cache[i] >> ELSE RetagSegment(cache[i], request)])

\* The first run of free segments with room for n bytes, or <<0, 0>>.
RoomFor(cache, n) ==
    LET runs == {<<i, j>> \in (DOMAIN cache) \X (DOMAIN cache) :
                    /\ i =< j /\ \A k \in i .. j : ~Tagged(cache[k])
                    /\ i = 1 \/ Tagged(cache[i - 1])
                    /\ SumLen(SubSeq(cache, i, j)) >= n}
        end  == Min({r[2] : r \in runs})
    IN  IF runs = {} THEN <<0, 0>> ELSE CHOOSE r \in runs : r[2] = end
\* The free segments i to j made one.
Merged(cache, i, j) ==
    IF i = j THEN cache
    ELSE SubSeq(cache, 1, i - 1)
         \o << Segment(cache[i].dst, cache[i].dst, SumLen(SubSeq(cache, i, j)), "free") >>
         \o SubSeq(cache, j + 1, Len(cache))

\* Defragmentation: held segments are copied down over the free one before them.
RECURSIVE MakeRoom(_, _, _)
MakeRoom(w, t, n) ==
    LET cur   == w.cache[t]
        next  == w.cache[t + 1]
        later == {i \in t + 2 .. Len(w.cache) : Tagged(w.cache[i])}
        upto  == IF later = {} THEN Len(w.cache) ELSE Min(later) - 1
        free  == [Segment(cur.src + next.len, cur.dst + next.len,
                          cur.len + SumLen(SubSeq(w.cache, t + 2, upto)), "free")
                     EXCEPT !.src = IF later = {} THEN cur.dst + next.len ELSE @]
        down  == SubSeq(w.cache, 1, t - 1) \o << [next EXCEPT !.dst = cur.dst, !.tag = "held"], free >>
                 \o SubSeq(w.cache, upto + 1, Len(w.cache))
    IN  CASE cur.len >= n -> [w |-> w, at |-> t]
          [] cur.len < n /\ t = Len(w.cache) -> [w |-> Assertion(w, FALSE), at |-> t]
          [] OTHER -> MakeRoom([Emit(w, COPY(next.dst, next.len, cur.dst)) EXCEPT !.cache = down],
                               t + 1, n)

RoomInTrimmed(w, n, trim) ==
    LET free == {i \in DOMAIN trim : ~Tagged(trim[i]) /\ trim[i].len > 0}
    IN  IF free = {} THEN [w |-> Assertion(w, FALSE), at |-> 1]
        ELSE MakeRoom([w EXCEPT !.cache = trim], Min(free), n)
RoomOrRun(w, n, run) ==
    IF run # <<0, 0>> THEN [w |-> [w EXCEPT !.cache = Merged(@, run[1], run[2])], at |-> run[1]]
    ELSE RoomInTrimmed(w, n, TrimUntagged(w.cache))
FindRoom(w, n) == RoomOrRun(w, n, RoomFor(w.cache, n))

\* One range of original bytes is copied to the room found for it.
LoadPart(acc, p) ==
    [w    |-> [Emit(acc.w, COPY(p.src, p.len, acc.to)) EXCEPT !.cache =
                  InsertNewSegment(@, Segment(acc.from, acc.to, p.len, "held"))],
     from |-> acc.from + p.len, to |-> acc.to + p.len]
LoadInto(room, piece) ==
    FoldLeft(LoadPart, [w |-> room.w, from |-> piece.src, to |-> room.w.cache[room.at].dst],
             Translate(room.w.table, piece.src, piece.len)).w
LoadPiece(w, piece) == LoadInto(FindRoom(w, piece.len), piece)
LoadSegment(w, seg) == FoldLeft(LoadPiece, w, ExtractSubSectionToLoad(seg, w.cache))

LengthToLoad(held, cache) ==
    SumLen(FlattenSeq([i \in DOMAIN held |-> ExtractSubSectionToLoad(held[i], cache)]))
LoadTaggedToTMP(w, request) ==
    IF LengthToLoad(TaggedOnly(request), w.cache) > AvailableRoom(w.cache) THEN Assertion(w, FALSE)
    ELSE [FoldLeft(LoadSegment, [w EXCEPT !.cache = RetagReusedToken(@, request), !.s = NewTransaction(@)],
                   SortBySortedAddress(w, request)) EXCEPT !.s = FinishTransaction(@)]
=============================================================================
