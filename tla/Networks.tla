------------------------------- MODULE Networks -------------------------------
(***************************************************************************)
(* Networks of blocks that need each other's data, solved one link at a    *)
(* time (networks.cpp) and the code for each way to solve a link            *)
(* (scheduler_codegen.cpp).                                                *)
(*                                                                         *)
(* net is the Network: its nodes, in the order of their blocks, and w, its  *)
(* memoryLayout.                                                           *)
(*                                                                         *)
(* A network token (Token.h, scheduler_utils.cpp) groups the tokens one     *)
(* node (network.h) holds for one destination block.  A node's tokens are   *)
(* what its block holds for the others and for itself; blockFinalLayout is  *)
(* where everything it wants belongs.                                      *)
(***************************************************************************)
EXTENDS VirtualMemory

\* A set of numbers in increasing order.
Ordered(S) == SelectSeq([i \in 1 .. Max(S \cup {0}) + 1 |-> i - 1], LAMBDA x : x \in S)

\* A token: `len` bytes at origin belong at final.
Token(final, len, origin) == [final |-> final, len |-> len, origin |-> origin]

NetworkToken(toks, src, dst) ==
    [cleared |-> FALSE, toks |-> toks, src |-> src, dst |-> dst, length |-> SumLen(toks)]

\* The position a binary search finds in a sequence meant to be sorted.
RECURSIVE LowerBoundIn(_, _, _, _)
LowerBoundIn(tokens, b, from, n) ==
    LET mid == from + n \div 2
    IN  IF n = 0 THEN from
        ELSE IF tokens[mid].dst < b THEN LowerBoundIn(tokens, b, mid + 1, n - n \div 2 - 1)
        ELSE LowerBoundIn(tokens, b, from, n \div 2)
LowerBound(tokens, b) == LowerBoundIn(tokens, b, 1, Len(tokens))
Holds(tokens, b) == LET i == LowerBound(tokens, b) IN i \in DOMAIN tokens /\ tokens[i].dst = b

\* std::sort keeps the order of equal elements on sequences this short.
StableSort(seq, Before(_, _)) ==
    LET place(out, x) == LET after == {i \in DOMAIN out : Before(x, out[i])}
                         IN  IF after = {} THEN Append(out, x) ELSE InsertAt(out, Min(after), x)
    IN  FoldLeft(place, <<>>, seq)

\* getReverse: a segment at the origin, that remembers the final address.
Reversed(toks, tag) ==
    [i \in DOMAIN toks |-> Segment(toks[i].final, toks[i].origin, toks[i].len, tag)]
Forward(toks) ==
    [i \in DOMAIN toks |-> Segment(toks[i].origin, toks[i].final, toks[i].len, "held")]
TokensOf(segs) == [i \in DOMAIN TaggedOnly(segs) |->
    LET seg == TaggedOnly(segs)[i] IN Token(seg.dst, seg.len, seg.src)]

\* removeOverlapWith: what of a token no other token has at the same origin; of
\* two of its own, the later wins.
NearTokens(nt, others) ==
    LET from == Min({nt.toks[i].origin : i \in DOMAIN nt.toks})
        to   == Max({nt.toks[i].origin + nt.toks[i].len : i \in DOMAIN nt.toks})
    IN  SelectSeq(FlattenSeq([i \in DOMAIN others |-> others[i].toks]),
                  LAMBDA t : t.origin < to /\ t.origin + t.len >= from)
TokensBack(segs) == [i \in DOMAIN segs |-> Token(segs[i].src, segs[i].len, segs[i].dst)]
Shortened(nt, toks) ==
    IF SumLen(toks) = nt.length /\ Len(toks) = Len(nt.toks) THEN nt
    ELSE [nt EXCEPT !.toks = toks, !.length = SumLen(toks)]
RemoveOverlapWith(nt, others) ==
    IF nt.toks = <<>> THEN [nt EXCEPT !.length = 0]
    ELSE Shortened(nt, TokensBack(TaggedOnly(
            InsertAll(InsertAll(<<>>, Reversed(nt.toks, "held")),
                      Reversed(NearTokens(nt, others), "free")))))
RemoveInternalOverlap(nt) == RemoveOverlapWith(nt, <<>>)

\* overlapWith: the bytes two tokens share, both walked by origin.
RECURSIVE SharedBytes(_, _)
SharedBytes(a, b) ==
    LET x  == Head(a)
        y  == Head(b)
        xe == x.origin + x.len
        ye == y.origin + y.len
        hit == Overlap(x.origin, x.len, y.origin, y.len)
        dropA == IF hit THEN xe =< ye ELSE x.origin < y.origin
        dropB == IF hit THEN ye =< xe ELSE ~dropA
    IN  IF a = <<>> \/ b = <<>> THEN 0
        ELSE (IF hit THEN Min({xe, ye}) - Max({x.origin, y.origin}) ELSE 0)
             + SharedBytes(IF dropA THEN Tail(a) ELSE a, IF dropB THEN Tail(b) ELSE b)
OverlapWith(nt, other) ==
    LET byOrigin(x, y) == x.origin < y.origin
    IN  SharedBytes(StableSort(other.toks, byOrigin), StableSort(nt.toks, byOrigin))

\* extractSubsequence: n bytes in as few pieces as possible, the longest first; the
\* next one is cut for the rest.
TakeToken(acc, t) ==
    IF acc.n # 0 /\ t.len < acc.n
    THEN [acc EXCEPT !.out = Append(@, t), !.n = @ - t.len] ELSE [acc EXCEPT !.left = Append(@, t)]
CutHead(taken, head) ==
    IF taken.n = 0 \/ taken.left = <<>> THEN taken
    ELSE [taken EXCEPT
            !.out = Append(@, [head EXCEPT !.len = taken.n]),
            !.left[1] = Token(head.final + taken.n, head.len - taken.n, head.origin + taken.n)]
CutTaken(taken) == CutHead(taken, Head(taken.left))
Subsequence(nt, taken) ==
    [out |-> taken.out, left |-> [nt EXCEPT !.toks = taken.left, !.length = @ - SumLen(taken.out)]]
ExtractSubsequence(nt, n) ==
    Subsequence(nt, CutTaken(FoldLeft(TakeToken, [out |-> <<>>, left |-> <<>>, n |-> n],
                                      StableSort(nt.toks, LAMBDA a, b : a.len > b.len))))

-----------------------------------------------------------------------------
(* NetworkNode                                                             *)

NewNode(b) ==
    [block |-> b, blockFinalLayout |-> WholeBlock(b), tokens |-> <<>>, nbSourcesOut |-> 0, sumOut |-> 0,
     lengthFinalLayout |-> 0, largestToken |-> 1, largestTokenWeight |-> 0,
     isFinal |-> FALSE, needRefreshLargestToken |-> FALSE]

AppendFinalToken(node, nt) ==
    IF nt.dst # node.block THEN node
    ELSE [node EXCEPT !.lengthFinalLayout = @ + nt.length,
                      !.blockFinalLayout = InsertAll(@, Forward(nt.toks))]

JoinToken(node, k, old, nt) ==
    [node EXCEPT !.tokens[k] = [old EXCEPT !.toks = @ \o nt.toks, !.length = @ + nt.length]]
PlaceToken(node, nt, same) ==
    IF same = {} THEN [node EXCEPT !.tokens = InsertAt(@, LowerBound(@, nt.dst), nt)]
    ELSE JoinToken(node, Min(same), RemoveOverlapWith(node.tokens[Min(same)], <<nt>>), nt)
CountToken(node, nt) ==
    IF nt.dst = node.block THEN AppendFinalToken(node, nt)
    ELSE [node EXCEPT !.nbSourcesOut = @ + 1, !.sumOut = @ + nt.length]
AppendToken(node, nt) ==
    IF nt.src # node.block THEN AppendFinalToken(node, nt)
    ELSE PlaceToken(CountToken(node, nt), nt, {i \in DOMAIN node.tokens : node.tokens[i].dst = nt.dst})

NodeOf(b, tokens) == FoldLeft(AppendToken, NewNode(b), tokens)

TotalLength(tokens) == FoldLeft(LAMBDA sum, t : sum + t.length, 0, tokens)
Outgoing(node) == SelectSeq(node.tokens, LAMBDA t : t.dst # node.block /\ ~t.cleared)

\* Mutant: the bytes to send are not counted again.
MutantRefreshOutgoingData(node) == [node EXCEPT !.nbSourcesOut = Len(Outgoing(node))]

\* refreshOutgoingData: what a node has to send is counted again.
RefreshOutgoingData(node) ==
    [node EXCEPT !.nbSourcesOut = Len(Outgoing(node)), !.sumOut = TotalLength(Outgoing(node))]

\* getOccupationLevel: the distinct bytes a node must keep.
OccupationLevel(node) ==
    LET final == TaggedOnly(node.blockFinalLayout)
        shadow == [i \in DOMAIN final |-> Segment(final[i].dst, final[i].src, final[i].len, "free")]
        put(layout, nt) == InsertAll(layout, IF node.isFinal /\ nt.dst = node.block THEN shadow
                                             ELSE Reversed(nt.toks, "held"))
    IN  (IF node.isFinal THEN node.lengthFinalLayout ELSE 0)
        + SumLen(TaggedOnly(FoldLeft(put, <<>>, node.tokens)))

\* removeOverlapWithToken; a token left empty goes away.
KeepTokens(node, left) ==
    [node EXCEPT !.tokens = left, !.nbSourcesOut = @ - (Len(node.tokens) - Len(left))]
RemoveOverlapWithToken(node, others) ==
    KeepTokens(node, SelectSeq([i \in DOMAIN node.tokens |-> RemoveOverlapWith(node.tokens[i], others)],
                               LAMBDA t : t.length # 0))

\* setFinal: the self token gets all of the final data that still lies in this
\* block or in its neighbour.
FinalPieces(w, seg, blocks) ==
    FoldLeft(LAMBDA acc, p :
        [at |-> acc.at + p.len,
         out |-> IF BlockOf(p.src) \in blocks
                 THEN Append(acc.out, Token(seg.dst + acc.at, p.len, seg.src + acc.at)) ELSE acc.out],
        [at |-> 0, out |-> <<>>], Translate(w.table, seg.src, seg.len)).out
FullSelfToken(w, node, blocks, core, segs) ==
    [core EXCEPT !.toks = @ \o FlattenSeq([i \in DOMAIN segs |-> FinalPieces(w, segs[i], blocks)]),
                 !.length = node.lengthFinalLayout]
MakeFinal(node, self, token) ==
    [ok   |-> SumLen(token.toks) =< node.lengthFinalLayout,
     node |-> [node EXCEPT !.isFinal = TRUE,
                 !.tokens = IF self = {} THEN Append(@, token) ELSE [@ EXCEPT ![Min(self)] = token]]]
SetFinal(w, node, neighbour) ==
    LET self == {i \in DOMAIN node.tokens : node.tokens[i].dst = node.block}
        core == IF self = {} THEN NetworkToken(<<>>, node.block, node.block) ELSE node.tokens[Min(self)]
    IN  MakeFinal(node, self, RemoveInternalOverlap(
            FullSelfToken(w, node, {node.block, neighbour}, core, TaggedOnly(node.blockFinalLayout))))

\* compileLayout: a final node has its layout; else what it holds is packed.
SkipHeld(segs, tok) ==
    LET skip[t \in {[tok EXCEPT !.final = @ + n, !.len = @ - n, !.origin = @ + n] : n \in 0 .. tok.len}] ==
          LET over == {i \in DOMAIN segs : Tagged(segs[i]) /\ segs[i].src =< t.origin
                                           /\ t.origin < SrcEnd(segs[i])}
              n    == Min({SrcEnd(segs[Min(over)]) - t.origin, t.len})
          IN  IF t.len = 0 \/ over = {} THEN t
              ELSE skip[[t EXCEPT !.final = @ + n, !.len = @ - n, !.origin = @ + n]]
    IN  skip[tok]
FitToken(layout, fit) == [layout EXCEPT !.segs = fit.segs, !.ok = @ /\ fit.ok]
PutToken(layout, t) ==
    IF t.len = 0 THEN layout
    ELSE FitToken(layout, FitSegmentInUntagged(layout.segs, Segment(t.origin, t.final, t.len, "held")))
PutUnlessHeld(layout, tok) ==
    PutToken(layout, IF layout.final THEN tok ELSE SkipHeld(layout.segs, tok))
LayoutFits(layout) == [layout EXCEPT !.ok = @ /\ SumLen(layout.segs) =< BlockSize]
CompileLayout(node) ==
    LET held == SelectSeq(node.tokens, LAMBDA nt : ~(node.isFinal /\ nt.dst = node.block))
    IN  LayoutFits(FoldLeft(PutUnlessHeld,
            [ok |-> TRUE, final |-> node.isFinal,
             segs |-> IF node.isFinal THEN node.blockFinalLayout ELSE WholeBlock(node.block)],
            FlattenSeq([i \in DOMAIN held |-> held[i].toks])))

-----------------------------------------------------------------------------
(* Code generation                                                         *)

\* extractDataNecessaryInSecondary: what the nodes hold that now lies in a block.
NecessaryPiece(acc, p) ==
    [acc EXCEPT !.at = @ + p.len,
                !.segs = IF BlockOf(p.src) # acc.block THEN @
                         ELSE InsertNewSegment(@, Segment(acc.at, acc.at, p.len, "held"))]
NecessaryToken(acc, tok) ==
    FoldLeft(NecessaryPiece, [acc EXCEPT !.at = tok.origin], Translate(acc.table, tok.origin, tok.len))
TokensIn(nts) == FlattenSeq([i \in DOMAIN nts |-> nts[i].toks])
ExtractDataNecessary(w, nodes, b) ==
    CompactSegments(FoldLeft(NecessaryToken, [at |-> 0, block |-> b, table |-> w.table, segs |-> <<>>],
                             TokensIn(FlattenSeq([i \in DOMAIN nodes |-> nodes[i].tokens]))).segs)
LoadNecessary(w, nodes, b) == LoadTaggedToTMP(w, ExtractDataNecessary(w, nodes, b))

CacheIsEmpty(w) == TaggedOnly(w.cache) = <<>>
NothingLeft(w)  == Assertion(w, CacheIsEmpty(w))
KeptFor(w, node) == w.pending.has /\ w.pending.block = node.block

\* The writes of a half swap: the second block gets its final form, the first takes
\* the place of the second in the table.
WriteHalf(w, sec, b) ==
    IF b = sec.block THEN WriteTaggedToBlock(w, b, sec.blockFinalLayout, FALSE)
    ELSE FlushCacheToBlock(w, b, sec.block, TRUE)

\* Those of a network swap: the last is kept back, unless its block is final.
WriteLast(w, cur, other, segs) ==
    IF cur.isFinal THEN NothingLeft(WriteTaggedToBlock(w, cur.block, segs, FALSE))
    ELSE CacheWrite(w, cur.block, segs, other.block, TRUE)
WriteCompiled(w, cur, other, firstWrite, layout) ==
    IF firstWrite THEN WriteTaggedToBlock(Assertion(w, layout.ok), cur.block, layout.segs, ~cur.isFinal)
    ELSE WriteLast(Assertion(w, layout.ok), cur, other, layout.segs)
WriteNetwork(w, cur, other, firstWrite) ==
    WriteCompiled(w, cur, other, firstWrite, CompileLayout(cur))

\* partialSwapCodeGeneration: save what is needed of block `one`, write it, save what
\* is needed of block `two`, write it.  A write kept back to either of them is merged
\* with this one; in a half swap, only one to the second.
SwapWrite(w, sw, n) ==
    IF sw.half THEN WriteHalf(w, sw.nodes[2], n.block)
    ELSE WriteNetwork(w, n, IF n = sw.one THEN sw.two ELSE sw.one, n = sw.one)
EraseAndWrite(w, sw, n) == SwapWrite(Emit(w, ERASE(n.block)), sw, n)
SwapSecond(w, sw) ==
    IF sw.two.isFinal \/ ~CacheIsEmpty(w)
    THEN EraseAndWrite(LoadNecessary(w, <<sw.two>>, sw.two.block), sw, sw.two) ELSE w
SwapFirst(w, sw, merge) ==
    EraseAndWrite(IF merge THEN DropCachedWrite(w)
                  ELSE LoadNecessary(CommitCachedWrite(w), sw.nodes, sw.one.block), sw, sw.one)
SwapFrom(w, first, sec, half, reverse) ==
    LET sw == [half |-> half, nodes |-> <<first, sec>>,
               one |-> IF reverse THEN first ELSE sec, two |-> IF reverse THEN sec ELSE first]
    IN  SwapSecond(SwapFirst(w, sw, reverse \/ KeptFor(w, sec)), sw)
PartialSwap(w, first, sec, half) == SwapFrom(w, first, sec, half, ~half /\ KeptFor(w, first))

HalfSwapCodeGeneration(w, first, sec)    == PartialSwap(w, first, sec, TRUE)
NetworkSwapCodeGeneration(w, first, sec) == PartialSwap(w, first, sec, FALSE)

\* reorderingSwapCodeGeneration: both blocks get their final form.  A write kept back
\* to either of them is not emitted: that block goes first.
WriteFinal(w, node) == WriteTaggedToBlock(w, node.block, node.blockFinalLayout, FALSE)
ReorderFirst(w, nodes, one, merge) ==
    IF one.isFinal THEN w
    ELSE WriteFinal(IF merge THEN w ELSE Emit(LoadNecessary(w, nodes, one.block), ERASE(one.block)), one)
SortedBySource(segs) == StableSort(segs, LAMBDA a, b : a.src < b.src)
ReorderSecond(w, two) ==
    WriteFinal(Emit(LoadTaggedToTMP(w, SortedBySource(ExtractDataNecessary(w, <<two>>, two.block))),
                    ERASE(two.block)), two)
ReorderFrom(w, first, sec, atFirst, reverse) ==
    LET merge == atFirst \/ reverse
        ready == IF merge THEN DropCachedWrite(w) ELSE CommitCachedWrite(w)
    IN  NothingLeft(ReorderSecond(
            ReorderFirst(ready, <<first, sec>>, IF reverse THEN sec ELSE first, merge),
            IF reverse THEN first ELSE sec))
ReorderingSwapCodeGeneration(w, first, sec) ==
    LET atFirst == KeptFor(w, first) /\ ~first.isFinal
    IN  ReorderFrom(w, first, sec, atFirst, ~atFirst /\ KeptFor(w, sec))

PackNode(w, node, layout) ==
    WriteTaggedToBlock(Assertion(w, layout.ok), node.block, layout.segs, FALSE)
PullDataToNode(w, node) ==
    PackNode(Emit(LoadNecessary(CommitCachedWrite(w), <<node>>, node.block), ERASE(node.block)),
             node, CompileLayout(node))

-----------------------------------------------------------------------------
(* The nodes                                                               *)

\* buildNetworkTokenArray: one network token for each pair of blocks.
PairOf(t) == <<BlockOf(t.origin), BlockOf(t.final)>>
TokenOfPair(data, p) == NetworkToken(SelectSeq(data, LAMBDA t : PairOf(t) = p), p[1], p[2])
GroupByPair(data, pairs) == [i \in DOMAIN pairs |-> TokenOfPair(data, pairs[i])]
SortedPairs(pairs, ids) ==
    SelectSeq(FlattenSeq([i \in DOMAIN ids |-> [j \in DOMAIN ids |-> <<ids[i], ids[j]>>]]),
              LAMBDA p : p \in pairs)
TokensOfPairs(data, pairs) ==
    GroupByPair(data, SortedPairs(pairs, Ordered(UNION {{p[1], p[2]} : p \in pairs})))
TokensOfData(data) == TokensOfPairs(data, {PairOf(data[i]) : i \in DOMAIN data})
BuildNetworkTokenArray(blocks, members) ==
    LET ks == Ordered(members) IN TokensOfData(FlattenSeq([i \in DOMAIN ks |-> blocks[ks[i]].data]))

NewNetworkNode(block, all) ==
    NodeOf(block.blockID, SelectSeq(all, LAMBDA t : t.src = block.blockID)
               \o SelectSeq(all, LAMBDA t : t.dst = block.blockID
                                            /\ t.src \in block.blocksWithDataForCurrent))

\* nodeIndex: looking for a block that is not in the network puts it in the index,
\* at the first node.
NodeIndex(net, b) ==
    {i \in DOMAIN net.nodes : net.nodes[i].block = b} \cup IF b \in net.astray THEN {1} ELSE {}
FindNodeWithBlock(net, b) == LET at == NodeIndex(net, b) IN IF at = {} THEN 1 ELSE Min(at)

\* computeLinkWeigth: a link with as much to send back is worth most.
WeightOf(back, length) ==
    3 * Min({back, length}) - 2 * (IF back > length THEN back - length ELSE length - back)
LengthOfFirst(tokens, at) == IF at = {} THEN 0 ELSE tokens[Min(at)].length
SentBack(dest, b) ==
    IF dest.nbSourcesOut = 0 THEN 0
    ELSE LengthOfFirst(dest.tokens, {i \in DOMAIN dest.tokens :
                                        ~dest.tokens[i].cleared /\ dest.tokens[i].dst = b})
ComputeLinkWeight(net, nt) ==
    LET at == NodeIndex(net, nt.dst)
    IN  WeightOf(IF at = {} THEN 0 ELSE SentBack(net.nodes[Min(at)], nt.src), nt.length)

\* The first index of the largest value.
FirstWith(weight, top) == Min({i \in DOMAIN weight : weight[i] = top})
Largest(weight)  == Max({weight[i] : i \in DOMAIN weight})
Heaviest(weight) == FirstWith(weight, Largest(weight))

LowestWeight == -1000000   \* INT64_MIN
SetLargest(node, weight) ==
    IF node.isFinal \/ node.nbSourcesOut = 0 THEN [node EXCEPT !.largestToken = 1]
    ELSE IF DOMAIN weight = {} THEN [node EXCEPT !.largestTokenWeight = LowestWeight]
    ELSE [node EXCEPT !.largestTokenWeight = Largest(weight), !.largestToken = Heaviest(weight)]
LinkWeights(net, node) ==
    [k \in {k \in DOMAIN node.tokens : node.tokens[k].dst # node.block} |->
        ComputeLinkWeight(net, node.tokens[k])]
RefreshLargestToken(net, i) ==
    [net EXCEPT !.nodes[i] = SetLargest(@, LinkWeights(net, net.nodes[i]))]

NodesOf(blocks, ks, all) == [i \in DOMAIN ks |-> NewNetworkNode(blocks[ks[i]], all)]
NewNetwork(blocks, members, s) ==
    FoldLeft(RefreshLargestToken,
             [nodes |-> NodesOf(blocks, Ordered(members), BuildNetworkTokenArray(blocks, members)),
              w |-> NewVirtualMemory({blocks[k].blockID : k \in members}, s), astray |-> {}],
             [i \in 1 .. Cardinality(members) |-> i])

\* findLargestToken: the best link of the nodes not final; 0 when there is none.
Open(n)   == n.nbSourcesOut # 0 /\ ~n.isFinal
LinkOf(n) == n.tokens[n.largestToken]
HasLink(n) == /\ Open(n) /\ n.largestToken \in DOMAIN n.tokens
              /\ ~LinkOf(n).cleared /\ LinkOf(n).src # LinkOf(n).dst
RefreshIfNeeded(net, i) ==
    IF Open(net.nodes[i]) /\ net.nodes[i].needRefreshLargestToken
    THEN [RefreshLargestToken(net, i) EXCEPT !.nodes[i].needRefreshLargestToken = FALSE] ELSE net
Bonus(pending, t) ==
    CASE pending.has /\ pending.block = t.dst -> 5
      [] pending.has /\ pending.block = t.src /\ pending.block # t.dst -> 3
      [] OTHER -> 0
NodeWeights(net) ==
    [i \in {i \in DOMAIN net.nodes : HasLink(net.nodes[i])} |->
        net.nodes[i].largestTokenWeight + Bonus(net.w.pending, LinkOf(net.nodes[i]))]
Found(net, weight) == [net |-> net, at |-> IF DOMAIN weight = {} THEN 0 ELSE Heaviest(weight)]
FoundIn(net) == Found(net, NodeWeights(net))
FindLargestToken(net) ==
    FoundIn(FoldLeft(RefreshIfNeeded, net, [i \in DOMAIN net.nodes |-> i]))

-----------------------------------------------------------------------------
(* A node takes the data of another over (tookOverNode).                    *)

\* Both sequences are walked in the order of their destinations.  won is what the
\* other node has for this one; with keepAll nothing is dropped.
RECURSIVE MergeTokens(_, _, _, _, _, _)
MergeTokens(mine, theirs, b, other, keepAll, acc) ==
    LET m == Head(mine)
        t == Head(theirs)
        rest(a) == MergeTokens(Tail(mine), theirs, b, other, keepAll, a)
        next(a) == MergeTokens(mine, Tail(theirs), b, other, keepAll, a)
        win(a)  == [a EXCEPT !.won = <<t>>]
        count(a) == [a EXCEPT !.sumOut = @ + t.length, !.nbSourcesOut = @ + 1]
        import(a) == count([a EXCEPT !.out = Append(@, [t EXCEPT !.src = b])])
        joined  == [acc EXCEPT !.out = Append(@, [m EXCEPT !.length = @ + t.length, !.toks = @ \o t.toks])]
    IN  CASE mine = <<>> /\ theirs = <<>> -> acc
          [] mine # <<>> /\ m.dst = other /\ ~keepAll ->
                rest([acc EXCEPT !.sumOut = @ - m.length, !.nbSourcesOut = @ - 1])
          [] mine # <<>> /\ theirs = <<>> /\ (m.dst # other \/ keepAll) ->
                rest([acc EXCEPT !.out = Append(@, m)])
          [] mine = <<>> /\ theirs # <<>> ->
                next(CASE t.dst = other /\ ~keepAll -> acc
                       [] t.dst = b /\ ~keepAll -> win(acc)
                       [] OTHER -> import(acc))
          [] OTHER ->
                CASE t.dst = other /\ ~keepAll -> next(acc)
                  [] m.dst > t.dst -> next(IF t.dst = b THEN win(acc) ELSE import(acc))
                  [] m.dst = t.dst ->
                       MergeTokens(Tail(mine), Tail(theirs), b, other, keepAll,
                                   CASE t.dst # b -> [joined EXCEPT !.sumOut = @ + t.length]
                                     [] t.dst = b /\ ~keepAll -> win(joined)
                                     [] OTHER -> joined)
                  [] OTHER -> rest([acc EXCEPT !.out = Append(@, m)])

PutWon(out, won, self, above) ==
    IF self # {} THEN [out EXCEPT ![Min(self)].toks = @ \o won.toks, ![Min(self)].length = @ + won.length]
    ELSE InsertAt(out, IF above = {} THEN Len(out) + 1 ELSE Min(above), won)
WithWon(out, won, b) ==
    IF won = <<>> THEN out
    ELSE PutWon(out, [won[1] EXCEPT !.src = b], {i \in DOMAIN out : out[i].dst = b},
                                                {i \in DOMAIN out : out[i].dst > b})
AfterMerge(node, end) ==
    [node EXCEPT !.tokens = WithWon(end.out, end.won, node.block),
                 !.sumOut = end.sumOut, !.nbSourcesOut = end.nbSourcesOut]
TookOverNode(node, pulled, keepAll) ==
    AfterMerge(node, MergeTokens(node.tokens, pulled.tokens, node.block, pulled.block, keepAll,
                                 [out |-> <<>>, won |-> <<>>, sumOut |-> node.sumOut,
                                  nbSourcesOut |-> node.nbSourcesOut]))
=============================================================================
