---------------------------- MODULE NetworkSolving ----------------------------
(***************************************************************************)
(* One step of a network: Network::performBestSwap, and what is left at     *)
(* the end, performFinalFlush (networks.cpp).                              *)
(***************************************************************************)
EXTENDS Networks

\* sourcesForFinal: the blocks where the final data of a node is now, and the block
\* a write kept back will move it to.
WithKept(others, pending) ==
    others \cup (IF pending.has /\ pending.other \in others THEN {pending.block} ELSE {})
BlocksOf(pieces) == {BlockOf(pieces[i].src) : i \in DOMAIN pieces}
PiecesOf(table, segs) ==
    FlattenSeq([i \in DOMAIN segs |-> Translate(table, segs[i].src, segs[i].len)])
SourcesForFinal(net, node) ==
    WithKept(BlocksOf(PiecesOf(net.w.table, node.blockFinalLayout)) \ {node.block}, net.w.pending)

\* What of a token was not siphoned by the node that is final now; `kept` says that
\* the holder of the token is the block of the write kept back.
WantedBy(node, at, len) ==
    \E i \in DOMAIN node.blockFinalLayout :
        LET seg == node.blockFinalLayout[i] IN Tagged(seg) /\ Overlap(at, len, seg.src, seg.len)
Siphoned(acc, p) ==
    /\ BlockOf(p.src) = acc.final.block
    /\ acc.kept => WantedBy(acc.final, acc.origin + acc.shift, p.len)
SiphonPiece(acc, p) ==
    [acc EXCEPT !.shift = @ + p.len,
                !.segs = IF ~Siphoned(acc, p) THEN @
                         ELSE InsertNewSegment(@, Segment(acc.shift, acc.shift, p.len, "free"))]
PartsOf(tok, left) ==
    [i \in DOMAIN left |-> Token(tok.final + left[i].src, left[i].len, tok.origin + left[i].src)]
NotSiphoned(net, final, kept, tok) ==
    PartsOf(tok, TaggedOnly(FoldLeft(SiphonPiece,
        [shift |-> 0, origin |-> tok.origin, final |-> final, kept |-> kept,
         segs |-> << Segment(0, 0, tok.len, "held") >>],
        Translate(net.w.table, tok.origin, tok.len)).segs))

\* pulledEverythingForNode: a node is final; its sources hold nothing for it any more,
\* nor what went to it with its data.  e is a token of a source, what is left of it,
\* and whether it was for the final node; the node is built again token by token.
Forget(node, outgoing, length) ==
    [node EXCEPT !.nbSourcesOut = IF outgoing THEN @ - 1 ELSE @,
                 !.sumOut = @ - length,
                 !.largestToken = IF @ > Len(node.tokens) + 1 THEN @ - 1 ELSE @,
                 !.needRefreshLargestToken = @ \/ node.largestToken = Len(node.tokens) + 1]
CountLost(node, outgoing, lost) ==
    [node EXCEPT !.needRefreshLargestToken = @ \/ lost # 0,
                 !.sumOut = IF outgoing THEN @ - lost ELSE @]
DropPart(node, e, outgoing, lost) ==
    CASE e.nt.cleared \/ (lost = 0 /\ e.left # <<>>) -> [node EXCEPT !.tokens = Append(@, e.nt)]
      [] ~e.nt.cleared /\ e.left = <<>> -> Forget(CountLost(node, outgoing, lost), outgoing, 0)
      [] OTHER -> [CountLost(node, outgoing, lost) EXCEPT
                      !.tokens = Append(@, [e.nt EXCEPT !.toks = e.left, !.length = @ - lost])]
DropToken(node, e) ==
    IF e.wanted THEN Forget(node, TRUE, e.nt.length)
    ELSE DropPart(node, e, e.nt.dst # node.block, SumLen(e.nt.toks) - SumLen(e.left))
LeftOf(net, final, kept, nt) ==
    [nt |-> nt, wanted |-> nt.dst = final.block,
     left |-> FlattenSeq([i \in DOMAIN nt.toks |-> NotSiphoned(net, final, kept, nt.toks[i])])]
DropSiphoned(net, final, node) ==
    FoldLeft(DropToken, [node EXCEPT !.tokens = <<>>],
             [i \in DOMAIN node.tokens |-> LeftOf(net, final, KeptFor(net.w, node), node.tokens[i])])

\* sumOut must agree with the tokens, before and after; nbSourcesOut never wraps.
TotalWith(node, b) ==
    TotalLength(SelectSeq(node.tokens, LAMBDA t : ~(t.cleared \/ t.dst = node.block) \/ t.dst = b))
AfterPull(net, k, hit, nodes) ==
    [net EXCEPT !.nodes = nodes,
                !.w = Assertion(@, \A i \in hit :
                          /\ net.nodes[i].sumOut = TotalWith(net.nodes[i], net.nodes[k].block)
                          /\ nodes[i].sumOut = TotalLength(Outgoing(nodes[i]))
                          /\ nodes[i].nbSourcesOut >= 0)]
PullFrom(net, k, hit) ==
    AfterPull(net, k, hit,
        [i \in DOMAIN net.nodes |->
            CASE i = k -> [net.nodes[k] EXCEPT !.isFinal = TRUE]
              [] i \in hit -> DropSiphoned(net, net.nodes[k], net.nodes[i])
              [] OTHER -> net.nodes[i]])
PulledEverythingForNode(net, k, sources) ==
    PullFrom(net, k, {i \in DOMAIN net.nodes \ {k} :
                         net.nodes[i].block \in sources /\ ~net.nodes[i].isFinal})

-----------------------------------------------------------------------------
(* dispatchInNodes: what two nodes hold for others is shared out between     *)
(* them, whole tokens first, the largest one split if it must be.            *)

Longest(tokens) == StableSort(tokens, LAMBDA a, b : a.length > b.length)

\* The tokens of the pool, from the i-th on, that fit in what is left of a node.
RECURSIVE FillNode(_, _, _, _)
FillNode(pool, node, i, space) ==
    IF i > Len(pool.tokens) \/ space = 0 THEN [pool |-> pool, node |-> node, space |-> space]
    ELSE LET nt == pool.tokens[i]
         IN  IF nt.length > space THEN FillNode(pool, node, i + 1, space)
             ELSE FillNode(RemoveOverlapWithToken([pool EXCEPT !.tokens = RemoveAt(@, i)], <<nt>>),
                           AppendToken(node, [nt EXCEPT !.src = node.block]), i, space - nt.length)

\* d: pool, node1, node2, the room left in each, the bytes of the pool still to be
\* allocated, and whether the assertions hold.
NeedsShrink(node, level) ==
    node.tokens # <<>> /\ Head(node.tokens).length # level /\ ~node.isFinal
Shrink(node, level) ==
    IF NeedsShrink(node, level) THEN [node EXCEPT !.tokens[1] = RemoveInternalOverlap(@)] ELSE node
CountsAllBytes(d) == [d EXCEPT !.ok = @ /\ d.lengthToAllocate = OccupationLevel(d.pool)]
Filled(d, which, room, f, ok) ==
    CountsAllBytes([d EXCEPT ![which] = f.node, !.pool = f.pool, !.space = [@ EXCEPT ![which] = f.space],
                             !.lengthToAllocate = @ - (room - f.space), !.ok = @ /\ ok])
FillReady(d, which, level, ready) ==
    Filled(d, which, BlockSize - level,
           FillNode([d.pool EXCEPT !.tokens = Longest(@)], ready, 1, BlockSize - level),
           /\ level =< BlockSize
           /\ NeedsShrink(d[which], level) => Len(ready.tokens) = 1 /\ Head(ready.tokens).length = level)
FillAtLevel(d, which, level) == FillReady(d, which, level, Shrink(d[which], level))
FillOne(d, which) == FillAtLevel(d, which, OccupationLevel(d[which]))

\* Overlaps may leave several large tokens: the rest is cut by the first one and
\* the nodes are filled again, unless that was done for this one before.
RECURSIVE FillBoth(_, _)
FillCut(d, front, rest) ==
    LET cut == [d EXCEPT !.pool = [rest EXCEPT !.tokens = <<front>> \o @]]
    IN  IF rest.tokens = <<>> THEN cut ELSE FillBoth(cut, <<front.src, front.dst>>)
FillAgain(d, again, front) ==
    IF again = <<front.src, front.dst>> THEN d
    ELSE FillCut(d, front, RemoveOverlapWithToken([d.pool EXCEPT !.tokens = Tail(@)], <<front>>))
AfterFill(d, again) ==
    IF Len(d.pool.tokens) =< 1 THEN d ELSE FillAgain(d, again, Head(d.pool.tokens))
FillBoth(d, again) == AfterFill(FillOne(FillOne(d, "node1"), "node2"), again)

\* The last token is split over what room there is, most of it first.
GiveToken(acc, which, n, left, sub) ==
    [d |-> [acc.d EXCEPT ![which] = AppendToken(@, sub)], left |-> acc.left - n,
     nt |-> RemoveOverlapWith(left, <<sub>>)]
GiveCut(acc, which, n, cut) ==
    GiveToken(acc, which, n, cut.left,
              NetworkToken(cut.out, acc.d[which].block,
                           IF cut.out = <<>> THEN 0 ELSE BlockOf(Head(cut.out).final)))
GiveSome(acc, which, n) == GiveCut(acc, which, n, ExtractSubsequence(acc.nt, n))
Give(acc, which) ==
    IF acc.left = 0 THEN acc ELSE GiveSome(acc, which, Min({acc.d.space[which], acc.left}))
AllGiven(acc) == [acc.d EXCEPT !.ok = @ /\ acc.left = 0]
SplitLast(d) ==
    AllGiven(FoldLeft(Give, [d |-> d, left |-> d.lengthToAllocate, nt |-> Head(d.pool.tokens)],
                      IF d.space["node1"] >= d.space["node2"] THEN <<"node1", "node2">>
                      ELSE <<"node2", "node1">>))

DispatchRest(d) ==
    IF d.lengthToAllocate = 0 THEN d
    ELSE IF Len(d.pool.tokens) # 1 THEN [d EXCEPT !.ok = FALSE]
    ELSE SplitLast(d)
FitInBlocks(d) ==
    [d EXCEPT !.ok = @ /\ \A node \in {d.node1, d.node2} :
                             OccupationLevel(node) =< BlockSize /\ TotalLength(node.tokens) =< BlockSize]
Dispatch(pool, node1, node2, level) ==
    FitInBlocks(DispatchRest(FillBoth(
        [pool |-> pool, node1 |-> node1, node2 |-> node2, space |-> [node1 |-> 0, node2 |-> 0],
         lengthToAllocate |-> level, ok |-> level =< 2 * BlockSize], <<>>)))
DispatchInNodes(pool, node1, node2) == Dispatch(pool, node1, node2, OccupationLevel(pool))

-----------------------------------------------------------------------------
(* performToken: the data of two nodes is put together, each gets its own   *)
(* part back, one or both become final if all of it fits, and the rest is    *)
(* shared out.  t is the two nodes, the pool of the rest, and whether the     *)
(* assertions hold.                                                        *)

WithoutToken(node, b) == [node EXCEPT !.tokens = RemoveAt(@, LowerBound(@, b))]
TokenTo(node, b) == node.tokens[LowerBound(node.tokens, b)]
HasOwn(node)     == Holds(node.tokens, node.block)
WithoutOwn(node) == IF HasOwn(node) THEN WithoutToken(node, node.block) ELSE node
OwnToken(node)   == IF HasOwn(node) THEN <<RemoveInternalOverlap(TokenTo(node, node.block))>> ELSE <<>>
WithLayout(new, node) == [new EXCEPT !.blockFinalLayout = node.blockFinalLayout,
                                     !.lengthFinalLayout = node.lengthFinalLayout]

\* Each node gets its own part.
Shares(source, dest, super, own, core) ==
    [src  |-> WithLayout(NodeOf(source.block, own), source),
     dst  |-> WithLayout(NodeOf(dest.block, <<core>>), dest),
     pool |-> RemoveOverlapWithToken(WithoutToken(super, dest.block), <<core>> \o own), ok |-> TRUE]
Share(source, dest, super) ==
    Shares(source, dest, super, OwnToken(source),
           RemoveInternalOverlap([TokenTo(super, dest.block) EXCEPT !.src = dest.block, !.cleared = FALSE]))

\* The data the destination has for the source goes to it, unless it would count
\* twice.  When the blocks hold too much the subtraction wraps.
WithOwn(node, core) ==
    IF node.tokens = <<>> THEN [node EXCEPT !.tokens = <<core>>]
    ELSE [node EXCEPT !.tokens[1] = [@ EXCEPT !.length = @ + core.length, !.toks = @ \o core.toks]]
JoinOwn(t, core, used) ==
    IF used > 2 * BlockSize \/ OverlapWith(core, Head(t.dst.tokens)) =< 2 * BlockSize - used
    THEN [t EXCEPT !.src = WithOwn(@, core), !.pool = WithoutToken(@, t.src.block)] ELSE t
GiveBack(t) ==
    IF ~Holds(t.pool.tokens, t.src.block) THEN t
    ELSE JoinOwn(t, TokenTo(t.pool, t.src.block),
                 OccupationLevel(t.src) + OccupationLevel(t.dst) + OccupationLevel(t.pool))

\* With the rest in the way, what both hold stays with the destination.
Relieve(t, room) ==
    IF OccupationLevel(t.src) + OccupationLevel(t.dst) =< room THEN t
    ELSE [t EXCEPT !.src = RemoveOverlapWithToken(@, t.dst.tokens)]

\* Who can get all of its final data in the room there is: the destination first.
WhoIsFinal(t, room) ==
    IF t.src.lengthFinalLayout + t.dst.lengthFinalLayout =< room THEN {"src", "dst"}
    ELSE IF OccupationLevel(t.src) + t.dst.lengthFinalLayout =< room THEN {"dst"}
    ELSE IF t.src.lengthFinalLayout + OccupationLevel(t.dst) =< room THEN {"src"} ELSE {}
PutFinal(t, which, final) == [t EXCEPT ![which] = final.node, !.ok = @ /\ final.ok]
SetFinalIf(w, t, which, neighbour, who) ==
    IF which \in who THEN PutFinal(t, which, SetFinal(w, t[which], neighbour)) ELSE t
SetFinals(w, t, who) ==
    SetFinalIf(w, SetFinalIf(w, t, "src", t.dst.block, who), "dst", t.src.block, who)
RelieveAndSetFinal(w, t, room) == LET r == Relieve(t, room) IN SetFinals(w, r, WhoIsFinal(r, room))
FinalsIn(w, t) == RelieveAndSetFinal(w, t, 2 * BlockSize - OccupationLevel(t.pool))

\* What is final takes from the pool, or else what the source has for itself.
FinalToken(node) ==
    IF node.isFinal THEN << [Head(node.tokens) EXCEPT !.toks = TokensOf(node.blockFinalLayout)] >>
    ELSE <<>>
Takers(t) ==
    LET finals == FinalToken(t.src) \o FinalToken(t.dst)
    IN  IF finals # <<>> \/ t.src.tokens = <<>> THEN finals ELSE <<Head(t.src.tokens)>>
ReducePool(t, takers) ==
    IF takers = <<>> THEN t ELSE [t EXCEPT !.pool = RemoveOverlapWithToken(@, takers)]
Reduced(t) == ReducePool(t, Takers(t))

\* d is what dispatchInNodes makes of t.  What the final nodes need is looked for
\* before the code is generated.
Failed(net) == [net EXCEPT !.w.ok = FALSE]
PullFor(after, net, k, node) ==
    IF node.isFinal THEN PulledEverythingForNode(after, k, SourcesForFinal(net, node)) ELSE after
StoreTokens(net, k, tokens) ==
    [net EXCEPT !.nodes[k] = RefreshOutgoingData([@ EXCEPT !.tokens = tokens])]
EmitToken(net, si, di, t, d) ==
    IF /\ t.ok /\ d.ok
       /\ \A node \in {t.src, t.dst} : node.isFinal => Len(node.tokens) = 1
    THEN StoreTokens(StoreTokens(
            PullFor(PullFor([net EXCEPT !.w = NetworkSwapCodeGeneration(@, d.node1, d.node2)],
                            net, si, t.src), net, di, t.dst),
            si, d.node1.tokens), di, d.node2.tokens)
    ELSE Failed(net)
DispatchToken(net, si, di, t) == EmitToken(net, si, di, t, DispatchInNodes(t.pool, t.src, t.dst))
ShareToken(net, si, di, super) ==
    IF Holds(super.tokens, net.nodes[di].block)
    THEN DispatchToken(net, si, di,
            Reduced(FinalsIn(net.w, GiveBack(Share(net.nodes[si], net.nodes[di], super)))))
    ELSE Failed(net)
PerformToken(net, si, di) ==
    ShareToken(net, si, di, TookOverNode(WithoutOwn(net.nodes[si]), net.nodes[di], TRUE))

-----------------------------------------------------------------------------
\* netNeedHalfSwap: unless the two only have links to each other.
NetNeedHalfSwap(source, dest) ==
    ~ /\ source.nbSourcesOut = 1
      /\ \/ dest.nbSourcesOut = 0
         \/ /\ dest.nbSourcesOut = 1
            /\ \E i \in DOMAIN dest.tokens : ~dest.tokens[i].cleared /\ dest.tokens[i].dst = source.block

\* The destination gets all it wants, the source takes its data over.
HalfSwap(net, si, di) ==
    PulledEverythingForNode(
        [net EXCEPT !.w = HalfSwapCodeGeneration(@, net.nodes[si], net.nodes[di]),
                    !.nodes[si] = TookOverNode(@, net.nodes[di], FALSE)],
        di, SourcesForFinal(net, net.nodes[di]))

\* Source and destination both become final.
RefreshNode(net, i) == [net EXCEPT !.nodes[i] = RefreshOutgoingData(@)]
BothFinal(net, si, di) ==
    RefreshNode(PulledEverythingForNode(PulledEverythingForNode(
        [net EXCEPT !.w = ReorderingSwapCodeGeneration(@, net.nodes[si], net.nodes[di])],
        di, SourcesForFinal(net, net.nodes[di])), si, SourcesForFinal(net, net.nodes[si])), si)

\* The nodes whose best link led to one of the two look for another one.
MarkNode(n, two) ==
    IF /\ ~n.isFinal /\ n.block \notin two /\ n.largestToken \in DOMAIN n.tokens
       /\ LinkOf(n).cleared \/ LinkOf(n).dst \in two
    THEN [n EXCEPT !.needRefreshLargestToken = TRUE] ELSE n
LinksToItself(n) ==
    /\ ~n.isFinal /\ ~n.needRefreshLargestToken /\ Len(n.tokens) > 1 /\ LinkOf(n).dst = LinkOf(n).src
MarkNodes(net, nodes, two) ==
    [net EXCEPT !.nodes = nodes,
                !.w = Assertion(@, \A i \in DOMAIN nodes : nodes[i].block \in two \/ ~LinksToItself(nodes[i]))]
MarkLinks(net, two) == MarkNodes(net, [i \in DOMAIN net.nodes |-> MarkNode(net.nodes[i], two)], two)
RefreshLinks(net, si, di) ==
    MarkLinks(RefreshLargestToken(RefreshLargestToken(net, si), di),
              {net.nodes[si].block, net.nodes[di].block})

\* performBestSwap, for the link found; FindLargestToken says when there is none.
\* A block that is not in the network is looked up as the first node.  When that is
\* the source itself the code goes on with one object for both: what it emits then is
\* not modelled, it counts as an abort.
SwapNodes(net, si, di, length) ==
    IF length < net.nodes[di].sumOut THEN RefreshLinks(PerformToken(net, si, di), si, di)
    ELSE IF NetNeedHalfSwap(net.nodes[si], net.nodes[di])
    THEN RefreshLinks(RefreshNode(HalfSwap(net, si, di), di), si, di)
    ELSE RefreshNode(BothFinal(net, si, di), di)
NoLinkToItself(net) ==
    \A i \in DOMAIN net.nodes :
        Open(net.nodes[i]) => LinkOf(net.nodes[i]).dst # LinkOf(net.nodes[i]).src
TakeLink(net, si, di, best) ==
    [net EXCEPT !.nodes[si].tokens[net.nodes[si].largestToken].cleared = TRUE,
                !.astray = IF net.nodes[di].block = best.dst THEN @ ELSE @ \cup {best.dst}]
SwapWith(net, si, di, best) ==
    IF net.nodes[di].isFinal \/ di = si \/ ~NoLinkToItself(net)
    THEN Failed(TakeLink(net, si, di, best))
    ELSE SwapNodes(TakeLink(net, si, di, best), si, di, best.length)
PerformBestSwap(net, si) ==
    SwapWith(net, si, FindNodeWithBlock(net, LinkOf(net.nodes[si]).dst), LinkOf(net.nodes[si]))

\* performFinalFlush: a node that only takes data from outside the network.
FlushNode(net, i) ==
    IF net.nodes[i].isFinal THEN net
    ELSE [net EXCEPT !.nodes[i].isFinal = TRUE,
                     !.w = PullDataToNode(@, [net.nodes[i] EXCEPT !.isFinal = TRUE])]
PerformFinalFlush(net) == FoldLeft(FlushNode, net, [i \in DOMAIN net.nodes |-> i])
=============================================================================
