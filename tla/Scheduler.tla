------------------------------ MODULE Scheduler ------------------------------
(***************************************************************************)
(* Hugin's scheduler: from the moves an update needs to the commands the    *)
(* device runs (scheduler_passes.cpp, and generateInstructions of          *)
(* scheduler.h).                                                           *)
(*                                                                         *)
(* target says, for each byte of the new image, which byte of the old one   *)
(* it is, or Nothing.  The passes handle the blocks that depend on nothing,  *)
(* then those nobody depends on any more, then the networks.  A failed       *)
(* assertion aborts: no plan comes out.                                     *)
(***************************************************************************)
EXTENDS NetworkSolving

-----------------------------------------------------------------------------
(* The dependency graph of an update: graph.cpp, Block.h, Token.h and the     *)
(* helpers of scheduler_utils.cpp.  A block of the new image has the tokens   *)
(* that fill it, the other blocks it takes data from and those that still     *)
(* need its own.                                                              *)

RECURSIVE MutantInsertToken(_)
\* Mutant: a move is cut where its source meets the end of a block only.
MutantInsertToken(move) ==
    LET left == Min({BlockSize - Offset(move.start), move.length})
    IN  IF move.length = 0 THEN <<>>
        ELSE << Token(move.dest, left, move.start) >>
             \o MutantInsertToken([start |-> move.start + left, length |-> move.length - left,
                                   dest |-> move.dest + left])

\* Token::insertToken cuts a move where its source or its destination meets the
\* end of a block.  A move is [start, length, dest].
RECURSIVE InsertToken(_)
InsertToken(move) ==
    LET left == Min({BlockSize - Offset(move.start), BlockSize - Offset(move.dest), move.length})
    IN  IF move.length = 0 THEN <<>>
        ELSE << Token(move.dest, left, move.start) >>
             \o InsertToken([start |-> move.start + left, length |-> move.length - left,
                             dest |-> move.dest + left])

\* compileBlock
CompiledBlock(b, data) ==
    LET origins == {BlockOf(data[i].origin) : i \in DOMAIN data}
    IN  [blockID |-> b, data |-> data, blockNeedSwap |-> b \in origins, blockFinished |-> FALSE,
         blocksWithDataForCurrent |-> origins \ {b}, blocksRequestingData |-> {}]

CrossRefsBlocks(blocks) ==
    [i \in DOMAIN blocks |-> [blocks[i] EXCEPT !.blocksRequestingData =
        {blocks[j].blockID : j \in {k \in DOMAIN blocks :
            blocks[i].blockID \in blocks[k].blocksWithDataForCurrent}}]]

BuildBlockVector(moves) ==
    LET tokens == SortSeq(FlattenSeq([i \in DOMAIN moves |-> InsertToken(moves[i])]),
                          LAMBDA a, b : a.final < b.final)
        ids    == Ordered({BlockOf(tokens[i].final) : i \in DOMAIN tokens})
    IN  CrossRefsBlocks([i \in DOMAIN ids |->
            CompiledBlock(ids[i], SelectSeq(tokens, LAMBDA t : BlockOf(t.final) = ids[i]))])

\* indexOfBlockID is a lower bound: a block that is not there gives the next one.
IndexOfBlockID(blocks, b) ==
    LET later == {i \in DOMAIN blocks : blocks[i].blockID >= b}
    IN  IF later = {} THEN Len(blocks) + 1 ELSE Min(later)

Isolated(block) ==
    ~block.blockFinished /\ block.blocksWithDataForCurrent = {} /\ block.blocksRequestingData = {}

\* Mutant: the block needs no other, instead of being needed by no other.
MutantUnrequested(block) == ~block.blockFinished /\ block.blocksWithDataForCurrent = {}

\* Nobody needs the data of the block any more.
Unrequested(block) == ~block.blockFinished /\ block.blocksRequestingData = {}

\* interpretBlockSort: a block whose own bytes move is rebuilt from the cache.
OwnTokens(block) == SelectSeq(block.data, LAMBDA t : BlockOf(t.origin) = block.blockID)
InterpretBlockSort(block) ==
    << LOAD_AND_FLUSH(block.blockID) >> \o
    [i \in DOMAIN OwnTokens(block) |->
        LET t == OwnTokens(block)[i] IN COPY(Cache + Offset(t.origin), t.len, t.final)]

\* What removeUnidirectionnalReferences emits for a block.
FillBlock(block) ==
    LET others == SelectSeq(block.data, LAMBDA t : BlockOf(t.origin) # block.blockID)
    IN  (IF block.blockNeedSwap THEN InterpretBlockSort(block) ELSE << ERASE(block.blockID) >>)
        \o [i \in DOMAIN others |-> COPY(others[i].origin, others[i].len, others[i].final)]

\* The blocks it took data from need not keep it any more.
ReleaseSources(blocks, k) ==
    LET sources == {IndexOfBlockID(blocks, b) : b \in blocks[k].blocksWithDataForCurrent}
    IN  [i \in DOMAIN blocks |->
            IF i \in sources THEN [blocks[i] EXCEPT !.blocksRequestingData = @ \ {blocks[k].blockID}]
            ELSE blocks[i]]
FinishBlocks(blocks, ks) ==
    [i \in DOMAIN blocks |-> IF i \in ks THEN [blocks[i] EXCEPT !.blockFinished = TRUE] ELSE blocks[i]]

\* extractNetwork: the blocks linked to block k, through those not finished.
Linked(blocks, k) ==
    {i \in {IndexOfBlockID(blocks, b) :
            b \in blocks[k].blocksRequestingData \cup blocks[k].blocksWithDataForCurrent} :
        i \in DOMAIN blocks /\ ~blocks[i].blockFinished}
RECURSIVE ExtractNetwork(_, _)
ExtractNetwork(blocks, members) ==
    LET more == members \cup UNION {Linked(blocks, k) : k \in members}
    IN  IF more = members THEN members ELSE ExtractNetwork(blocks, more)

-----------------------------------------------------------------------------
CONSTANTS NbBlocks,  \* blocks of the flash
          Targets    \* the images asked for

Bytes   == 0 .. NbBlocks * BlockSize - 1
Nothing == -1
ASSUME SchedulerAssumption ==
    /\ NbBlocks \in Nat \ {0} /\ CacheBlock >= NbBlocks
    /\ Targets \subseteq [Bytes -> Bytes \cup {Nothing}]

VARIABLES
    pc,       \* the pass that is next
    target,   \* the image asked for
    blocks,   \* vector<Block>
    s,        \* SchedulerData: the commands
    net,      \* the Network being solved
    members   \* the indexes of its blocks
vars == <<pc, target, blocks, s, net, members>>

NoCommands == [cmds |-> <<>>, open |-> FALSE, ok |-> TRUE]
NoNetwork  == [nodes |-> <<>>, w |-> NewVirtualMemory({}, NoCommands), astray |-> {}]

\* The moves of an image: its longest runs of consecutive bytes.
MovesOf(t) ==
    LET step(out, a) ==
          IF t[a] = Nothing THEN out
          ELSE IF out # <<>> /\ Last(out).dest + Last(out).length = a
                             /\ Last(out).start + Last(out).length = t[a]
          THEN [out EXCEPT ![Len(out)].length = @ + 1]
          ELSE Append(out, [start |-> t[a], length |-> 1, dest |-> a])
    IN  FoldLeft(step, <<>>, [i \in 1 .. NbBlocks * BlockSize |-> i - 1])

Init ==
    /\ target \in Targets
    /\ blocks = BuildBlockVector(MovesOf(target))
    /\ pc = "self"
    /\ s = NoCommands
    /\ net = NoNetwork /\ members = {}

-----------------------------------------------------------------------------
Transaction(t, cmds) == FinishTransaction(InsertCommands(NewTransaction(t), cmds))
Where(P(_)) == {k \in DOMAIN blocks : P(blocks[k])}

\* A pass goes on to the next one unless an assertion failed under it.
GoOn(holds, next) == pc' = IF holds THEN next ELSE "aborted"

\* removeSelfReferencesOnly
RemoveSelfReferencesOnly ==
    /\ pc = "self"
    /\ LET alone == Where(Isolated)
           sort(t, k) == IF k \in alone /\ blocks[k].blockNeedSwap
                         THEN Transaction(t, InterpretBlockSort(blocks[k])) ELSE t
           sorted == FoldLeft(sort, s, [k \in DOMAIN blocks |-> k])
       IN  /\ blocks' = FinishBlocks(blocks, alone)
           /\ s' = InsertCommand(sorted, REBASE)
    /\ GoOn(s'.ok, "unidirectional") /\ members' = {0}
    /\ UNCHANGED <<target, net>>

\* removeUnidirectionnalReferences: one block that nobody asks data of, in the
\* order of the scan, which starts again from the first block.  Until the networks,
\* members holds the last block handled.
RemoveUnidirectionnalReferences ==
    LET free == Where(Unrequested)
        next == {k \in free : \E last \in members : k > last}
        k    == Min(IF next = {} THEN free ELSE next)
    IN  /\ pc = "unidirectional" /\ free # {}
        /\ s' = Transaction(s, FillBlock(blocks[k]))
        /\ blocks' = ReleaseSources(FinishBlocks(blocks, {k}), k)
        /\ members' = {k}
        /\ GoOn(s'.ok, "unidirectional")
        /\ UNCHANGED <<target, net>>

EndUnidirectionnalReferences ==
    /\ pc = "unidirectional" /\ Where(Unrequested) = {}
    /\ s' = UpdateLastRebase(s)
    /\ pc' = "networks" /\ members' = {}
    /\ UNCHANGED <<target, blocks, net>>

\* removeNetworks: the network of the first block that is not finished.
Unfinished(block) == ~block.blockFinished
StartNetwork ==
    LET new == ExtractNetwork(blocks, {Min(Where(Unfinished))})
    IN  /\ pc = "networks" /\ Where(Unfinished) # {}
        /\ members' = new
        /\ net' = NewNetwork(blocks, new, InsertCommand(s, REBASE))
        /\ s' = net'.w.s
        /\ pc' = "swap"
        /\ UNCHANGED <<target, blocks>>

\* A step of the network, unless one of its assertions fails.
Solve(new, next) ==
    /\ net' = new
    /\ s' = new.w.s
    /\ GoOn(new.w.ok /\ s'.ok, next)

\* found is what findLargestToken returns.
SwapFound(found) == found.at # 0 /\ Solve(PerformBestSwap(found.net, found.at), "swap")
PerformBestSwapStep ==
    /\ pc = "swap" /\ SwapFound(FindLargestToken(net))
    /\ UNCHANGED <<target, blocks, members>>

\* No link is left: the write kept back is emitted, then the final flush.
Rebased(end) == [end EXCEPT !.w.s = UpdateLastRebase(@)]
FlushRest(found) ==
    /\ found.at = 0
    /\ Solve(Rebased(PerformFinalFlush([found.net EXCEPT !.w = CommitCachedWrite(@)])), "networks")
EndNetwork ==
    /\ pc = "swap" /\ FlushRest(FindLargestToken(net))
    /\ blocks' = FinishBlocks(blocks, members)
    /\ members' = {}
    /\ UNCHANGED target

\* generateInstructions
Generate ==
    /\ pc = "networks" /\ Where(Unfinished) = {}
    /\ s' = [s EXCEPT !.cmds = GenerateInstructions(@)]
    /\ pc' = "done"
    /\ UNCHANGED <<target, blocks, net, members>>

Next == \/ RemoveSelfReferencesOnly \/ RemoveUnidirectionnalReferences
        \/ EndUnidirectionnalReferences \/ StartNetwork \/ PerformBestSwapStep
        \/ EndNetwork \/ Generate

-----------------------------------------------------------------------------
(* The commands are given their meaning by Hugin's virtual machine, on a     *)
(* flash where byte a has the value a.                                       *)

Blank == NbBlocks * BlockSize
VM == INSTANCE VirtualMachine WITH
        Blocks <- 0 .. NbBlocks - 1, Blank <- Blank, WordSize <- Blank + 1
OldFlash == [b \in 0 .. NbBlocks - 1 |-> [o \in 0 .. BlockSize - 1 |-> Base(b) + o]]

\* getPublicCommand
PublicAddress(a) == <<IF IsCache(a) THEN VM!CACHE_BUF ELSE BlockOf(a), Offset(a)>>
PublicCommand(c) == VM!Command(c.command, PublicAddress(c.main), c.length, PublicAddress(c.sec))
Program == [i \in DOMAIN s.cmds |-> PublicCommand(s.cmds[i])]

Reached == VM!VMTrace(Program, OldFlash)[Len(s.cmds)]
ByteAt(vm, a) == vm.mem[PublicAddress(a)[1]][PublicAddress(a)[2]]

\* A block has its part of the new image.
IsTarget(vm, b) ==
    \A a \in Bytes : BlockOf(a) = b /\ target[a] # Nothing => ByteAt(vm, a) = target[a]

\* The plan that comes out does what was asked for: at any point between two
\* passes, and after the chains and the USE_BLOCK, the virtual machine accepts the
\* commands, and after the last one the flash has the new image.
PlanIsCorrect ==
    /\ pc # "aborted" => Reached.ok
    /\ pc = "done" => \A b \in 0 .. NbBlocks - 1 : IsTarget(Reached, b)

\* A block the scheduler calls finished has its final data, and keeps it: no later
\* swap may take it as a scratch block.
FinishedIsFinal ==
    pc # "aborted" =>
        /\ \A k \in DOMAIN blocks : blocks[k].blockFinished => IsTarget(Reached, blocks[k].blockID)
        /\ \A i \in DOMAIN net.nodes :
              net.nodes[i].isFinal /\ ~(net.w.pending.has /\ net.w.pending.block = net.nodes[i].block)
                  => IsTarget(Reached, net.nodes[i].block)

\* The bytes the nodes that are not final still want, of the old image.
StillWanted ==
    UNION {{a \in Bytes : \E i \in DOMAIN n.blockFinalLayout :
               LET seg == n.blockFinalLayout[i]
               IN  Tagged(seg) /\ seg.src =< a /\ a < SrcEnd(seg)} :
           n \in {net.nodes[i] : i \in {k \in DOMAIN net.nodes : ~net.nodes[k].isFinal}}}

\* The translation table and the cache layout tell the truth: a byte of the old
\* image that is still wanted is in the cache where the layout says, or else at the
\* address the table gives, although blocks are erased under it, writes are kept
\* back and the cache is defragmented.
TranslationIsTrue ==
    pc = "swap" => \A a \in StillWanted :
        LET parts == SegmentInCache(net.w.cache, a, 1)
            at    == IF parts[1].cached THEN parts[1].at ELSE Translate(net.w.table, a, 1)[1].src
        IN  ByteAt(Reached, at) = a

\* Each command can be encoded: what it reads and writes lies in one block of the
\* flash or of the cache, and a REBASE spans a power of two.
InOneBlock(a, n) == /\ BlockOf(a) \in 0 .. NbBlocks - 1 \cup {CacheBlock}
                    /\ Offset(a) + n =< BlockSize
Fits(c) ==
    CASE c.command = "REBASE" -> /\ c.main = Base(BlockOf(c.main))
                                 /\ pc = "done" => \E k \in 0 .. NbBlocks : c.length + 1 = 2 ^ k
      [] c.command = "COPY" -> c.length > 0 /\ InOneBlock(c.main, c.length) /\ InOneBlock(c.sec, c.length)
      [] c.command = "CHAINED_COPY" -> c.length > 0 /\ InOneBlock(c.main, c.length)
      [] c.command = "CHAINED_COPY_SKIP" -> c.length \in 1 .. MaxSkipLength
      [] OTHER -> InOneBlock(c.main, 0) /\ c.length \in 0 .. BlockSize
TypeOK ==
    /\ pc \in {"self", "unidirectional", "networks", "swap", "done", "aborted"}
    /\ target \in Targets /\ members \subseteq 0 .. NbBlocks
    /\ \A i \in DOMAIN s.cmds : Fits(s.cmds[i])

\* "Merge both REBASE if that wouldn't use an additional bit to store BlockID"
\* (scheduler_codegen_optim.cpp): a block is in the range of the last REBASE before it,
\* or its number would need more bits than the encoder writes.
RebaseCovers ==
    pc = "done" => \A i \in DOMAIN s.cmds :
        LET at    == LastRebase(s.cmds, i)
            range == BlockOf(s.cmds[at].main) .. BlockOf(s.cmds[at].main) + s.cmds[at].length
            uses  == s.cmds[i].command \notin {"REBASE", "RELEASE_BLOCK", "CHAINED_COPY_SKIP"}
        IN  uses /\ at # 0 => BlocksUsed(s.cmds[i]) \subseteq range

\* assert(!destination.isFinal) and the other assertions of the scheduler hold: every
\* image gets a plan, as "we can easily solve this one by vertue of knowing a solution
\* is possible" (networks.cpp).
NoAssertionFails == pc # "aborted"

\* "The ultimate goal is to always get nbSourcesOut down" (networks.cpp): each swap
\* makes a node final, or leaves fewer bytes to send.  So the loop of a network ends,
\* it never goes round in circles.
FinalNodes(n) == Cardinality({i \in DOMAIN n.nodes : n.nodes[i].isFinal})
LeftToSend(n) == SumLen([i \in DOMAIN n.nodes |->
                     [len |-> IF n.nodes[i].isFinal THEN 0 ELSE n.nodes[i].sumOut]])
Progress == \/ FinalNodes(net') > FinalNodes(net)
            \/ FinalNodes(net') = FinalNodes(net) /\ LeftToSend(net') < LeftToSend(net)
SwapProgress == [][pc = "swap" /\ pc' = "swap" => Progress]_vars
=============================================================================
