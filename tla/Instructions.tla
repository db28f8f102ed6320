----------------------------- MODULE Instructions -----------------------------
(***************************************************************************)
(* The instructions the scheduler emits and the passes over them:          *)
(* SchedulerData of hugin/Scheduler/scheduler.h and                        *)
(* scheduler_codegen_optim.cpp, as config.h builds it: every optimisation  *)
(* is on.                                                                  *)
(*                                                                         *)
(* An address is a number, its block the quotient by BlockSize.  The cache *)
(* is the block CacheBlock, above the flash.  s is the SchedulerData: the  *)
(* commands so far, whether a transaction is open, and whether the          *)
(* assertion of insertCommand has held.                                     *)
(***************************************************************************)
EXTENDS Integers, Sequences, SequencesExt, FiniteSetsExt

CONSTANTS BlockSize,         \* bytes in a block, a power of two
          CacheBlock,        \* the block number that stands for CACHE_BUF
          MaxSkipLength,     \* MAX_SKIP_LENGTH
          BlockUseThreshold  \* BLOCK_USE_THRESHOLD

ASSUME InstructionsAssumption ==
    /\ BlockSize \in Nat \ {0} /\ CacheBlock \in Nat
    /\ MaxSkipLength \in Nat /\ BlockUseThreshold \in Nat

BlockOf(a) == a \div BlockSize
Offset(a)  == a % BlockSize
Base(b)    == b * BlockSize
Cache      == Base(CacheBlock)
IsCache(a) == BlockOf(a) = CacheBlock

Cmd(name, main, len, sec) == [command |-> name, main |-> main, length |-> len, sec |-> sec]
COPY(from, len, to)  == Cmd("COPY", from, len, to)
ERASE(b)             == Cmd("ERASE", Base(b), 0, 0)
LOAD_AND_FLUSH(b)    == Cmd("LOAD_AND_FLUSH", Base(b), 0, 0)
REBASE               == Cmd("REBASE", 0, 0, 0)


\* Mutant: a copy of a part of a block passes for its load.
MutantIsLoad(c) == /\ c.command = "COPY" /\ Offset(c.main) = 0 /\ Offset(c.sec) = 0
                   /\ ~IsCache(c.main) /\ IsCache(c.sec)

\* A whole block is copied to the cache.
IsLoad(c) == /\ c.command = "COPY" /\ c.length = BlockSize
             /\ Offset(c.main) = 0 /\ Offset(c.sec) = 0
             /\ ~IsCache(c.main) /\ IsCache(c.sec)

IsCommitLike(c) == c.command \in {"COMMIT", "FLUSH_AND_PARTIAL_COMMIT"}

\* numberOfBitsNecessary
NumberOfBits(x) ==
    LET bits[n \in 0 .. x] == IF n = 0 THEN 0 ELSE 1 + bits[n \div 2] IN bits[x]

-----------------------------------------------------------------------------
(* insertCommand: a window of one command over what was emitted.  REBASE is *)
(* looked through.                                                         *)

PerformTrivialOptimization(c) ==
    IF /\ c.command = "COPY" /\ c.length = BlockSize
       /\ Offset(c.main) = 0 /\ Offset(c.sec) = 0
       /\ IsCache(c.main) /\ ~IsCache(c.sec)
    THEN Cmd("COMMIT", c.sec, 0, 0) ELSE c

\* The rules in the order of the code.  Each yields the command that takes the
\* place of the previous one ("set"), drops the last command ("pop"), or swallows
\* the new command ("skip"); "add" is no rule at all.
Same(p, c) == BlockOf(p.main) = BlockOf(c.main)
ExtendsCopy(p, c) ==
    /\ p.command = "COPY" /\ c.command = "COPY" /\ BlockOf(p.sec) = BlockOf(c.sec)
    /\ Offset(p.main) + p.length = Offset(c.main)
    /\ Offset(p.sec) + p.length = Offset(c.sec)
Rule(how, cmd) == [how |-> how, cmd |-> cmd]

SameBlockRule(p, c, open) ==
    CASE ExtendsCopy(p, c) ->
            IF open THEN Rule("merge", PerformTrivialOptimization([p EXCEPT !.length = @ + c.length]))
                    ELSE Rule("add", c)
      [] ~ExtendsCopy(p, c) /\ IsLoad(c) /\ IsCommitLike(p) -> Rule("skip", c)
      [] c.command = "ERASE" /\ p.command = "COMMIT" -> Rule("pop", c)
      [] c.command = "ERASE" /\ p.command = "FLUSH_AND_PARTIAL_COMMIT" ->
            Rule("set", [p EXCEPT !.command = "ERASE"])
      [] c.command = "ERASE" /\ IsLoad(p) -> Rule("set", LOAD_AND_FLUSH(BlockOf(p.main)))
      [] c.command = "COMMIT" /\ p.command = "ERASE" ->
            Rule("set", [p EXCEPT !.command = "FLUSH_AND_PARTIAL_COMMIT", !.length = BlockSize])
      [] c.command = "LOAD_AND_FLUSH" /\ IsCommitLike(p) ->
            IF p.command = "FLUSH_AND_PARTIAL_COMMIT" /\ p.length = BlockSize
            THEN Rule("set", [p EXCEPT !.command = "ERASE"]) ELSE Rule("skip", c)
      [] c.command = "COMMIT" /\ p.command = "LOAD_AND_FLUSH" -> Rule("pop", c)
      [] c.command = "ERASE" /\ p.command = "ERASE" -> Rule("skip", c)
      [] OTHER -> Rule("add", c)

CacheRule(p, c) ==
    CASE /\ p.command = "ERASE" /\ c.command = "COPY" /\ Offset(c.main) = 0
         /\ c.sec = Base(BlockOf(p.main)) ->
            Rule("set", [p EXCEPT !.command = "FLUSH_AND_PARTIAL_COMMIT", !.length = c.length])
      [] /\ p.command = "FLUSH_AND_PARTIAL_COMMIT" /\ c.command = "COPY"
         /\ BlockOf(c.sec) = BlockOf(p.main)
         /\ Offset(c.main) = Offset(c.sec) /\ Offset(c.main) = p.length ->
            Rule("set", [p EXCEPT !.length = @ + c.length])
      [] OTHER -> Rule("add", c)

PeepholeRule(p, c, open) ==
    IF Same(p, c) THEN SameBlockRule(p, c, open)
    ELSE IF IsCache(c.main) THEN CacheRule(p, c) ELSE Rule("add", c)

\* isEraseLike; of the previous command, only when it wrote nothing back.
IsErase(c)     == c.command \in {"ERASE", "LOAD_AND_FLUSH"}
IsEraseLike(c) == IsErase(c) \/ c.command = "FLUSH_AND_PARTIAL_COMMIT"
\* "We should never have two consecutive ERASE for different pages": asserted.
ConsecutiveErases(p, c) == IsErase(p) /\ IsEraseLike(c) => Same(p, c)

\* A REBASE at the end is looked through.
Previous(cmds) == IF cmds # <<>> /\ Last(cmds).command = "REBASE" THEN Len(cmds) - 1 ELSE Len(cmds)

RECURSIVE InsertCommand(_, _)
ApplyRule(s, c, last, rule) ==
    CASE rule.how = "add"  -> [s EXCEPT !.cmds = Append(@, c)]
      [] rule.how = "skip" -> s
      [] rule.how = "set"  -> [s EXCEPT !.cmds[last] = rule.cmd]
      [] rule.how = "pop"  -> [s EXCEPT !.cmds = Front(@)]
      [] rule.how = "merge" ->
            IF rule.cmd.command = "COPY" THEN [s EXCEPT !.cmds[last] = rule.cmd]
            ELSE InsertCommand([s EXCEPT !.cmds = Front([@ EXCEPT ![last] = rule.cmd])], rule.cmd)

InsertOptimized(s, c, last) ==
    CASE c.command = "COPY" /\ c.length = 0 -> s
      [] c.command = "REBASE" -> IF last < Len(s.cmds) THEN s ELSE [s EXCEPT !.cmds = Append(@, c)]
      [] c.command # "REBASE" /\ last = 0 -> [s EXCEPT !.cmds = Append(@, c)]
      [] OTHER -> ApplyRule([s EXCEPT !.ok = @ /\ ConsecutiveErases(s.cmds[last], c)], c, last,
                            PeepholeRule(s.cmds[last], c, s.open))
InsertCommand(s, command) ==
    InsertOptimized(s, PerformTrivialOptimization(command), Previous(s.cmds))

InsertCommands(s, seq) == FoldLeft(InsertCommand, s, seq)
NewTransaction(s)    == [s EXCEPT !.open = TRUE]
FinishTransaction(s) == [s EXCEPT !.open = FALSE]

-----------------------------------------------------------------------------
(* updateLastRebase: the last REBASE gets the range of blocks used after it, *)
(* or is merged with the one before.  length is the highest block number     *)
(* relative to the base.                                                     *)

BlocksUsed(c) ==
    ({BlockOf(c.main)} \cup IF c.command = "COPY" THEN {BlockOf(c.sec)} ELSE {}) \ {CacheBlock}

LastRebase(cmds, upto) == SelectLastInSubSeq(cmds, 1, upto, LAMBDA c : c.command = "REBASE")

\* The span the merge of two REBASE computes: (length - 1) is taken as the last block.
MergedRebase(a, b) ==
    LET base == Min({a.main, b.main})
        top  == Max({BlockOf(a.main) + a.length - 1, BlockOf(b.main) + b.length - 1})
    IN  [a EXCEPT !.main = base, !.length = top - BlockOf(base)]
\* An empty range at block 0 makes length - 1 wrap round: far too long to merge.
Wraps(r) == r.main = 0 /\ r.length = 0

UpdateLastRebase(s) ==
    LET at    == LastRebase(s.cmds, Len(s.cmds))
        used  == UNION {BlocksUsed(s.cmds[i]) : i \in at + 1 .. Len(s.cmds)}
        new   == Cmd("REBASE", Base(Min(used)), Max(used) - Min(used), 0)
        prev  == LastRebase(s.cmds, at - 1)
        old   == s.cmds[prev]
        set   == [s EXCEPT !.cmds[at] = new]
        drop  == [s EXCEPT !.cmds = RemoveAt(@, at)]
        merged == MergedRebase(old, new)
        sameBits == NumberOfBits(old.length) = NumberOfBits(new.length)
    IN  CASE at = 0 -> s
          [] at > 0 /\ used = {} -> drop
          [] at = 1 /\ used # {} -> set
          [] at > 1 /\ used # {} /\ prev = 0 -> IF new.length = 1 THEN drop ELSE set
          [] prev > 0 /\ used # {} ->
                IF ~sameBits THEN set
                ELSE IF old.main = new.main THEN drop
                ELSE IF /\ ~Wraps(old) /\ ~Wraps(new)
                        /\ NumberOfBits(merged.length) = NumberOfBits(old.length)
                THEN [drop EXCEPT !.cmds[prev] = merged] ELSE set

NormalizeRebase(cmds) ==
    [i \in DOMAIN cmds |-> IF cmds[i].command = "REBASE"
                           THEN [cmds[i] EXCEPT !.length = 2 ^ NumberOfBits(@) - 1] ELSE cmds[i]]

-----------------------------------------------------------------------------
(* createChains: a COPY that goes on where the previous write stopped, or a *)
(* little further, leaves out its destination.                              *)

\* couldConvertToChainCopyWithPrevious; end is endPreviousCopy.
Skippable(n) == 0 =< n /\ n =< MaxSkipLength
Chainable(c, prev, end) ==
    /\ c.command = "COPY"
    /\ CASE prev.command = "COPY" ->
               /\ BlockOf(prev.sec) = BlockOf(c.sec)
               /\ Skippable(c.sec - (prev.sec + prev.length))
         [] prev.command = "CHAINED_COPY" ->
               BlockOf(end) = BlockOf(c.sec) /\ Skippable(c.sec - end)
         [] prev.command = "FLUSH_AND_PARTIAL_COMMIT" ->
               BlockOf(prev.main) = BlockOf(c.sec) /\ Skippable(c.sec - (prev.main + prev.length))
         [] OTHER -> FALSE

Skip(n) == IF n = 0 THEN <<>> ELSE << Cmd("CHAINED_COPY_SKIP", 0, n, 0) >>

CreateChains(cmds) ==
    LET step(st, c) ==
          CASE st.out # <<>> /\ Chainable(c, Last(st.out), st.end) ->
                 [out |-> st.out \o Skip(c.sec - st.end)
                            \o << Cmd("CHAINED_COPY", c.main, c.length, 0) >>,
                  end |-> c.sec + c.length]
            [] OTHER ->
                 [out |-> Append(st.out, c),
                  end |-> CASE c.command = "COPY" -> c.sec + c.length
                            [] c.command = "FLUSH_AND_PARTIAL_COMMIT" -> c.main + c.length
                            [] OTHER -> st.end]
    IN  FoldLeft(step, [out |-> <<>>, end |-> 0], cmds).out

-----------------------------------------------------------------------------
(* addUseBlocks: a run of commands on one block says which one once.  Copies *)
(* from cache to cache, skips and rebases do not end a run, nor count.       *)

NamesBlock(c) == c.command \in {"ERASE", "COMMIT", "FLUSH_AND_PARTIAL_COMMIT",
                                "LOAD_AND_FLUSH", "CHAINED_COPY", "COPY"}
CurrentBlock(c) == IF c.command = "COPY" /\ IsCache(c.main) THEN BlockOf(c.sec) ELSE BlockOf(c.main)

\* commitUseBlockSection: the run from st.start to before i.
CommitUseBlockSection(st, cmds, i) ==
    LET use == i - st.start >= BlockUseThreshold + st.ignore
        head == IF use THEN << Cmd("USE_BLOCK", Base(st.chain), 0, 0) >>
                ELSE IF st.had THEN << Cmd("RELEASE_BLOCK", 0, 0, 0) >> ELSE <<>>
    IN  [st EXCEPT !.out = @ \o head \o SubSeq(cmds, st.start, i - 1), !.had = use,
                   !.start = i, !.chain = CacheBlock]

\* chain is CacheBlock when there is no run; start is 0 before the first one.
AddUseBlocks(cmds) ==
    LET ignore(st) == IF st.chain # CacheBlock THEN [st EXCEPT !.ignore = @ + 1] ELSE st
        step(st, i) ==
          LET c   == cmds[i]
              b   == CurrentBlock(c)
              cut == IF st.chain # CacheBlock /\ b # st.chain
                     THEN CommitUseBlockSection(st, cmds, i) ELSE st
          IN  CASE NamesBlock(c) /\ b = CacheBlock -> ignore(st)
                [] NamesBlock(c) /\ b # CacheBlock ->
                     IF cut.chain = CacheBlock
                     THEN [cut EXCEPT !.start = i, !.chain = b, !.ignore = 0] ELSE cut
                [] c.command = "REBASE" ->
                     IF st.start = 0 THEN [st EXCEPT !.out = Append(@, c)] ELSE ignore(st)
                [] OTHER -> ignore(st)
        end == FoldLeft(step, [out |-> <<>>, ignore |-> 0, chain |-> CacheBlock,
                               start |-> 0, had |-> FALSE],
                        [i \in DOMAIN cmds |-> i])
    IN  IF end.chain = CacheBlock THEN end.out
        ELSE CommitUseBlockSection(end, cmds, Len(cmds) + 1).out

GenerateInstructions(cmds) == NormalizeRebase(AddUseBlocks(CreateChains(cmds)))
=============================================================================
