---------------------------- MODULE VirtualMachine ----------------------------
(***************************************************************************)
(* The reference meaning of an update: Hugin's virtual machine             *)
(* (hugin/Scheduler/virtual_machine.cpp), which runs the commands and the  *)
(* delta on an ideal flash, without power losses, to validate a patch      *)
(* before it is shipped.                                                   *)
(*                                                                         *)
(* A word stands for the smallest unit the flash programs.  The cache is   *)
(* one more block, CACHE_BUF; an address is <<block, offset>>.             *)
(***************************************************************************)
EXTENDS Integers, Sequences

CONSTANTS Blocks,        \* blocks of the flash, numbered
          BlockSize,     \* words in a block
          Blank,         \* the value of an erased word
          WordSize       \* words are numbers below WordSize

CACHE_BUF == -1
Words == 0 .. BlockSize - 1

ASSUME GeometryAssumption ==
    /\ Blocks \subseteq Nat /\ BlockSize \in Nat \ {0}
    /\ WordSize \in Nat /\ Blank = WordSize - 1

ErasedPage == [w \in Words |-> Blank]

Command(name, from, len, to) ==
    [command |-> name, main |-> from, secondary |-> to, length |-> len]
NoAddress == <<0, 0>>
Copy(from, len, to)    == Command("COPY", from, len, to)
ChainedCopy(from, len) == Command("CHAINED_COPY", from, len, NoAddress)
ChainedSkip(len)       == Command("CHAINED_COPY_SKIP", NoAddress, len, NoAddress)
Erase(b)               == Command("ERASE", <<b, 0>>, 0, NoAddress)
LoadAndFlush(b)        == Command("LOAD_AND_FLUSH", <<b, 0>>, 0, NoAddress)
Commit(b)              == Command("COMMIT", <<b, 0>>, 0, NoAddress)
FlushAndPartialCommit(b, len) == Command("FLUSH_AND_PARTIAL_COMMIT", <<b, 0>>, len, NoAddress)
UseBlock(b)            == Command("USE_BLOCK", <<b, 0>>, 0, NoAddress)

\* Addresses are linear: past the end of a block comes the next one.
Normal(a) == IF a[1] = CACHE_BUF THEN a
             ELSE <<a[1] + a[2] \div BlockSize, a[2] % BlockSize>>
Advance(address, len) == Normal(<<address[1], address[2] + len>>)
Read(mem, a) == LET n == Normal(a) IN mem[n[1]][n[2]]

\* memmove: the source is read before the destination is written.
Move(mem, from, len, to) ==
    [mem EXCEPT ![to[1]] =
        [w \in Words |-> IF w \in to[2] .. to[2] + len - 1
                         THEN Read(mem, <<from[1], from[2] + w - to[2]>>) ELSE @[w]]]

\* The assertions of performCopy: the destination fits in a block, the source
\* in the memory it is taken from.
Fits(from, len, to) ==
    /\ to[1] \in Blocks \cup {CACHE_BUF} /\ to[2] + len =< BlockSize
    /\ IF from[1] = CACHE_BUF THEN from[2] + len =< BlockSize
       ELSE \A i \in 0 .. len - 1 : Normal(<<from[1], from[2] + i>>)[1] \in Blocks

\* The assertions of CHAINED_COPY_SKIP: the chain stays inside its memory.
SkipFits(chain, len) ==
    LET end == Advance(chain, len)
    IN  IF chain[1] = CACHE_BUF THEN end[2] < BlockSize ELSE end[1] \in Blocks

\* writeFlash under STRICT_VM: every word written must be erased.
Writable(mem, len, to) ==
    to[1] = CACHE_BUF \/ \A w \in to[2] .. to[2] + len - 1 : mem[to[1]][w] = Blank

VMState(mem, chain, chainable, ok) ==
    [mem |-> mem, chain |-> chain, chainable |-> chainable, ok |-> ok]

PerformCopy(vm, from, len, to) ==
    IF Fits(from, len, to) /\ Writable(vm.mem, len, to)
    THEN VMState(Move(vm.mem, from, len, to), Advance(to, len), TRUE, vm.ok)
    ELSE [vm EXCEPT !.ok = FALSE]

VMErase(vm, b) == [vm EXCEPT !.mem[b] = ErasedPage, !.chainable = FALSE]
VMLoad(vm, b)  == [vm EXCEPT !.mem[CACHE_BUF] = vm.mem[b]]

\* One iteration of virtualMachine().
VMStep(vm, c) ==
    LET b == c.main[1]
    IN  CASE c.command = "COMMIT" ->
                [vm EXCEPT !.mem[b] = vm.mem[CACHE_BUF], !.chainable = FALSE]
          [] c.command = "ERASE" -> VMErase(vm, b)
          [] c.command = "LOAD_AND_FLUSH" -> VMErase(VMLoad(vm, b), b)
          [] c.command = "FLUSH_AND_PARTIAL_COMMIT" ->
                PerformCopy(VMErase(vm, b), <<CACHE_BUF, 0>>, c.length, <<b, 0>>)
          [] c.command = "CHAINED_COPY" ->
                PerformCopy([vm EXCEPT !.ok = vm.ok /\ vm.chainable], c.main, c.length, vm.chain)
          [] c.command = "COPY" -> PerformCopy(vm, c.main, c.length, c.secondary)
          [] c.command = "CHAINED_COPY_SKIP" ->
                [vm EXCEPT !.chain = Advance(@, c.length), !.chainable = TRUE,
                           !.ok = @ /\ SkipFits(vm.chain, c.length)]
          [] c.command \in {"USE_BLOCK", "RELEASE_BLOCK", "REBASE"} ->
                [vm EXCEPT !.chainable = TRUE]

\* virtualMachine(): the state after each command, from an erased cache.
VMTrace(prog, flash) ==
    LET start == VMState([b \in Blocks \cup {CACHE_BUF} |->
                             IF b = CACHE_BUF THEN ErasedPage ELSE flash[b]],
                         NoAddress, FALSE, TRUE)
        vm[i \in 0 .. Len(prog)] == IF i = 0 THEN start ELSE VMStep(vm[i - 1], prog[i])
    IN  vm

VMAccepts(prog, flash) == VMTrace(prog, flash)[Len(prog)].ok
VMFlash(prog, flash) ==
    [b \in Blocks |-> VMTrace(prog, flash)[Len(prog)].mem[b]]

\* What the cache holds when the k-th block is erased.
CacheAtErase(prog, flash, k) ==
    LET vm == VMTrace(prog, flash)
        Erases(i) == prog[i].command \in {"ERASE", "LOAD_AND_FLUSH", "FLUSH_AND_PARTIAL_COMMIT"}
        at == CHOOSE i \in 1 .. Len(prog) :
                 /\ Erases(i)
                 /\ k = Len(SelectSeq([j \in 1 .. i |-> Erases(j)], LAMBDA e : e))
    IN  IF prog[at].command = "LOAD_AND_FLUSH" THEN vm[at].mem[CACHE_BUF]
                                               ELSE vm[at - 1].mem[CACHE_BUF]

-----------------------------------------------------------------------------
(* executeBSDiffPatch.  A delta is the sequence of its sub-segments, each a  *)
(* record [insert, data]: alternately words added to the flash and words     *)
(* that replace it, from the beginning of block `start`.                     *)

WordsBefore(patch, i) ==
    LET n[j \in 0 .. i] == IF j = 0 THEN 0 ELSE n[j - 1] + Len(patch[j].data) IN n[i]

PatchedWord(patch, k, word) ==
    LET i == CHOOSE j \in 1 .. Len(patch) :
                WordsBefore(patch, j - 1) =< k /\ k < WordsBefore(patch, j)
        d == patch[i].data[k - WordsBefore(patch, i - 1) + 1]
    IN  IF patch[i].insert THEN d ELSE (word + d) % WordSize

ExecuteBSDiffPatch(patch, start, flash) ==
    [b \in Blocks |-> [w \in Words |->
        LET k == (b - start) * BlockSize + w
        IN  IF k >= 0 /\ k < WordsBefore(patch, Len(patch))
            THEN PatchedWord(patch, k, flash[b][w]) ELSE flash[b][w]]]
=============================================================================
