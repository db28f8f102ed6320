------------------------------- MODULE Execution -------------------------------
(***************************************************************************)
(* Munin's interpreter of update commands: runCommands, processInstruction *)
(* and performCopy of munin/Bytecode/execution.c, backupCache and          *)
(* restoreCache of execution_utils.c.                                      *)
(*                                                                         *)
(* Before it erases a block the interpreter saves the cache, which may     *)
(* hold the only copy of data, to one of two backup pages, and counts the  *)
(* steps in flash.  After a power loss it restores the cache, runs through *)
(* the commands without executing them until the count is reached, and     *)
(* goes on from there.  Every flash command is an action.                  *)
(*                                                                         *)
(* The counter is the atomic one of DurableRecord.  Copies are made of     *)
(* whole words, so performCopyWithCache writes straight to flash.          *)
(***************************************************************************)
EXTENDS VirtualMachine, FiniteSets

CONSTANTS Programs,          \* the updates considered
          OldImage,          \* what the flash holds before the update
          Junk,              \* what the cache holds after power-on
          NullReads,         \* what *fastForward may read when it is NULL
          MaxLosses,         \* bound: power losses
          LossDuringBackup   \* power may be lost between the two increments of ERASE

Address == Int \X Int

\* An update is a sequence of commands.
ASSUME ProgramsAssumption ==
    Programs \subseteq
        Seq([command : STRING, main : Address, secondary : Address, length : Nat])

VARIABLES mem,               \* the flash, and cacheRAM as block CACHE_BUF
          backup,            \* flash: backupCache1 and backupCache2
          counter,           \* flash: getCurrentCounter()
          prog,              \* the update under installation
          nullRead,          \* the byte at address 0
          pc,                \* "off", "commands" or "done"
          ip,                \* next command to decode
          todo,              \* operations left of the command under way
          stage,             \* where ERASE is
          pos,               \* next word of the write under way
          chain,             \* chainAddress
          step,              \* *stepCount
          ff,                \* *fastForward
          old,               \* oldCounter of the ERASE under way
          dry,               \* fastForward == NULL
          losses             \* power losses so far

exec  == <<ip, todo, stage, pos, chain, step, ff, old>>
fixed == <<prog, nullRead>>
vars  == <<mem, backup, counter, fixed, pc, exec, dry, losses>>

-----------------------------------------------------------------------------
(* The two backup pages take turns: bit 1 of the counter. *)

Bit1(c) == (c \div 2) % 2

\* Mutant: the backup pages do not take turns.
BackupFirstPage(c) == 1

BackupPage(c)  == IF Bit1(c) = 1 THEN 2 ELSE 1      \* backupCache
RestorePage(c) == IF Bit1(c) = 1 THEN 1 ELSE 2      \* restoreCache

\* incrementCounter(&step, oldCounter, ff) on the atomic counter: marking a
\* step that is already marked changes nothing.
MarkStep(c) == IF c = counter + 1 THEN c ELSE counter

\* Mutant: the fast-forward ends one step late.
IncrementLate(oldCounter) ==
    /\ step' = step + 1
    /\ IF dry \/ ~ff THEN counter' = MarkStep(step + 1) /\ UNCHANGED ff
                     ELSE ff' = (step # oldCounter) /\ UNCHANGED counter

Increment(oldCounter) ==
    /\ step' = step + 1
    /\ IF dry \/ ~ff THEN counter' = MarkStep(step + 1) /\ UNCHANGED ff
                     ELSE ff' = (step + 1 # oldCounter) /\ UNCHANGED counter

\* What the code tests before it acts.  In a dry run the pointer is NULL.
Skip(flag) == IF dry THEN nullRead ELSE flag

-----------------------------------------------------------------------------
InitRun(isDry, startFF) ==
    /\ ip = 1 /\ todo = <<>> /\ stage = "ready" /\ pos = 0
    /\ chain = NoAddress /\ step = 0 /\ ff = startFF /\ old = 0 /\ dry = isDry

Init ==
    /\ prog \in Programs /\ nullRead \in NullReads
    /\ mem = [b \in Blocks \cup {CACHE_BUF} |->
                 IF b = CACHE_BUF THEN [w \in Words |-> Junk] ELSE OldImage[b]]
    /\ backup = [b \in 1 .. 2 |-> ErasedPage]
    /\ counter = 0 /\ losses = 0
    /\ pc = "off"
    /\ InitRun(FALSE, FALSE)

\* runCommands begins, the counter at boot being oldCounter.
BeginRun(isDry, oldCounter) ==
    /\ ip' = 1 /\ todo' = <<>> /\ stage' = "ready" /\ pos' = 0
    /\ chain' = NoAddress /\ step' = 0 /\ old' = 0 /\ dry' = isDry
    /\ ff' = (~isDry /\ oldCounter # 0)
    /\ mem' = IF ff' THEN [mem EXCEPT ![CACHE_BUF] = backup[RestorePage(oldCounter)]] ELSE mem
    /\ UNCHANGED <<backup, counter, fixed>>

\* The processor starts again with an unknown cache and calls runCommands.
Boot ==
    /\ pc = "off" /\ pc' = "commands"
    /\ BeginRun(FALSE, counter)
    /\ UNCHANGED losses

-----------------------------------------------------------------------------
(* decodeInstruction and the virtual instructions of processInstruction. *)

\* The operations of a command, the chain being at `at`.
Expand(c, at) ==
    LET b == c.main[1] start == <<b, 0>> cache == <<CACHE_BUF, 0>>
    IN  CASE c.command = "FLUSH_AND_PARTIAL_COMMIT" ->
                <<Erase(b), Copy(cache, c.length, start)>>
          [] c.command = "LOAD_AND_FLUSH" -> <<Copy(start, BlockSize, cache), Erase(b)>>
          [] c.command = "COMMIT" -> <<Copy(cache, BlockSize, start)>>
          [] c.command = "CHAINED_COPY" -> <<Copy(c.main, c.length, at)>>
          [] c.command \in {"ERASE", "COPY"} -> <<c>>
          [] OTHER -> <<>>     \* USE_BLOCK, RELEASE, REBASE, CHAINED_SKIP

Decode ==
    /\ pc = "commands" /\ todo = <<>> /\ ip =< Len(prog)
    /\ todo' = Expand(prog[ip], chain)
    /\ chain' = IF prog[ip].command = "CHAINED_COPY_SKIP"
                THEN Advance(chain, prog[ip].length) ELSE chain
    /\ ip' = ip + 1
    /\ UNCHANGED <<mem, backup, counter, fixed, pc, stage, pos, step, ff, old, dry, losses>>

EndOfStream ==
    /\ pc = "commands" /\ todo = <<>> /\ ip > Len(prog)
    /\ pc' = "done"
    /\ UNCHANGED <<mem, backup, counter, fixed, exec, dry, losses>>

Running(name) == pc = "commands" /\ todo # <<>> /\ Head(todo).command = name
Target == Head(todo).secondary
NextChain == Advance(Target, Head(todo).length)

\* Mutant: a skipped copy is not passed over.
SkipCopyAgain ==
    /\ Running("COPY") /\ Skip(ff)
    /\ chain' = NextChain
    /\ UNCHANGED <<mem, backup, counter, fixed, pc, ip, todo, stage, pos, step, ff, old, dry,
                   losses>>

SkipCopy ==
    /\ Running("COPY") /\ Skip(ff)
    /\ chain' = NextChain /\ todo' = Tail(todo)
    /\ UNCHANGED <<mem, backup, counter, fixed, pc, ip, stage, pos, step, ff, old, dry, losses>>

\* COPY_NC and COPY_CC: memcpy and memmove in RAM.
CopyToCache ==
    /\ Running("COPY") /\ ~Skip(ff) /\ Target[1] = CACHE_BUF
    /\ mem' = Move(mem, Head(todo).main, Head(todo).length, Target)
    /\ chain' = NextChain /\ todo' = Tail(todo)
    /\ UNCHANGED <<backup, counter, fixed, pc, ip, stage, pos, step, ff, old, dry, losses>>

\* COPY_NN and COPY_CN: one word at a time.  program_flash gives up at the
\* first word that is not blank.
CopyToFlash ==
    LET to == Advance(Target, pos)
        blank == Read(mem, to) = Blank
        last == pos = Head(todo).length - 1
    IN  /\ Running("COPY") /\ ~Skip(ff) /\ Target[1] # CACHE_BUF
        /\ mem' = IF blank THEN Move(mem, Advance(Head(todo).main, pos), 1, to) ELSE mem
        /\ chain' = NextChain
        /\ pos' = IF last \/ ~blank THEN 0 ELSE pos + 1
        /\ todo' = IF last \/ ~blank THEN Tail(todo) ELSE todo
        /\ UNCHANGED <<backup, counter, fixed, pc, ip, stage, step, ff, old, dry, losses>>

-----------------------------------------------------------------------------
(* ERASE: count, save the cache, count again, erase. *)

EraseFirstIncrement ==
    /\ Running("ERASE") /\ stage = "ready"
    /\ old' = counter
    /\ Increment(counter)
    /\ stage' = IF Skip(ff') THEN "second" ELSE "b_erase"
    /\ UNCHANGED <<mem, backup, fixed, pc, ip, todo, pos, chain, dry, losses>>

BackupErase ==
    /\ Running("ERASE") /\ stage = "b_erase" /\ stage' = "b_write"
    /\ backup' = [backup EXCEPT ![BackupPage(step)] = ErasedPage]
    /\ UNCHANGED <<mem, counter, fixed, pc, ip, todo, pos, chain, step, ff, old, dry, losses>>

BackupWord ==
    /\ Running("ERASE") /\ stage = "b_write"
    /\ backup' = [backup EXCEPT ![BackupPage(step)][pos] = mem[CACHE_BUF][pos]]
    /\ pos' = (pos + 1) % BlockSize
    /\ stage' = IF pos' = 0 THEN "second" ELSE stage
    /\ UNCHANGED <<mem, counter, fixed, pc, ip, todo, chain, step, ff, old, dry, losses>>

\* Mutant: the erase at which the fast-forward ends is not executed.
EraseNotRepeated ==
    /\ Running("ERASE") /\ stage = "second"
    /\ Increment(old)
    /\ IF Skip(ff) THEN stage' = "ready" /\ todo' = Tail(todo)
                   ELSE stage' = "erase" /\ UNCHANGED todo
    /\ UNCHANGED <<mem, backup, fixed, pc, ip, pos, chain, old, dry, losses>>

EraseSecondIncrement ==
    /\ Running("ERASE") /\ stage = "second"
    /\ Increment(old)
    /\ IF Skip(ff') THEN stage' = "ready" /\ todo' = Tail(todo)
                    ELSE stage' = "erase" /\ UNCHANGED todo
    /\ UNCHANGED <<mem, backup, fixed, pc, ip, pos, chain, old, dry, losses>>

EraseBlock ==
    /\ Running("ERASE") /\ stage = "erase" /\ stage' = "ready"
    /\ mem' = [mem EXCEPT ![Head(todo).main[1]] = ErasedPage]
    /\ todo' = Tail(todo)
    /\ UNCHANGED <<backup, counter, fixed, pc, ip, pos, chain, step, ff, old, dry, losses>>

-----------------------------------------------------------------------------
LoseRAM == mem' = [mem EXCEPT ![CACHE_BUF] = [w \in Words |-> Junk]]

PowerLoss ==
    /\ pc # "off" /\ pc' = "off"
    /\ losses < MaxLosses /\ losses' = losses + 1
    /\ LossDuringBackup \/ counter % 2 = 0
    /\ LoseRAM
    /\ UNCHANGED <<backup, counter, fixed, exec, dry>>

Terminated == pc = "done" /\ UNCHANGED vars

Execute ==
    \/ Decode \/ EndOfStream \/ SkipCopy \/ CopyToCache \/ CopyToFlash
    \/ EraseFirstIncrement \/ BackupErase \/ BackupWord \/ EraseSecondIncrement \/ EraseBlock

Next == Boot \/ Execute \/ PowerLoss \/ Terminated

\* A sequential program that only a power loss stops.
Spec == Init /\ [][Next]_vars /\ WF_vars(Boot \/ Execute)

-----------------------------------------------------------------------------
(* Properties. *)

\* When the commands are over the flash is what Hugin's virtual machine
\* computed for the same commands, however often power was lost.
ImageInstalled ==
    pc = "done" => \A b \in Blocks : mem[b] = VMFlash(prog, OldImage)[b]

\* Once the k-th erase is allowed to begin, and until the next one is prepared,
\* the page that restoreCache would read holds the cache as it was then: the
\* only copy of the data of the block being erased.
BackupIsIntact ==
    counter % 2 = 0 /\ counter > 0 =>
        LET saved == CacheAtErase(prog, OldImage, counter \div 2)
        IN  \A w \in Words : saved[w] # Blank => backup[RestorePage(counter)][w] = saved[w]

\* The counter in flash and the step under way never drift apart: outside the
\* fast-forward they agree, and a resumed run stops skipping exactly there.
CounterIsStep ==
    pc = "commands" => IF ff THEN step < counter ELSE step = counter

\* Every installation ends.
Finishes == <>(pc = "done")
-----------------------------------------------------------------------------
(* What Execution must do however often power is lost: the run of an update   *)
(* that is never interrupted, as a function of the update, command by         *)
(* command.  Next to the memory it keeps the chain, the number of ERASEs and, *)
(* for each, the memory at that moment.                                       *)

Device(memory, erases, saves, at, ok) ==
    [mem |-> memory, erases |-> erases, saves |-> saves, chain |-> at, ok |-> ok]

\* performCopy to the flash, word by word, up to the first one that is not
\* blank: the memory after each word, and whether the copy goes on.
CopyRun(memory, op) ==
    LET c[n \in 0 .. op.length] ==
          IF n = 0 THEN [mem |-> memory, on |-> TRUE]
          ELSE LET to == Advance(op.secondary, n - 1)
               IN  IF c[n - 1].on /\ Read(c[n - 1].mem, to) = Blank
                   THEN [mem |-> Move(c[n - 1].mem, Advance(op.main, n - 1), 1, to), on |-> TRUE]
                   ELSE [mem |-> c[n - 1].mem, on |-> FALSE]
    IN  c

\* A copy to the flash is not empty, and writes the block that was erased last.
Confined(d, op) ==
    /\ d.erases > 0 /\ op.length > 0
    /\ \A n \in 0 .. op.length - 1 :
           Advance(op.secondary, n)[1] = d.saves[d.erases].block

\* One operation.
Apply(d, op) ==
    LET to == op.secondary
        next == Advance(to, op.length)
        b == op.main[1]
    IN  IF op.command = "ERASE"
        THEN Device([d.mem EXCEPT ![b] = ErasedPage], d.erases + 1,
                    [k \in 1 .. d.erases + 1 |-> IF k =< d.erases THEN d.saves[k]
                                                 ELSE [mem |-> d.mem, block |-> b]],
                    d.chain, d.ok /\ b \in Blocks)
        ELSE IF to[1] = CACHE_BUF
        THEN Device(Move(d.mem, op.main, op.length, to), d.erases, d.saves, next, d.ok)
        ELSE Device(CopyRun(d.mem, op)[op.length].mem, d.erases, d.saves, next,
                    d.ok /\ Confined(d, op))

\* A command has at most two of them.
ApplyAll(d, ops) ==
    CASE Len(ops) = 0 -> d
      [] Len(ops) = 1 -> Apply(d, ops[1])
      [] OTHER -> Apply(Apply(d, ops[1]), ops[2])

\* CHAINED_COPY_SKIP moves the chain.
Skipped(d, c) ==
    IF c.command = "CHAINED_COPY_SKIP"
    THEN Device(d.mem, d.erases, d.saves, Advance(d.chain, c.length), d.ok) ELSE d

AtPowerOn == [b \in Blocks \cup {CACHE_BUF} |->
                 IF b = CACHE_BUF THEN [w \in Words |-> Junk] ELSE OldImage[b]]

\* The run: the device after each command.
Run(p) ==
    LET d[i \in 0 .. Len(p)] ==
          IF i = 0 THEN Device(AtPowerOn, 0, <<>>, NoAddress, TRUE)
          ELSE ApplyAll(Skipped(d[i - 1], p[i]), Expand(p[i], d[i - 1].chain))
    IN  d
Final(p) == Run(p)[Len(p)]

-----------------------------------------------------------------------------
(* What an update needs. *)

\* From one ERASE to the next, the copies to the flash write the erased block only.
Replayable(p) == \A i \in 0 .. Len(p) : Run(p)[i].ok

\* Without power losses the device does what Hugin's virtual machine does:
\* the same image, and the same data in the cache before each ERASE.
AgreesWithVM(p) ==
    /\ \A b \in Blocks : Final(p).mem[b] = VMFlash(p, OldImage)[b]
    /\ \A k \in 1 .. Final(p).erases : \A w \in Words :
           LET saved == CacheAtErase(p, OldImage, k)
           IN  saved[w] # Blank => Final(p).saves[k].mem[CACHE_BUF][w] = saved[w]
=============================================================================
