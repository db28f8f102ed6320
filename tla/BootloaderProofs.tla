---------------------------- MODULE BootloaderProofs ----------------------------
(***************************************************************************)
(* Proofs about Bootloader.  The invariant is put together from those of   *)
(* its three parts: that of CriticalMetadataProofs for the control, that   *)
(* of ExecutionProofs while commands run for real, and that of DeltaProofs *)
(* while a delta is applied for real.  Each part is the module of its own  *)
(* proofs with the state of this one in the place of its variables; what   *)
(* is proved here is that every step of Bootloader is a step of the part   *)
(* that is running, and that one part begins where the other ended.        *)
(*                                                                         *)
(* The counter in flash is not the one Execution and Delta are proved      *)
(* with: the dry run has moved it already.  An installation that began at  *)
(* its first step never reads it, and counts its steps in traceCounter.    *)
(* Power may be lost anywhere, and *fastForward may read anything.         *)
(***************************************************************************)
EXTENDS Bootloader, TLAPS

Memories == Blocks \cup {CACHE_BUF}
Word == 0 .. WordSize - 1

\* The updates that decode, and what the commands of one make of the image.
Good == {h \in Headers : ~h.malformed}
Moved(h) == VMFlash(h.prog, OldImage)

CP == INSTANCE CriticalMetadataProofs WITH old <- perm, MaxCounter <- 0, CachePages <- {}

\* oldCounter of the ERASE under way, were the counter the count of the steps.
CounterBefore == IF stage \in {"ready", "erase"} THEN step - 2 ELSE step - 1
EP == INSTANCE ExecutionProofs
         WITH Programs <- {h.prog : h \in Good}, LossDuringBackup <- FALSE,
              prog <- stored.prog, counter <- step, old <- CounterBefore, losses <- 0,
              pc <- xpc, pos <- xpos

Counted(h) == 2 * EP!Final(h.prog).erases
DP == INSTANCE DeltaProofs
         WITH Patches <- {h.patch : h \in Good}, Starts <- {h.start : h \in Good},
              Images <- {Moved(h) : h \in Good}, StepsBefore <- {Counted(h) : h \in Good},
              patch <- stored.patch, start <- stored.start, image <- Moved(stored),
              before <- Counted(stored), mem <- Image, counter <- step, old <- 0, losses <- 0,
              pc <- xpc, pos <- xpos

\* What Hugin made sure of before it signed an update: its virtual machine
\* computed what the commands do, they write no block but the one erased last,
\* and the delta is not empty and fits in a block.
Installable(h) ==
    /\ EP!Replayable(h.prog)
    /\ \A b \in Blocks : EP!Final(h.prog).mem[b] = Moved(h)[b]
    /\ Moved(h) \in [Blocks -> [Words -> Word]]
    /\ 0 < Len(h.patch) /\ WordsBefore(h.patch, Len(h.patch)) =< BlockSize

Hypotheses == \A h \in Good : Installable(h)

-----------------------------------------------------------------------------
(* The assumptions of the parts. *)

LEMMA ControlAssumptions ==
    /\ BlockSize \in Nat /\ BlockSize > CP!validF
    /\ 0 \in Nat /\ MaxLosses \in Nat
    /\ {Blank, Zero, Valid} \cap (CP!Versions \cup CP!Challenges) = {}
    /\ Blank # Zero /\ Blank # Valid /\ Valid # Zero
    /\ \A p \in {} : CP!IsPage(p)
    /\ NoHeader \notin Headers
    /\ FactoryVersion \in Nat
    /\ \A h \in Headers : h.versionID \in Nat /\ h.malformed \in BOOLEAN
<1>1. CP!validF = 3 /\ Control!validF = 3
  BY DEF CP!validF, Control!validF
<1>2. CP!Versions = Control!Versions /\ CP!Challenges = Control!Challenges
  BY DEF CP!Versions, Control!Versions, CP!Challenges, Control!Challenges
<1>3. {Blank, Zero, Valid} \cap (CP!Versions \cup CP!Challenges) = {}
  BY <1>2, WordAssumption
<1> QED BY <1>1, <1>3, WordAssumption, HeaderAssumption, GeometryAssumption

LEMMA CommandAssumptions ==
    {h.prog : h \in Good} \subseteq
        Seq([command : STRING, main : EP!Address, secondary : EP!Address, length : Nat])
<1>1. EP!Address = Cmd!Address
  BY DEF EP!Address, Cmd!Address
<1> QED BY <1>1, HeaderAssumption DEF Good

LEMMA CountedType ==
    ASSUME NEW h \in Good PROVE Counted(h) \in Nat /\ Counted(h) % 2 = 0
<1>1. h.prog \in {g.prog : g \in Good}
  OBVIOUS
<1>2. EP!Final(h.prog).erases \in Nat
  BY <1>1, EP!FinalErases, CommandAssumptions, GeometryAssumption
<1> QED BY <1>2 DEF Counted

LEMMA DeltaAssumptions ==
    ASSUME Hypotheses
    PROVE  /\ {h.patch : h \in Good}
                  \subseteq Seq([insert : BOOLEAN, data : Seq(0 .. WordSize - 1)])
           /\ {h.start : h \in Good} \subseteq Blocks
           /\ {Moved(h) : h \in Good} \subseteq [Blocks -> [DP!Words -> 0 .. WordSize - 1]]
           /\ \A c \in {Counted(h) : h \in Good} : c \in Nat /\ c % 2 = 0
<1>1. DP!Words = Words
  BY DEF DP!Words, Words
<1>2. {Moved(h) : h \in Good} \subseteq [Blocks -> [DP!Words -> 0 .. WordSize - 1]]
  BY <1>1 DEF Hypotheses, Installable, Word
<1>3. \A c \in {Counted(h) : h \in Good} : c \in Nat /\ c % 2 = 0
  BY CountedType
<1> QED BY <1>2, <1>3, HeaderAssumption DEF Good

-----------------------------------------------------------------------------
(* The dry run.  *fastForward is read through a NULL pointer: what the byte  *)
(* there holds is what skips the copies and the erasures, or does not.       *)

Shape == mem = [b \in Memories |-> mem[b]] /\ nullRead \in BOOLEAN

\* Where a dry run that is dry can be.
DryPlace ==
    pc = "run" /\ dry /\ nullRead =>
        /\ part \in {"commands", "delta"}
        /\ part = "commands" => xpc \in {"commands", "done"} /\ stage \in {"ready", "second"}
        /\ part = "delta" => xpc \in {"loop", "second", "done"}

DryInv == Shape /\ DryPlace

LEMMA CacheIsNoBlock ==
    CACHE_BUF \notin Blocks /\ CACHE_BUF \in Memories /\ Cmd!CACHE_BUF = CACHE_BUF
BY GeometryAssumption DEF CACHE_BUF, Memories, Cmd!CACHE_BUF

LEMMA BlockReplaced ==
    ASSUME Shape, NEW b, NEW p
    PROVE  [mem EXCEPT ![b] = p] = [c \in Memories |-> [mem EXCEPT ![b] = p][c]]
BY DEF Shape

\* The image does not depend on the cache.
LEMMA CacheReplaced ==
    ASSUME Shape, NEW p, mem' = [mem EXCEPT ![CACHE_BUF] = p]
    PROVE  Image' = Image /\ mem' = [c \in Memories |-> mem'[c]] /\ mem'[CACHE_BUF] = p
<1>1. \A b \in Blocks : mem'[b] = mem[b]
  BY CacheIsNoBlock DEF Shape, Memories
<1>2. Image' = Image
  BY <1>1 DEF Image
<1> QED BY <1>2, CacheIsNoBlock DEF Shape

\* A dry run counts its steps in flash, too.
DryCount ==
    \/ UNCHANGED <<step, counter>>
    \/ step' = step + 1 /\ counter' = IF step' = counter + 1 THEN step' ELSE counter

LEMMA DryCommand ==
    ASSUME DryInv, nullRead, pc = "run", dry, CommandStep
    PROVE  /\ UNCHANGED <<mem, backup, ff, dry, part, nullRead, pc, perm, stored>>
           /\ xpc' \in {"commands", "done"} /\ stage' \in {"ready", "second"}
           /\ DryCount
<1>1. /\ UNCHANGED <<control, part>> /\ Cmd!Execute /\ part = "commands" /\ nullRead = TRUE
      /\ xpc \in {"commands", "done"} /\ stage \in {"ready", "second"}
  BY DEF CommandStep, Running, DryInv, Shape, DryPlace
<1>2. UNCHANGED <<pc, perm, stored, part>>
  BY <1>1 DEF control
<1>3. \A flag : Cmd!Skip(flag)
  BY <1>1 DEF Cmd!Skip
<1>4. CASE Cmd!Decode \/ Cmd!EndOfStream \/ Cmd!SkipCopy
  BY <1>1, <1>2, <1>4 DEF Cmd!Decode, Cmd!EndOfStream, Cmd!SkipCopy, Cmd!Running, Cmd!fixed,
       Cmd!exec, DryCount
<1>5. CASE Cmd!EraseFirstIncrement
  BY <1>1, <1>2, <1>3, <1>5 DEF Cmd!EraseFirstIncrement, Cmd!Running, Cmd!Increment,
       Cmd!MarkStep, Cmd!fixed, DryCount
<1>6. CASE Cmd!EraseSecondIncrement
  BY <1>1, <1>2, <1>3, <1>6 DEF Cmd!EraseSecondIncrement, Cmd!Running, Cmd!Increment,
       Cmd!MarkStep, Cmd!fixed, DryCount
<1>7. ~(Cmd!CopyToCache \/ Cmd!CopyToFlash \/ Cmd!BackupErase \/ Cmd!BackupWord \/ Cmd!EraseBlock)
  BY <1>1, <1>3 DEF Cmd!CopyToCache, Cmd!CopyToFlash, Cmd!BackupErase, Cmd!BackupWord,
       Cmd!EraseBlock
<1> QED BY <1>1, <1>4, <1>5, <1>6, <1>7 DEF Cmd!Execute

LEMMA DryDelta ==
    ASSUME DryInv, nullRead, pc = "run", dry, DeltaStep
    PROVE  /\ UNCHANGED <<mem, backup, ff, dry, part, nullRead, pc, perm, stored>>
           /\ xpc' \in {"loop", "second", "done"}
           /\ DryCount
           /\ part' = "delta"
           /\ (/\ counter = 0 /\ step = 0 /\ xpc = "loop" /\ sub = 1 /\ ~havePage
               /\ stored \in Good /\ Len(stored.patch) > 0) => counter' # 0
<1>1. /\ UNCHANGED <<control, part, nullRead>> /\ Patch!Apply /\ part = "delta"
      /\ xpc \in {"loop", "second", "done"}
  BY DEF DeltaStep, Running, DryInv, DryPlace
<1>2. UNCHANGED <<pc, perm, stored, part>>
  BY <1>1 DEF control
<1>3. \A flag : Patch!Resuming(flag)
  BY DEF Patch!Resuming
<1>4. CASE Patch!NewPage
  <2>1. step % 2 = 0 => step' = step + 1 /\ ff' = ff
                        /\ counter' = (IF step + 1 = counter + 1 THEN step + 1 ELSE counter)
    BY <1>1, <1>4 DEF Patch!NewPage, Patch!Increment, Patch!MarkStep
  <2>2. step % 2 # 0 => UNCHANGED <<step, counter, ff>>
    BY <1>1, <1>4 DEF Patch!NewPage
  <2>3. DryCount /\ ff' = ff
    BY <2>1, <2>2 DEF DryCount
  <2>4. counter = 0 /\ step = 0 => counter' # 0
    BY <2>1
  <2> QED BY <1>1, <1>2, <1>3, <1>4, <2>3, <2>4 DEF Patch!NewPage, Patch!More
<1>5. CASE Patch!PageSaved
  BY <1>1, <1>2, <1>3, <1>5 DEF Patch!PageSaved, Patch!Increment, Patch!MarkStep, DryCount
<1>6. CASE Patch!PatchWord \/ Patch!TailWord \/ Patch!DeltaEnds
  <2>1. /\ UNCHANGED <<mem, backup, ff, dry, step, counter>>
        /\ xpc' \in {"loop", "second", "done"}
    BY <1>1, <1>3, <1>6 DEF Patch!PatchWord, Patch!TailWord, Patch!DeltaEnds, Patch!More
  <2>2. sub # 1 \/ havePage \/ ~(Len(stored.patch) > 0 /\ stored \in Good)
    <3>1. sub > Len(stored.patch) \/ havePage
      BY <1>6 DEF Patch!PatchWord, Patch!TailWord, Patch!DeltaEnds
    <3>2. stored \in Good => Len(stored.patch) \in Nat
      BY HeaderAssumption DEF Good
    <3> QED BY <3>1, <3>2
  <2> QED BY <1>1, <1>2, <2>1, <2>2 DEF DryCount
<1>7. CASE Patch!EndChunk
  <2>1. havePage /\ xpc' = xpc /\ UNCHANGED <<mem, backup, dry>>
    BY <1>7 DEF Patch!EndChunk
  <2>2. outOff = BlockSize \/ ~(outOff = BlockSize)
    OBVIOUS
  <2>3. DryCount /\ ff' = ff
    BY <1>1, <1>7, <2>2 DEF Patch!EndChunk, Patch!Increment, Patch!MarkStep, DryCount
  <2> QED BY <1>1, <1>2, <2>1, <2>3
<1>8. ~(Patch!SaveErase \/ Patch!SaveWord \/ Patch!ErasePatched)
  BY <1>1 DEF Patch!SaveErase, Patch!SaveWord, Patch!ErasePatched
<1> QED BY <1>1, <1>4, <1>5, <1>6, <1>7, <1>8 DEF Patch!Apply

\* Every step of the run keeps one page for each block.
LEMMA RunShape ==
    ASSUME Shape, CommandStep \/ DeltaStep
    PROVE  Shape' /\ UNCHANGED <<pc, part, dry, nullRead>>
<1> DEFINE Kept == mem' = mem \/ \E b, p : mem' = [mem EXCEPT ![b] = p]
<1>1. UNCHANGED <<pc, part, nullRead>>
  BY DEF CommandStep, DeltaStep, control, Cmd!Execute, Cmd!Decode, Cmd!EndOfStream,
       Cmd!SkipCopy,
         Cmd!CopyToCache, Cmd!CopyToFlash, Cmd!EraseFirstIncrement, Cmd!BackupErase,
         Cmd!BackupWord, Cmd!EraseSecondIncrement, Cmd!EraseBlock, Cmd!fixed
<1>2. ASSUME CommandStep PROVE Kept
  <2>1. Cmd!Execute
    BY <1>2 DEF CommandStep
  <2>2. CASE Cmd!CopyToFlash
    BY <2>2 DEF Cmd!CopyToFlash, Cmd!Move
  <2>3. CASE Cmd!CopyToCache \/ Cmd!EraseBlock
    BY <2>3 DEF Cmd!CopyToCache, Cmd!EraseBlock, Cmd!Move
  <2>4. CASE ~(Cmd!CopyToFlash \/ Cmd!CopyToCache \/ Cmd!EraseBlock)
    BY <2>1, <2>4 DEF Cmd!Execute, Cmd!Decode, Cmd!EndOfStream, Cmd!SkipCopy,
         Cmd!EraseFirstIncrement,
         Cmd!BackupErase, Cmd!BackupWord, Cmd!EraseSecondIncrement
  <2> QED BY <2>2, <2>3, <2>4
<1>3. ASSUME DeltaStep PROVE Kept
  <2>1. Patch!Apply
    BY <1>3 DEF DeltaStep
  <2>2. CASE Patch!ErasePatched
    BY <2>2 DEF Patch!ErasePatched
  <2>3. CASE Patch!PatchWord
    BY <2>3 DEF Patch!PatchWord, Patch!ProgramWord
  <2>4. CASE Patch!TailWord
    BY <2>4 DEF Patch!TailWord, Patch!ProgramWord
  <2>5. CASE ~(Patch!ErasePatched \/ Patch!PatchWord \/ Patch!TailWord)
    BY <2>1, <2>5 DEF Patch!Apply, Patch!NewPage, Patch!SaveErase, Patch!SaveWord,
         Patch!PageSaved,
         Patch!EndChunk, Patch!DeltaEnds
  <2> QED BY <2>2, <2>3, <2>4, <2>5
<1>4. dry' = dry
  BY DEF CommandStep, DeltaStep, Cmd!Execute, Cmd!Decode, Cmd!EndOfStream, Cmd!SkipCopy,
         Cmd!CopyToCache, Cmd!CopyToFlash, Cmd!EraseFirstIncrement, Cmd!BackupErase,
         Cmd!BackupWord, Cmd!EraseSecondIncrement, Cmd!EraseBlock, Patch!Apply, Patch!NewPage,
         Patch!SaveErase, Patch!SaveWord, Patch!PageSaved, Patch!ErasePatched, Patch!PatchWord,
         Patch!EndChunk, Patch!TailWord, Patch!DeltaEnds
<1>5. mem' = [c \in Memories |-> mem'[c]]
  BY <1>2, <1>3, BlockReplaced DEF Shape, CommandStep, DeltaStep
<1> QED BY <1>1, <1>4, <1>5 DEF Shape

\* The steps of the control leave the memory alone, and none but ReadCounter runs.
LEMMA ControlIs ==
    ASSUME ControlStep \/ ApplicationStep \/ RunEnds
    PROVE  UNCHANGED <<mem, nullRead, commands, delta, pass, part>> /\ pc' # "run"
<1> USE DEF Control!goto
<1>1. CASE ControlStep
  <2>1. UNCHANGED <<mem, nullRead, commands, delta, pass, part>> /\ Control!Boot /\ pc # "start"
    BY <1>1 DEF ControlStep
  <2>2. CASE Control!RestoreCriticalWord \/ Control!WriteCritical
    BY <2>1, <2>2 DEF Control!RestoreCriticalWord, Control!WriteCritical, Control!WriteCritWord
  <2>3. CASE ~(Control!RestoreCriticalWord \/ Control!WriteCritical)
    BY <2>1, <2>3 DEF Control!Boot, Control!PowerOn, Control!CriticalIsValid,
         Control!EraseInvalidCritical, Control!RevalidateCritical, Control!NothingToInstall,
         Control!StartUpdate, Control!EraseBackup1, Control!EraseBackup2,
         Control!ResetMetadataPage, Control!SetInProgress, Control!ReadCounter,
         Control!ConcludeBegin, Control!BackupCriticalWord, Control!EraseCritical,
         Control!ValidateCritical
  <2> QED BY <2>2, <2>3
<1>2. CASE ApplicationStep
  BY <1>2 DEF ApplicationStep, Control!Application, Control!EraseNecessarySpace,
       Control!WriteHeader, Control!DownloadFails, Control!WriteLastPage, Control!RequestUpdate
<1>3. CASE RunEnds
  BY <1>3 DEF RunEnds, Control!RunEnds
<1> QED BY <1>1, <1>2, <1>3

\* A dry run keeps what is needed of it, and the image.
LEMMA DryStep ==
    ASSUME DryInv, [Next]_vars
    PROVE  DryInv' /\ nullRead' = nullRead /\ (pc = "run" /\ dry /\ nullRead => Image' = Image)
<1>1. CASE ControlStep \/ ApplicationStep \/ RunEnds
  BY <1>1, ControlIs DEF DryInv, Shape, DryPlace, Image
<1>2. CASE BeginDryRun
  BY <1>2 DEF BeginDryRun, Control!ReadCounter, Control!goto, Cmd!BeginRun, Cmd!fixed, DryInv,
              Shape, DryPlace, Image
<1>3. CASE CommandStep \/ DeltaStep
  <2>1. Shape' /\ UNCHANGED <<pc, part, dry, nullRead>>
    BY <1>3, RunShape DEF DryInv
  <2>2. CASE ~(pc = "run" /\ dry /\ nullRead)
    BY <2>1, <2>2 DEF DryInv, DryPlace
  <2>3. CASE pc = "run" /\ dry /\ nullRead
    <3>1. mem' = mem /\ DryPlace'
      <4>1. CASE CommandStep
        BY <4>1, <2>3, DryCommand DEF DryPlace, CommandStep, Running
      <4>2. CASE DeltaStep
        BY <4>2, <2>3, DryDelta DEF DryPlace, DeltaStep, Running
      <4> QED BY <1>3, <4>1, <4>2
    <3> QED BY <2>1, <3>1 DEF DryInv, Image
  <2> QED BY <2>2, <2>3
<1>4. CASE BeginDelta
  BY <1>4, CacheReplaced, CacheIsNoBlock
     DEF BeginDelta, Patch!BeginDelta, Cmd!LoseRAM, DryInv, Shape, DryPlace, commands
<1>5. CASE BeginRealRun
  <2>1. dry' = FALSE /\ nullRead' = nullRead
    BY <1>5 DEF BeginRealRun, Cmd!BeginRun, Cmd!fixed
  <2>2. mem' = mem \/ \E p : mem' = [mem EXCEPT ![CACHE_BUF] = p]
    BY <1>5, CacheIsNoBlock DEF BeginRealRun, Cmd!BeginRun
  <2>3. Image' = Image /\ mem' = [c \in Memories |-> mem'[c]]
    BY <2>2, CacheReplaced DEF DryInv, Shape, Image
  <2> QED BY <2>1, <2>3 DEF DryInv, Shape, DryPlace
<1>6. CASE PowerLoss
  BY <1>6, CacheReplaced, CacheIsNoBlock
     DEF PowerLoss, Control!PowerLoss, Control!goto, Cmd!LoseRAM, DryInv, Shape, DryPlace
<1>7. CASE UNCHANGED vars
  BY <1>7 DEF vars, control, commands, pass, DryInv, Shape, DryPlace, Image
<1> QED BY <1>1, <1>2, <1>3, <1>4, <1>5, <1>6, <1>7 DEF Next, Bootloading, Idle

LEMMA DryInvStarts == ASSUME Init PROVE DryInv
<1>1. pc = "off"
  BY DEF Init, Control!Init
<1> QED BY <1>1, CacheIsNoBlock, NullAssumption DEF Init, DryInv, Shape, DryPlace, Memories

-----------------------------------------------------------------------------
(* The control is the one CriticalMetadataProofs speaks of. *)

LEMMA ControlOperators ==
    /\ CP!challengeF = Control!challengeF /\ CP!versionF = Control!versionF
    /\ CP!inProgressF = Control!inProgressF /\ CP!validF = Control!validF
    /\ CP!ErasedPage = Control!ErasedPage
    /\ \A p, w, v : CP!Program(p, w, v) = Control!Program(p, w, v)
    /\ \A v, l : CP!WriteCritWord(v, l) = Control!WriteCritWord(v, l)
    /\ \A h : CP!ValidateHeader(h) = Control!ValidateHeader(h)
    /\ CP!UpdateReady = Control!UpdateReady /\ CP!NewCritical = Control!NewCritical
    /\ Version = CP!Effective[CP!versionF]
<1>1. CP!challengeF = Control!challengeF /\ CP!versionF = Control!versionF
      /\ CP!inProgressF = Control!inProgressF /\ CP!validF = Control!validF
  BY DEF CP!challengeF, Control!challengeF, CP!versionF, Control!versionF,
         CP!inProgressF, Control!inProgressF, CP!validF, Control!validF
<1>2. CP!ErasedPage = Control!ErasedPage
  BY DEF CP!ErasedPage, Control!ErasedPage, CP!Words, Control!Words
<1>3. \A p, w, v : CP!Program(p, w, v) = Control!Program(p, w, v)
  BY DEF CP!Program, Control!Program
<1>4. \A v, l : CP!WriteCritWord(v, l) = Control!WriteCritWord(v, l)
  BY DEF CP!WriteCritWord, Control!WriteCritWord, CP!Program, Control!Program, CP!goto,
       Control!goto
<1>5. \A h : CP!ValidateHeader(h) = Control!ValidateHeader(h)
  BY <1>1 DEF CP!ValidateHeader, Control!ValidateHeader
<1>6. CP!UpdateReady = Control!UpdateReady
  BY <1>5 DEF CP!UpdateReady, Control!UpdateReady
<1>7. CP!NewCritical = Control!NewCritical
  BY <1>1 DEF CP!NewCritical, Control!NewCritical
<1>8. Version = CP!Effective[CP!versionF]
  BY <1>1 DEF Version, CP!Effective, Control!Effective
<1> QED BY <1>1, <1>2, <1>3, <1>4, <1>5, <1>6, <1>7, <1>8

QuietControl ==
    CP!PowerOn \/ CP!CriticalIsValid \/ CP!NothingToInstall \/ CP!StartUpdate \/ CP!ReadCounter
    \/ CP!ResetMetadataPage
    \/ CP!EraseBackup1 \/ CP!EraseBackup2 \/ CP!SetInProgress
    \/ CP!EraseInvalidCritical \/ CP!RestoreCriticalWord \/ CP!WriteCritical
    \/ CP!RevalidateCritical \/ CP!ValidateCritical \/ CP!ConcludeBegin \/ CP!BackupCriticalWord

LEMMA BootIs == ASSUME Control!Boot PROVE QuietControl \/ CP!EraseCritical
<1> USE ControlOperators
    DEF CP!goto, Control!goto, CP!storage, Control!storage, CP!record, Control!record,
        CP!ram, Control!ram
<1>1. CASE Control!PowerOn \/ Control!CriticalIsValid \/ Control!NothingToInstall
           \/ Control!StartUpdate \/ Control!ReadCounter \/ Control!ResetMetadataPage
  BY <1>1 DEF QuietControl, Control!PowerOn, CP!PowerOn, Control!CriticalIsValid,
       CP!CriticalIsValid,
      Control!NothingToInstall, CP!NothingToInstall, Control!StartUpdate, CP!StartUpdate,
      Control!ReadCounter, CP!ReadCounter, Control!ResetMetadataPage, CP!ResetMetadataPage
<1>2. CASE Control!EraseBackup1 \/ Control!EraseBackup2 \/ Control!SetInProgress
           \/ Control!RevalidateCritical \/ Control!ValidateCritical
  BY <1>2 DEF QuietControl, Control!EraseBackup1, CP!EraseBackup1, Control!EraseBackup2,
      CP!EraseBackup2, Control!SetInProgress, CP!SetInProgress, Control!RevalidateCritical,
      CP!RevalidateCritical, Control!ValidateCritical, CP!ValidateCritical
<1>3. CASE Control!EraseInvalidCritical \/ Control!RestoreCriticalWord \/ Control!WriteCritical
  BY <1>3 DEF QuietControl, Control!EraseInvalidCritical, CP!EraseInvalidCritical,
      Control!RestoreCriticalWord, CP!RestoreCriticalWord, Control!WriteCritical,
      CP!WriteCritical
<1>4. CASE Control!ConcludeBegin \/ Control!BackupCriticalWord \/ Control!EraseCritical
  BY <1>4 DEF QuietControl, Control!ConcludeBegin, CP!ConcludeBegin, Control!BackupCriticalWord,
      CP!BackupCriticalWord, Control!EraseCritical, CP!EraseCritical
<1> QED BY <1>1, <1>2, <1>3, <1>4 DEF Control!Boot

LEMMA ApplicationIs ==
    ASSUME Control!Application
    PROVE  CP!EraseNecessarySpace \/ (\E h \in Headers : CP!WriteHeader(h)) \/ CP!WriteLastPage
           \/ CP!DownloadFails \/ CP!RequestUpdate
BY ControlOperators
   DEF CP!goto, Control!goto, CP!storage, Control!storage, CP!record, Control!record,
       CP!ram, Control!ram, Control!Application, Control!EraseNecessarySpace,
       CP!EraseNecessarySpace, Control!WriteHeader, CP!WriteHeader, Control!WriteLastPage,
       CP!WriteLastPage, Control!DownloadFails, CP!DownloadFails, Control!RequestUpdate,
       CP!RequestUpdate

LEMMA ControlKept ==
    ASSUME CP!CritInv,
           \/ Control!Boot \/ Control!Application \/ Control!RunEnds \/ Control!PowerLoss
           \/ UNCHANGED <<control, backup, counter>>
    PROVE  CP!CritInv' /\ CP!VersionStep /\ (Control!EraseCritical \/ Version' = Version)
<1> USE DEF CP!VersionStep
<1>1. Version = CP!Effective[CP!versionF] /\ Version' = CP!Effective'[CP!versionF]
  BY DEF Version, CP!Effective, Control!Effective, CP!versionF, Control!versionF, CP!validF,
         Control!validF
<1>2. ASSUME CP!SameVersion PROVE Version' = Version
  BY <1>1, <1>2 DEF CP!SameVersion
<1>3. CASE Control!Boot /\ ~Control!EraseCritical
  <2>1. QuietControl
    BY <1>3, BootIs, ControlOperators
       DEF CP!EraseCritical, Control!EraseCritical, CP!goto, Control!goto, CP!storage,
           Control!storage, CP!record, Control!record
  <2>2. CP!CritInv' /\ CP!SameVersion
    BY <2>1, ControlAssumptions, CP!QuietStep, CP!BackupStep, CP!SetInProgressStep,
       CP!RestoreStep, CP!MarkStep, CP!SaveStep DEF QuietControl
  <2> QED BY <2>2, <1>2
<1>4. CASE Control!EraseCritical
  <2>1. CP!EraseCritical
    BY <1>4, ControlOperators
       DEF CP!EraseCritical, Control!EraseCritical, CP!goto, Control!goto, CP!storage,
           Control!storage, CP!record, Control!record
  <2> QED BY <1>4, <2>1, ControlAssumptions, CP!EraseStep
<1>5. CASE Control!Application
  BY <1>5, <1>2, ApplicationIs, CP!QuietStep, ControlAssumptions
<1>6. CASE Control!RunEnds \/ Control!PowerLoss \/ UNCHANGED <<control, backup, counter>>
  <2>1. CP!RunEnds \/ CP!PowerLoss \/ UNCHANGED CP!vars
    BY <1>6 DEF Control!RunEnds, CP!RunEnds, Control!PowerLoss, CP!PowerLoss, CP!vars, control,
       CP!goto, Control!goto, CP!storage, Control!storage, CP!record, Control!record, CP!ram,
       Control!ram
  <2> QED BY <2>1, <1>2, CP!QuietStep, ControlAssumptions
<1> QED BY <1>3, <1>4, <1>5, <1>6

\* What the run writes to the backup pages and the counter does not concern the control.
LEMMA RunKeepsControl ==
    ASSUME CP!CritInv, pc = "run", UNCHANGED control, CP!ArePages(backup'), counter' \in Nat
    PROVE  CP!CritInv' /\ CP!SameVersion /\ Version' = Version
<1>1. /\ UNCHANGED <<crit, stored, complete, location, pc, pos, copy, err, perm, losses>>
      /\ crit[CP!validF] = Valid /\ CP!UpdateReady
  BY DEF control, CP!CritInv, CP!SoundInv, CP!Trusted, CP!Labels, CP!Restoring, CP!Restored,
         CP!UpdateInv, CP!Started
<1>2. CP!TypeOK'
  BY <1>1 DEF CP!CritInv, CP!TypeOK
<1>3. CP!SoundInv'
  BY <1>1 DEF CP!CritInv, CP!SoundInv, CP!Sound
<1>4. CP!RestoreInv' /\ CP!ConcludeInv'
  BY <1>1 DEF CP!RestoreInv, CP!ConcludeInv, CP!Restoring, CP!Restored
<1>5. CP!UpdateInv'
  BY <1>1 DEF CP!CritInv, CP!UpdateInv, CP!UpdateReady, CP!ValidateHeader
<1>6. Version' = Version
  BY <1>1 DEF Version, Control!Effective, CP!validF, Control!validF
<1>7. CP!SameVersion
  BY <1>1 DEF CP!SameVersion, CP!Effective
<1> QED BY <1>2, <1>3, <1>4, <1>5, <1>6, <1>7 DEF CP!CritInv

LEMMA RunTypes ==
    ASSUME CP!CritInv, step \in Nat, CommandStep \/ DeltaStep
    PROVE  /\ CP!ArePages(backup') /\ counter' \in Nat /\ step' \in Nat
           /\ counter' # counter => counter' = step + 1
<1>0. CP!ArePages(backup) /\ counter \in Nat
  BY DEF CP!CritInv, CP!TypeOK
<1> DEFINE Written == \/ backup' = backup
                      \/ \E i \in 1 .. 2 : \E p :
                             CP!IsPage(p) /\ backup' = [backup EXCEPT ![i] = p]
           Counts == /\ counter' \in Nat /\ step' \in Nat
                     /\ counter' # counter => counter' = step + 1
<1>1. ASSUME NEW i \in 1 .. 2, NEW w, NEW v PROVE CP!IsPage([backup[i] EXCEPT ![w] = v])
  BY <1>0 DEF CP!ArePages, CP!IsPage
<1>2. ASSUME CommandStep PROVE Written /\ Counts
  <2>0. Cmd!Execute /\ \A c : Cmd!BackupPage(c) \in 1 .. 2
    BY <1>2 DEF CommandStep, Cmd!BackupPage
  <2>1. CASE Cmd!BackupErase
    <3>1. CP!IsPage(Cmd!ErasedPage)
      BY DEF CP!IsPage, Cmd!ErasedPage, CP!Words, Cmd!Words
    <3> QED BY <1>0, <2>0, <2>1, <3>1 DEF Cmd!BackupErase
  <2>2. CASE Cmd!BackupWord
    BY <1>0, <1>1, <2>0, <2>2 DEF Cmd!BackupWord
  <2>3. CASE Cmd!EraseFirstIncrement \/ Cmd!EraseSecondIncrement
    BY <1>0, <2>3 DEF Cmd!EraseFirstIncrement, Cmd!EraseSecondIncrement, Cmd!Increment,
                      Cmd!MarkStep
  <2>4. CASE Cmd!Decode \/ Cmd!EndOfStream \/ Cmd!SkipCopy \/ Cmd!CopyToCache
             \/ Cmd!CopyToFlash \/ Cmd!EraseBlock
    BY <1>0, <2>4 DEF Cmd!Decode, Cmd!EndOfStream, Cmd!SkipCopy, Cmd!CopyToCache,
                      Cmd!CopyToFlash, Cmd!EraseBlock, Cmd!exec
  <2> QED BY <2>0, <2>1, <2>2, <2>3, <2>4 DEF Cmd!Execute
<1>3. ASSUME DeltaStep PROVE Written /\ Counts
  <2>0. Patch!Apply /\ \A c : Patch!GetBuffer(c) \in 1 .. 2
    BY <1>3 DEF DeltaStep, Patch!GetBuffer
  <2>1. CASE Patch!SaveErase
    <3>1. CP!IsPage(Patch!ErasedPage)
      BY DEF CP!IsPage, Patch!ErasedPage, CP!Words, Patch!Words
    <3> QED BY <1>0, <2>0, <2>1, <3>1 DEF Patch!SaveErase
  <2>2. CASE Patch!SaveWord
    BY <1>0, <1>1, <2>0, <2>2 DEF Patch!SaveWord
  <2>3. CASE Patch!NewPage \/ Patch!PageSaved \/ Patch!EndChunk
    BY <1>0, <2>3 DEF Patch!NewPage, Patch!PageSaved, Patch!EndChunk, Patch!Increment,
                      Patch!MarkStep
  <2>4. CASE Patch!ErasePatched \/ Patch!PatchWord \/ Patch!TailWord \/ Patch!DeltaEnds
    BY <1>0, <2>4 DEF Patch!ErasePatched, Patch!PatchWord, Patch!TailWord, Patch!DeltaEnds
  <2> QED BY <2>0, <2>1, <2>2, <2>3, <2>4 DEF Patch!Apply
<1>4. Written /\ Counts
  BY <1>2, <1>3
<1>5. CP!ArePages(backup')
  BY <1>0, <1>4, CP!PageReplaced, ControlAssumptions
<1> QED BY <1>4, <1>5

-----------------------------------------------------------------------------
(* What the control promises it still promises with the real run in it, for  *)
(* any power loss, any byte at address 0 and updates that do what they want. *)

ControlInv == CP!CritInv /\ step \in Nat

LEMMA ControlInvStep ==
    ASSUME ControlInv, [Next]_vars
    PROVE  ControlInv' /\ CP!VersionStep /\ (Control!EraseCritical \/ Version' = Version)
<1> USE DEF ControlInv
<1>1. CASE ControlStep \/ ApplicationStep \/ RunEnds
  <2>1. step' = step
    BY <1>1, ControlIs DEF pass
  <2> QED BY <1>1, <2>1, ControlKept DEF ControlStep, ApplicationStep, RunEnds
<1>2. CASE BeginDryRun
  <2>1. step' = 0 /\ Control!ReadCounter
    BY <1>2 DEF BeginDryRun, Cmd!BeginRun
  <2> QED BY <2>1, ControlKept DEF Control!Boot
<1>3. CASE CommandStep \/ DeltaStep
  <2>1. pc = "run" /\ UNCHANGED control
    BY <1>3 DEF CommandStep, DeltaStep, Running
  <2>2. CP!ArePages(backup') /\ counter' \in Nat /\ step' \in Nat
    BY <1>3, RunTypes
  <2> QED BY <2>1, <2>2, RunKeepsControl DEF CP!VersionStep
<1>4. CASE BeginDelta \/ BeginRealRun
  <2>1. UNCHANGED <<control, backup, counter>> /\ step' \in {0, step}
    BY <1>4 DEF BeginDelta, BeginRealRun, Patch!BeginDelta, Cmd!BeginRun
  <2>2. ~Control!EraseCritical
    BY <1>4 DEF BeginDelta, BeginRealRun, Finished, Running, Control!EraseCritical
  <2> QED BY <2>1, <2>2, ControlKept
<1>5. CASE PowerLoss
  BY <1>5, ControlKept DEF PowerLoss, pass
<1>6. CASE UNCHANGED vars
  BY <1>6, ControlKept DEF vars, pass
<1> QED BY <1>1, <1>2, <1>3, <1>4, <1>5, <1>6 DEF Next, Bootloading, Idle

LEMMA ControlInvStarts == Init => ControlInv
<1> SUFFICES ASSUME Init PROVE ControlInv
  OBVIOUS
<1>1. step = 0
  BY DEF Init, Cmd!InitRun
<1>2. CP!Init
  BY ControlOperators DEF Init, Control!Init, CP!Init, CP!FactoryPage, Control!FactoryPage
<1> QED BY <1>1, <1>2, CP!CritInvInit, ControlAssumptions DEF ControlInv

LEMMA ControlInvAlways == Spec => []ControlInv
<1>1. ControlInv /\ [Next]_vars => ControlInv'
  BY ControlInvStep
<1> QED BY <1>1, ControlInvStarts, PTL DEF Spec

\* Installing implements InstalledVersion: version and challenge change in one
\* step, together, and only by an update made for the installed version.
THEOREM InstallationIsAtomic == Spec => CP!AtomicVersion
<1>1. Init => CP!VersionSpec!Init
  <2> SUFFICES ASSUME Init PROVE CP!VersionSpec!Init
    OBVIOUS
  <2>1. crit = Control!FactoryPage
    BY DEF Init, Control!Init
  <2>2. /\ Control!challengeF = 0 /\ Control!versionF = 1 /\ Control!validF = 3
        /\ 0 \in Control!Words /\ 1 \in Control!Words /\ 3 \in Control!Words
    BY WordAssumption, GeometryAssumption
       DEF Control!challengeF, Control!validF, Control!versionF, Control!Words
  <2>3. /\ crit[CP!versionF] = FactoryVersion /\ crit[CP!challengeF] = FactoryChallenge
        /\ crit[CP!validF] = Valid
    BY <2>1, <2>2, ControlOperators DEF Control!FactoryPage, Control!ErasedPage
  <2> QED BY <2>3 DEF CP!VersionSpec!Init, CP!Effective
<1>2. ControlInv /\ [Next]_vars => [CP!VersionSpec!Next]_(CP!VersionSpec!vars)
  BY ControlInvStep DEF CP!VersionStep, CP!SameVersion, CP!VersionSpec!vars
<1> QED BY <1>1, <1>2, ControlInvAlways, PTL DEF Spec, CP!AtomicVersion, CP!VersionSpec!Spec

\* Whenever the critical page is not valid, backupCache1 holds a finished copy of
\* it, although commands and delta save their data to that page, too.
THEOREM CriticalIsRecoverable == Spec => []CP!CriticalRecoverable
<1>1. ControlInv => CP!CriticalRecoverable
  BY DEF ControlInv, CP!CritInv, CP!SoundInv, CP!Sound, CP!CriticalRecoverable
<1> QED BY <1>1, ControlInvAlways, PTL

-----------------------------------------------------------------------------
(* Marked before touched: the part of the invariant that needs nothing of    *)
(* the updates and of the byte at address 0.                                 *)

Beginning == {"off", "validate", "v_write", "v_valid", "check", "s_erase1", "s_erase2",
              "s_reset", "s_flag", "start"}
Switching == {"c_write", "c_valid"}
Concluding == {"c_erase", "c_backup", "c_crit"}

\* The factory's critical page is valid, and says so when its image was touched.
MarkInv ==
    Version = FactoryVersion =>
        /\ crit[CP!validF] = Valid
        /\ crit[CP!inProgressF] # Zero => Image = OldImage

MarkedInv == ControlInv /\ DryInv /\ MarkInv

\* An update is installed over the factory version.
LEMMA UpdateIsNew ==
    ASSUME CP!CritInv, pc \in Concluding \cup {"start", "run"}
    PROVE  /\ Version = FactoryVersion /\ stored \in Headers
           /\ stored.versionID # FactoryVersion /\ stored.malformed \in BOOLEAN
           /\ crit[CP!inProgressF] = Zero /\ CP!UpdateReady
<1>1. crit[CP!validF] = Valid /\ CP!ValidateHeader(stored) /\ crit[CP!inProgressF] = Zero
      /\ stored \in Headers \cup {NoHeader} /\ CP!UpdateReady
  BY DEF CP!CritInv, CP!SoundInv, CP!Trusted, CP!Labels, CP!Restoring, CP!Restored,
         CP!UpdateInv, CP!Started, CP!UpdateReady, CP!TypeOK, Concluding
<1>2. stored \in Headers /\ stored.oldVersionID = crit[CP!versionF]
      /\ crit[CP!versionF] < stored.versionID
  BY <1>1 DEF CP!ValidateHeader
<1>3. Version = crit[CP!versionF]
  BY <1>1, ControlOperators DEF CP!Effective
<1> QED BY <1>1, <1>2, <1>3, HeaderAssumption

\* The version changes to that of the update stored.
LEMMA VersionSwitches ==
    ASSUME CP!CritInv, Control!EraseCritical
    PROVE  Version' = stored.versionID /\ Version' # FactoryVersion
<1>1. /\ pc = "c_crit" /\ crit' = CP!ErasedPage /\ backup' = backup
      /\ backup[1] = copy /\ crit \in [CP!Words -> CP!Value]
      /\ copy = [crit EXCEPT ![CP!challengeF] = stored.signature,
                             ![CP!versionF] = stored.versionID, ![CP!inProgressF] = Blank]
  BY ControlOperators DEF Control!EraseCritical, CP!CritInv, CP!ConcludeInv, CP!TypeOK
<1>2. /\ CP!versionF = 1 /\ CP!inProgressF = 2 /\ CP!validF = 3 /\ CP!challengeF = 0
      /\ 1 \in CP!Words /\ 3 \in CP!Words
  BY WordAssumption, GeometryAssumption
     DEF CP!versionF, CP!inProgressF, CP!validF, CP!challengeF, Control!validF, CP!Words
<1>3. copy[CP!versionF] = stored.versionID
  BY <1>1, <1>2
<1>4. crit'[CP!validF] # Valid
  BY <1>1, <1>2, WordAssumption DEF CP!ErasedPage
<1>5. Version' = backup'[1][CP!versionF]
  BY <1>4 DEF Version, Control!Effective, CP!validF, Control!validF, CP!versionF,
              Control!versionF
<1>6. Version' = stored.versionID
  BY <1>1, <1>3, <1>5
<1> QED BY <1>1, <1>6, UpdateIsNew DEF Concluding

\* What a step of the control may do to a critical page that is valid.
LEMMA ValidPageKept ==
    ASSUME CP!CritInv, crit[CP!validF] = Valid,
           \/ Control!Boot \/ Control!Application \/ Control!RunEnds \/ Control!PowerLoss
    PROVE  Control!EraseCritical \/ crit' = crit \/ crit' = CP!Program(crit, CP!inProgressF, Zero)
<1> USE ControlOperators
<1>1. pc \notin {"v_write", "c_write", "v_valid", "c_valid"}
  BY DEF CP!CritInv, CP!RestoreInv, CP!Restoring, CP!Restored
<1>2. CASE Control!Boot
  <2>1. CASE Control!SetInProgress
    BY <2>1 DEF Control!SetInProgress
  <2>2. CASE ~(Control!SetInProgress \/ Control!EraseCritical)
    BY <1>1, <1>2, <2>2
       DEF Control!Boot, Control!PowerOn, Control!CriticalIsValid, Control!EraseInvalidCritical,
           Control!RestoreCriticalWord, Control!RevalidateCritical, Control!NothingToInstall,
           Control!StartUpdate, Control!EraseBackup1, Control!EraseBackup2,
           Control!ResetMetadataPage, Control!ReadCounter, Control!ConcludeBegin,
           Control!BackupCriticalWord, Control!WriteCritical, Control!ValidateCritical
  <2> QED BY <2>1, <2>2
<1>3. CASE Control!Application
  BY <1>3 DEF Control!Application, Control!EraseNecessarySpace, Control!WriteHeader,
              Control!WriteLastPage, Control!DownloadFails, Control!RequestUpdate
<1>4. CASE Control!RunEnds \/ Control!PowerLoss
  BY <1>4 DEF Control!RunEnds, Control!PowerLoss
<1> QED BY <1>2, <1>3, <1>4

\* No step outside commands and delta changes the image.
LEMMA ImageKept ==
    ASSUME Shape, ControlStep \/ ApplicationStep \/ RunEnds \/ PowerLoss \/ BeginDryRun
                  \/ BeginRealRun \/ BeginDelta
    PROVE  Image' = Image
<1>1. CASE ControlStep \/ ApplicationStep \/ RunEnds
  BY <1>1, ControlIs DEF Image
<1>2. CASE PowerLoss \/ BeginDelta
  BY <1>2, CacheReplaced, CacheIsNoBlock DEF PowerLoss, BeginDelta, Cmd!LoseRAM
<1>3. CASE BeginDryRun
  BY <1>3 DEF BeginDryRun, Cmd!BeginRun, Image
<1>4. CASE BeginRealRun
  <2>1. mem' = mem \/ \E p : mem' = [mem EXCEPT ![CACHE_BUF] = p]
    BY <1>4, CacheIsNoBlock DEF BeginRealRun, Cmd!BeginRun
  <2> QED BY <2>1, CacheReplaced DEF Image
<1> QED BY <1>1, <1>2, <1>3, <1>4

LEMMA MarkedStep == ASSUME MarkedInv, [Next]_vars PROVE MarkedInv'
<1> USE DEF MarkedInv, ControlInv
<1>1. ControlInv' /\ DryInv' /\ (Control!EraseCritical \/ Version' = Version)
  BY ControlInvStep, DryStep
<1>2. ASSUME Version' = FactoryVersion
      PROVE  Version = FactoryVersion /\ ~Control!EraseCritical
  BY <1>1, <1>2, VersionSwitches
<1>3. CASE ControlStep \/ ApplicationStep \/ RunEnds \/ PowerLoss \/ BeginDryRun
  <2>1. Image' = Image
    BY <1>3, ImageKept DEF DryInv
  <2>2. Control!Boot \/ Control!Application \/ Control!RunEnds \/ Control!PowerLoss
    BY <1>3 DEF ControlStep, ApplicationStep, RunEnds, PowerLoss, BeginDryRun, Control!Boot
  <2>3. ASSUME Version' = FactoryVersion
        PROVE  crit'[CP!validF] = Valid /\ (crit'[CP!inProgressF] # Zero => Image' = OldImage)
    <3>1. /\ crit[CP!validF] = Valid /\ (crit[CP!inProgressF] # Zero => Image = OldImage)
          /\ crit' = crit \/ crit' = CP!Program(crit, CP!inProgressF, Zero)
      BY <1>2, <2>2, <2>3, ValidPageKept DEF MarkInv
    <3>2. CP!validF # CP!inProgressF /\ CP!inProgressF \in CP!Words
          /\ crit \in [CP!Words -> CP!Value]
      BY WordAssumption, GeometryAssumption
         DEF CP!CritInv, CP!TypeOK, CP!validF, CP!inProgressF, CP!Words, Control!validF
    <3>3. crit' = crit \/ crit' = [crit EXCEPT ![CP!inProgressF] = Zero]
      BY <3>1 DEF CP!Program
    <3>4. CASE crit' = crit
      BY <2>1, <3>1, <3>4
    <3>5. CASE crit' = [crit EXCEPT ![CP!inProgressF] = Zero]
      BY <3>1, <3>2, <3>5
    <3> QED BY <3>3, <3>4, <3>5
  <2> QED BY <1>1, <2>3 DEF MarkInv
<1>4. CASE CommandStep \/ DeltaStep \/ BeginDelta \/ BeginRealRun
  <2>1. pc = "run" /\ crit' = crit
    BY <1>4 DEF CommandStep, DeltaStep, BeginDelta, BeginRealRun, Finished, Running, control
  <2>2. crit[CP!inProgressF] = Zero
    BY <2>1, UpdateIsNew
  <2> QED BY <1>1, <1>2, <2>1, <2>2 DEF MarkInv
<1>5. CASE UNCHANGED vars
  <2>1. Image' = Image /\ crit' = crit
    BY <1>5 DEF vars, control, Image
  <2> QED BY <1>1, <1>2, <2>1 DEF MarkInv
<1> QED BY <1>3, <1>4, <1>5 DEF Next, Bootloading, Idle

LEMMA ImageAtFirst ==
    ASSUME Init
    PROVE  pc = "off" /\ Version = FactoryVersion /\ Image = OldImage /\ crit[CP!validF] = Valid
<1>1. pc = "off" /\ crit = Control!FactoryPage
      /\ mem = [b \in Memories |-> IF b = CACHE_BUF THEN [w \in Words |-> Junk] ELSE OldImage[b]]
  BY DEF Init, Control!Init, Memories
<1>2. Control!validF \in Control!Words /\ Control!versionF \in Control!Words
      /\ Control!validF = 3 /\ Control!versionF = 1
  BY WordAssumption, GeometryAssumption DEF Control!validF, Control!versionF, Control!Words
<1>3. Version = FactoryVersion /\ crit[Control!validF] = Valid
  BY <1>1, <1>2 DEF Version, Control!Effective, Control!FactoryPage, Control!ErasedPage,
                    Control!challengeF
<1>4. Image = OldImage
  BY <1>1, ImageAssumption, CacheIsNoBlock DEF Image, Memories
<1> QED BY <1>1, <1>3, <1>4, ControlOperators

LEMMA MarkedStarts == ASSUME Init PROVE MarkedInv
BY ControlInvStarts, DryInvStarts, ImageAtFirst DEF MarkedInv, MarkInv

\* No word of the image changes before the critical page says that an update is
\* in progress, and it goes on to say so until it records the new version,
\* wherever power is lost and whatever the updates are.
THEOREM TouchedIsMarked == Spec => []MarkedBeforeTouched
<1>1. MarkedInv /\ [Next]_vars => MarkedInv'
  BY MarkedStep
<1>2. MarkedInv => MarkedBeforeTouched
  <2> SUFFICES ASSUME MarkedInv, Version = FactoryVersion,
                      Control!Effective[Control!inProgressF] # Zero
               PROVE  Image = OldImage
    BY DEF MarkedBeforeTouched
  <2> QED BY ControlOperators DEF MarkedInv, MarkInv, Control!Effective
<1> QED BY <1>1, <1>2, MarkedStarts, PTL DEF Spec

-----------------------------------------------------------------------------
(* The real run is the one ExecutionProofs and DeltaProofs speak of. *)

LEMMA RunOperators ==
    /\ EP!CACHE_BUF = Cmd!CACHE_BUF /\ EP!NoAddress = Cmd!NoAddress
    /\ EP!ErasedPage = Cmd!ErasedPage
    /\ \A a, n : EP!Advance(a, n) = Cmd!Advance(a, n)
    /\ \A m, a : EP!Read(m, a) = Cmd!Read(m, a)
    /\ \A m, a, n, b : EP!Move(m, a, n, b) = Cmd!Move(m, a, n, b)
    /\ \A c, a : EP!Expand(c, a) = Cmd!Expand(c, a)
    /\ \A c : EP!BackupPage(c) = Cmd!BackupPage(c)
    /\ \A flag : EP!Skip(flag) = Cmd!Skip(flag)
    /\ \A n : EP!Running(n) = Cmd!Running(n)
    /\ EP!Target = Cmd!Target /\ EP!NextChain = Cmd!NextChain
<1>1. EP!CACHE_BUF = Cmd!CACHE_BUF /\ EP!NoAddress = Cmd!NoAddress /\ EP!Words = Cmd!Words
  BY DEF EP!CACHE_BUF, Cmd!CACHE_BUF, EP!NoAddress, Cmd!NoAddress, EP!Words, Cmd!Words
<1>2. EP!ErasedPage = Cmd!ErasedPage
  BY <1>1 DEF EP!ErasedPage, Cmd!ErasedPage
<1>3. \A a : EP!Normal(a) = Cmd!Normal(a)
  BY <1>1 DEF EP!Normal, Cmd!Normal
<1>4. \A a, n : EP!Advance(a, n) = Cmd!Advance(a, n)
  BY <1>3 DEF EP!Advance, Cmd!Advance
<1>5. \A m, a : EP!Read(m, a) = Cmd!Read(m, a)
  BY <1>3 DEF EP!Read, Cmd!Read
<1>6. \A m, a, n, b : EP!Move(m, a, n, b) = Cmd!Move(m, a, n, b)
  <2> TAKE m, a, n, b
  <2>1. EP!Move(m, a, n, b) =
           [m EXCEPT ![b[1]] = [w \in Words |-> IF w \in b[2] .. b[2] + n - 1
                                   THEN EP!Read(m, <<a[1], a[2] + w - b[2]>>) ELSE m[b[1]][w]]]
    BY DEF EP!Move, EP!Words, Words
  <2>2. Cmd!Move(m, a, n, b) =
           [m EXCEPT ![b[1]] = [w \in Words |-> IF w \in b[2] .. b[2] + n - 1
                                   THEN Cmd!Read(m, <<a[1], a[2] + w - b[2]>>) ELSE m[b[1]][w]]]
    BY DEF Cmd!Move, Cmd!Words, Words
  <2>3. [w \in Words |-> IF w \in b[2] .. b[2] + n - 1
                         THEN EP!Read(m, <<a[1], a[2] + w - b[2]>>) ELSE m[b[1]][w]]
        = [w \in Words |-> IF w \in b[2] .. b[2] + n - 1
                           THEN Cmd!Read(m, <<a[1], a[2] + w - b[2]>>) ELSE m[b[1]][w]]
    BY <1>5
  <2> QED BY <2>1, <2>2, <2>3
<1>7. \A c, a : EP!Expand(c, a) = Cmd!Expand(c, a)
  BY <1>1 DEF EP!Expand, Cmd!Expand, EP!Copy, Cmd!Copy, EP!Erase, Cmd!Erase, EP!Command,
              Cmd!Command
<1>8. \A c : EP!BackupPage(c) = Cmd!BackupPage(c)
  BY DEF EP!BackupPage, Cmd!BackupPage, EP!Bit1, Cmd!Bit1
<1>9. \A flag : EP!Skip(flag) = Cmd!Skip(flag)
  BY DEF EP!Skip, Cmd!Skip
<1>10. \A n : EP!Running(n) = Cmd!Running(n)
  BY DEF EP!Running, Cmd!Running
<1>11. EP!Target = Cmd!Target /\ EP!NextChain = Cmd!NextChain
  BY <1>4 DEF EP!Target, Cmd!Target, EP!NextChain, Cmd!NextChain
<1> QED BY <1>1, <1>2, <1>4, <1>5, <1>6, <1>7, <1>8, <1>9, <1>10, <1>11

LEMMA CommandsFollow ==
    ASSUME CommandStep, ~dry, ff = FALSE, step \in Nat
    PROVE  EP!Execute /\ ff' = FALSE
<1> USE RunOperators
<1>1. stored' = stored /\ Cmd!Execute
  BY DEF CommandStep, control
<1>2. CASE Cmd!Decode
  BY <1>1, <1>2 DEF Cmd!Decode, EP!Decode, Cmd!fixed, EP!fixed, CounterBefore, EP!Execute
<1>3. CASE Cmd!EndOfStream
  BY <1>1, <1>3 DEF Cmd!EndOfStream, EP!EndOfStream, Cmd!fixed, EP!fixed, Cmd!exec, EP!exec,
                    CounterBefore, EP!Execute
<1>4. CASE Cmd!SkipCopy
  BY <1>1, <1>4 DEF Cmd!SkipCopy, EP!SkipCopy, Cmd!fixed, EP!fixed, CounterBefore, EP!Execute
<1>5. CASE Cmd!CopyToCache
  BY <1>1, <1>5 DEF Cmd!CopyToCache, EP!CopyToCache, Cmd!fixed, EP!fixed, CounterBefore,
       EP!Execute
<1>6. CASE Cmd!CopyToFlash
  BY <1>1, <1>6 DEF Cmd!CopyToFlash, EP!CopyToFlash, Cmd!fixed, EP!fixed, CounterBefore,
       EP!Execute
<1>7. CASE Cmd!EraseFirstIncrement
  <2>1. stage = "ready" /\ step' = step + 1 /\ ff' = FALSE /\ stage' \in {"second", "b_erase"}
    BY <1>7 DEF Cmd!EraseFirstIncrement, Cmd!Increment
  <2>2. CounterBefore' = step
    BY <2>1 DEF CounterBefore
  <2>3. EP!Increment(step)
    BY <2>1 DEF EP!Increment, EP!MarkStep
  <2> QED BY <1>1, <1>7, <2>1, <2>2, <2>3 DEF Cmd!EraseFirstIncrement, EP!EraseFirstIncrement,
             Cmd!fixed, EP!fixed, EP!Execute
<1>8. CASE Cmd!BackupErase
  BY <1>1, <1>8 DEF Cmd!BackupErase, EP!BackupErase, Cmd!fixed, EP!fixed, CounterBefore,
       EP!Execute
<1>9. CASE Cmd!BackupWord
  BY <1>1, <1>9 DEF Cmd!BackupWord, EP!BackupWord, Cmd!fixed, EP!fixed, CounterBefore,
       EP!Execute
<1>10. CASE Cmd!EraseSecondIncrement
  <2>1. stage = "second" /\ step' = step + 1 /\ ff' = FALSE /\ stage' \in {"ready", "erase"}
    BY <1>10 DEF Cmd!EraseSecondIncrement, Cmd!Increment
  <2>2. CounterBefore' = CounterBefore
    BY <2>1 DEF CounterBefore
  <2>3. EP!Increment(CounterBefore)
    BY <2>1 DEF EP!Increment, EP!MarkStep
  <2> QED BY <1>1, <1>10, <2>1, <2>2, <2>3 DEF Cmd!EraseSecondIncrement,
             EP!EraseSecondIncrement, Cmd!fixed, EP!fixed, EP!Execute
<1>11. CASE Cmd!EraseBlock
  BY <1>1, <1>11 DEF Cmd!EraseBlock, EP!EraseBlock, Cmd!fixed, EP!fixed, CounterBefore,
       EP!Execute
<1> QED BY <1>1, <1>2, <1>3, <1>4, <1>5, <1>6, <1>7, <1>8, <1>9, <1>10, <1>11 DEF Cmd!Execute

LEMMA DeltaOperators ==
    /\ DP!ErasedPage = Patch!ErasedPage
    /\ \A c : DP!GetBuffer(c) = Patch!GetBuffer(c)
    /\ \A flag : DP!Resuming(flag) = Patch!Resuming(flag)
    /\ DP!More = Patch!More /\ DP!SubLength = Patch!SubLength
<1>1. DP!ErasedPage = Patch!ErasedPage
  BY DEF DP!ErasedPage, Patch!ErasedPage, DP!Words, Patch!Words
<1>2. \A c : DP!GetBuffer(c) = Patch!GetBuffer(c)
  BY DEF DP!GetBuffer, Patch!GetBuffer
<1>3. \A flag : DP!Resuming(flag) = Patch!Resuming(flag)
  BY DEF DP!Resuming, Patch!Resuming
<1>4. DP!More = Patch!More /\ DP!SubLength = Patch!SubLength
  BY DEF DP!More, Patch!More, DP!SubLength, Patch!SubLength
<1> QED BY <1>1, <1>2, <1>3, <1>4

LEMMA ImageReplaced ==
    ASSUME Shape, NEW b \in Blocks, NEW p, mem' = [mem EXCEPT ![b] = p]
    PROVE  Image' = [Image EXCEPT ![b] = p]
<1>1. \A c \in Blocks : mem'[c] = IF c = b THEN p ELSE mem[c]
  BY DEF Shape, Memories
<1> QED BY <1>1 DEF Image

LEMMA DeltaFollows ==
    ASSUME Shape, DeltaStep, ~dry, ff = FALSE, step \in Nat, stored \in Good
    PROVE  DP!Apply /\ ff' = FALSE
<1> USE DeltaOperators
<1>1. stored' = stored /\ Patch!Apply /\ stored.start \in Blocks
  BY HeaderAssumption DEF DeltaStep, control, Good
<1>2. UNCHANGED DP!fixed
  BY <1>1 DEF DP!fixed
<1>3. \A b \in Blocks : Image[b] = mem[b]
  BY DEF Image
<1>4. mem' = mem => Image' = Image
  BY DEF Image
<1>5. CASE Patch!NewPage
  <2>1. UNCHANGED <<mem, backup, xpos, Patch!loop, dry>>
    BY <1>5 DEF Patch!NewPage
  <2>2. IF step % 2 = 0 THEN DP!Increment /\ ff' = FALSE ELSE UNCHANGED <<step, ff>>
    BY <1>5 DEF Patch!NewPage, Patch!Increment, DP!Increment, DP!MarkStep
  <2> QED BY <1>2, <1>4, <1>5, <2>1, <2>2 DEF Patch!NewPage, DP!NewPage, Patch!loop, DP!loop,
       DP!Apply
<1>6. CASE Patch!SaveErase
  BY <1>2, <1>4, <1>6 DEF Patch!SaveErase, DP!SaveErase, Patch!loop, DP!loop, DP!Apply
<1>7. CASE Patch!SaveWord
  BY <1>1, <1>2, <1>3, <1>4, <1>7 DEF Patch!SaveWord, DP!SaveWord, Patch!loop, DP!loop, DP!Apply
<1>8. CASE Patch!PageSaved
  <2>1. DP!Increment /\ ff' = FALSE
    BY <1>8 DEF Patch!PageSaved, Patch!Increment, DP!Increment, DP!MarkStep
  <2> QED BY <1>2, <1>4, <1>8, <2>1 DEF Patch!PageSaved, DP!PageSaved, DP!Apply
<1>9. CASE Patch!ErasePatched
  <2>1. Image' = [Image EXCEPT ![stored.start] = DP!ErasedPage]
    BY <1>1, <1>9, ImageReplaced DEF Patch!ErasePatched
  <2> QED BY <1>2, <1>9, <2>1 DEF Patch!ErasePatched, DP!ErasePatched, Patch!loop, DP!loop,
       DP!Apply
<1>10. ASSUME NEW w, NEW v, Patch!ProgramWord(w, v) PROVE DP!ProgramWord(w, v)
  <2>1. CASE mem[stored.start][w] = Blank
    <3>1. mem' = [mem EXCEPT ![stored.start] = [mem[stored.start] EXCEPT ![w] = v]]
      BY <1>10, <2>1 DEF Patch!ProgramWord
    <3>2. Image' = [Image EXCEPT ![stored.start] = [mem[stored.start] EXCEPT ![w] = v]]
      BY <1>1, <3>1, ImageReplaced
    <3> QED BY <1>1, <1>3, <2>1, <3>2 DEF DP!ProgramWord
  <2>2. CASE mem[stored.start][w] # Blank
    BY <1>1, <1>3, <1>4, <1>10, <2>2 DEF Patch!ProgramWord, DP!ProgramWord
  <2> QED BY <2>1, <2>2
<1>11. CASE Patch!PatchWord
  BY <1>2, <1>4, <1>10, <1>11 DEF Patch!PatchWord, DP!PatchWord, DP!Apply
<1>12. CASE Patch!EndChunk
  <2>1. IF outOff = BlockSize THEN DP!Increment /\ ff' = FALSE ELSE UNCHANGED <<step, ff>>
    BY <1>12 DEF Patch!EndChunk, Patch!Increment, DP!Increment, DP!MarkStep
  <2> QED BY <1>2, <1>4, <1>12, <2>1 DEF Patch!EndChunk, DP!EndChunk, DP!Apply
<1>13. CASE Patch!TailWord
  BY <1>1, <1>2, <1>3, <1>4, <1>10, <1>13 DEF Patch!TailWord, DP!TailWord, DP!Apply
<1>14. CASE Patch!DeltaEnds
  BY <1>2, <1>4, <1>14 DEF Patch!DeltaEnds, DP!DeltaEnds, Patch!loop, DP!loop, DP!Apply
<1> QED BY <1>1, <1>5, <1>6, <1>7, <1>8, <1>9, <1>11, <1>12, <1>13, <1>14 DEF Patch!Apply

-----------------------------------------------------------------------------
(* The invariant. *)

\* An image touched under the old version is that of an installation that a
\* boot goes on with: the update is there, and the counter is past its first step.
TouchedInv ==
    nullRead /\ Version = FactoryVersion /\ Image # OldImage =>
        /\ stored \in Good /\ CP!UpdateReady /\ counter # 0
        /\ pc \in {"off", "validate", "check", "start", "run"} \cup Concluding

\* The version is recorded over what the run left.
ConcludeInv ==
    pc \in Concluding =>
        /\ err = stored.malformed /\ (pc # "c_erase" => ~err)
        /\ nullRead /\ perm = 0 => Image = IF err THEN OldImage ELSE NewImage(stored)

\* A counter at 0 is that of a dry run that has not come to the delta's first page.
CountInv ==
    /\ ~dry => stored \in Good /\ counter # 0
    /\ counter = 0 => /\ step = 0
                      /\ part = "delta" /\ stored \in Good => xpc = "loop" /\ sub = 1 /\ ~havePage

\* In an installation that began at its first step, a dry run has changed
\* nothing, and a real run is where the part under way is.
FreshInv ==
    /\ ff = FALSE
    /\ dry => /\ Image = OldImage
              /\ part = "delta" => mem[CACHE_BUF] = [w \in Words |-> Junk]
    /\ ~dry => /\ part = "commands" => EP!ExecutionInv
               /\ part = "delta" => DP!DeltaInv

RunInv ==
    pc = "run" =>
        /\ dry \in BOOLEAN /\ part \in {"commands", "delta"}
        /\ nullRead => CountInv /\ (perm = 0 => FreshInv)

BootInv == MarkedInv /\ TouchedInv /\ ConcludeInv /\ RunInv

\* The moves of the control from reset to startUpdate, and of concludeUpdate.
LEMMA BootMoves ==
    ASSUME CP!CritInv, Control!Boot, pc # "start"
    PROVE  /\ stored' = stored /\ err' = err /\ perm' = perm
           /\ \/ pc \in Beginning /\ pc' \in Beginning \cup {"app"}
              \/ pc = "c_erase" /\ pc' = (IF err THEN "app" ELSE "c_backup")
              \/ pc = "c_backup" /\ pc' \in {"c_backup", "c_crit"}
              \/ Control!EraseCritical /\ pc = "c_crit" /\ pc' = "c_write"
              \/ pc \in Switching /\ pc' \in Switching \cup {"app", "off"}
<1> USE DEF Control!goto, Control!storage, Control!record, Control!ram, Beginning, Switching
<1>1. CASE Control!PowerOn \/ Control!CriticalIsValid \/ Control!NothingToInstall
           \/ Control!StartUpdate \/ Control!ResetMetadataPage
  BY <1>1 DEF Control!PowerOn, Control!CriticalIsValid, Control!NothingToInstall,
              Control!StartUpdate, Control!ResetMetadataPage
<1>2. CASE Control!EraseBackup1 \/ Control!EraseBackup2 \/ Control!SetInProgress
           \/ Control!RevalidateCritical \/ Control!ValidateCritical
  BY <1>2 DEF Control!EraseBackup1, Control!EraseBackup2, Control!SetInProgress,
              Control!RevalidateCritical, Control!ValidateCritical
<1>3. CASE Control!EraseInvalidCritical \/ Control!RestoreCriticalWord \/ Control!WriteCritical
  BY <1>3 DEF Control!EraseInvalidCritical, Control!RestoreCriticalWord, Control!WriteCritical,
              Control!WriteCritWord
<1>4. CASE Control!ConcludeBegin
  <2>1. crit[Control!inProgressF] # Blank
    BY <1>4, UpdateIsNew, ControlOperators, WordAssumption DEF Control!ConcludeBegin, Concluding
  <2> QED BY <1>4, <2>1 DEF Control!ConcludeBegin
<1>5. CASE Control!BackupCriticalWord \/ Control!EraseCritical
  BY <1>5 DEF Control!BackupCriticalWord, Control!EraseCritical
<1>6. ~Control!ReadCounter
  BY DEF Control!ReadCounter
<1> QED BY <1>1, <1>2, <1>3, <1>4, <1>5, <1>6 DEF Control!Boot

\* A boot goes on with an update that is in progress, and concludes it.
LEMMA StartedGoesOn ==
    ASSUME CP!CritInv, Control!Boot, CP!UpdateReady, crit[CP!validF] = Valid,
           crit[CP!inProgressF] = Zero, pc \in Concluding => ~err,
           pc \in {"off", "validate", "check", "start", "run"} \cup Concluding
    PROVE  \/ Control!EraseCritical
           \/ /\ UNCHANGED <<crit, stored, location, complete, counter>>
              /\ pc' \in {"off", "validate", "check", "start", "run"} \cup Concluding
<1> USE ControlOperators
    DEF Control!goto, Control!storage, Control!record, Control!ram, Concluding
<1>1. CASE Control!PowerOn \/ Control!CriticalIsValid \/ Control!ReadCounter
  BY <1>1 DEF Control!PowerOn, Control!CriticalIsValid, Control!ReadCounter
<1>2. CASE Control!StartUpdate
  BY <1>2 DEF Control!StartUpdate
<1>3. CASE Control!ConcludeBegin \/ Control!BackupCriticalWord
  BY <1>3 DEF Control!ConcludeBegin, Control!BackupCriticalWord
<1>4. ~Control!NothingToInstall /\ ~Control!EraseInvalidCritical
  BY DEF Control!NothingToInstall, Control!EraseInvalidCritical
<1>5. ~(Control!RestoreCriticalWord \/ Control!RevalidateCritical \/ Control!EraseBackup1
        \/ Control!EraseBackup2 \/ Control!ResetMetadataPage \/ Control!SetInProgress
        \/ Control!WriteCritical \/ Control!ValidateCritical)
  BY DEF Control!RestoreCriticalWord, Control!RevalidateCritical, Control!EraseBackup1,
         Control!EraseBackup2, Control!ResetMetadataPage, Control!SetInProgress,
         Control!WriteCritical, Control!ValidateCritical
<1> QED BY <1>1, <1>2, <1>3, <1>4, <1>5 DEF Control!Boot

\* The update stays the one that was checked.
LEMMA ReadyKept ==
    ASSUME UNCHANGED <<crit, stored, location, complete>>, CP!UpdateReady
    PROVE  CP!UpdateReady'
BY DEF CP!UpdateReady, CP!ValidateHeader

-----------------------------------------------------------------------------
(* The steps. *)

LEMMA ControlStepKept ==
    ASSUME BootInv, ControlStep PROVE (TouchedInv /\ ConcludeInv /\ RunInv)'
<1>1. /\ Control!Boot /\ pc # "start" /\ CP!CritInv /\ Shape /\ MarkInv
      /\ nullRead' = nullRead /\ pc' # "run" /\ Image' = Image
  BY ControlIs, ImageKept DEF ControlStep, BootInv, MarkedInv, ControlInv, DryInv
<1>2. (Control!EraseCritical /\ Version' # FactoryVersion) \/ Version' = Version
  BY <1>1, ControlKept, VersionSwitches
<1>3. TouchedInv'
  <2> SUFFICES ASSUME nullRead', Version' = FactoryVersion, Image' # OldImage
               PROVE  /\ stored' \in Good /\ CP!UpdateReady' /\ counter' # 0
                      /\ pc' \in {"off", "validate", "check", "start", "run"} \cup Concluding
    BY DEF TouchedInv
  <2>1. nullRead /\ Version = FactoryVersion /\ Image # OldImage
    BY <1>1, <1>2
  <2>2. /\ stored \in Good /\ CP!UpdateReady /\ counter # 0
        /\ pc \in {"off", "validate", "check", "start", "run"} \cup Concluding
    BY <2>1 DEF BootInv, TouchedInv
  <2>3. crit[CP!validF] = Valid /\ crit[CP!inProgressF] = Zero
    BY <1>1, <2>1 DEF MarkInv
  <2>4. pc \in Concluding => ~err
    BY <2>2 DEF BootInv, ConcludeInv, Good
  <2>5. ~Control!EraseCritical
    BY <1>1, VersionSwitches
  <2>6. /\ UNCHANGED <<crit, stored, location, complete, counter>>
        /\ pc' \in {"off", "validate", "check", "start", "run"} \cup Concluding
    BY <1>1, <2>2, <2>3, <2>4, <2>5, StartedGoesOn
  <2> QED BY <2>2, <2>6, ReadyKept
<1>4. ConcludeInv'
  <2> SUFFICES ASSUME pc' \in Concluding
               PROVE  /\ err' = stored'.malformed /\ (pc' # "c_erase" => ~err')
                      /\ nullRead' /\ perm' = 0 =>
                             Image' = IF err' THEN OldImage ELSE NewImage(stored)'
    BY DEF ConcludeInv
  <2>1. /\ stored' = stored /\ err' = err /\ perm' = perm /\ pc \in Concluding
        /\ pc' # "c_erase" => ~err \/ pc # "c_erase"
    BY <1>1, BootMoves DEF Beginning, Switching, Concluding
  <2>2. NewImage(stored)' = NewImage(stored)
    BY <2>1
  <2> QED BY <1>1, <2>1, <2>2 DEF BootInv, ConcludeInv
<1>5. RunInv'
  BY <1>1 DEF RunInv
<1> QED BY <1>3, <1>4, <1>5

LEMMA ApplicationStepKept ==
    ASSUME BootInv, ApplicationStep PROVE (TouchedInv /\ ConcludeInv /\ RunInv)'
<1>1. /\ Control!Application /\ nullRead' = nullRead /\ Image' = Image /\ CP!CritInv
  BY ControlIs, ImageKept DEF ApplicationStep, BootInv, MarkedInv, ControlInv, DryInv
<1>2. /\ pc \in {"app", "d_write", "d_end", "d_request"}
      /\ pc' \in {"app", "d_write", "d_end", "d_request", "off"}
  BY <1>1 DEF Control!Application, Control!EraseNecessarySpace, Control!WriteHeader,
       Control!WriteLastPage, Control!DownloadFails, Control!RequestUpdate, Control!goto
<1>3. Version' = Version
  BY <1>1, <1>2, ControlKept DEF Control!EraseCritical
<1>4. TouchedInv'
  BY <1>1, <1>2, <1>3 DEF BootInv, TouchedInv, Concluding
<1> QED BY <1>2, <1>4 DEF ConcludeInv, RunInv, Concluding

\* Power may be lost anywhere.
LEMMA PowerLossKept ==
    ASSUME BootInv, PowerLoss PROVE (TouchedInv /\ ConcludeInv /\ RunInv)'
<1>1. /\ Control!PowerLoss /\ pc' = "off" /\ nullRead' = nullRead /\ Image' = Image
      /\ UNCHANGED <<crit, stored, location, complete, counter>> /\ CP!CritInv
  BY ImageKept DEF PowerLoss, Control!PowerLoss, Control!goto, Control!storage, Control!record,
                   BootInv, MarkedInv, ControlInv, DryInv
<1>2. Version' = Version
  BY <1>1 DEF Control!PowerLoss, Version, Control!Effective
<1>3. TouchedInv'
  BY <1>1, <1>2, ReadyKept DEF BootInv, TouchedInv
<1> QED BY <1>1, <1>3 DEF ConcludeInv, RunInv, Concluding

\* While commands and delta run.
LEMMA RunGoesOn ==
    ASSUME BootInv, MarkedInv', RunInv', pc = "run", pc' = "run", UNCHANGED control,
           nullRead' = nullRead, dry' /\ nullRead => dry /\ Image' = Image,
           counter # 0 => counter' # 0
    PROVE  (TouchedInv /\ ConcludeInv /\ RunInv)'
<1>1. CP!UpdateReady' /\ stored' = stored /\ Version = FactoryVersion
  <2>1. CP!UpdateReady /\ Version = FactoryVersion
    BY UpdateIsNew DEF MarkedInv, ControlInv, BootInv
  <2>2. UNCHANGED <<crit, stored, location, complete>>
    BY DEF control
  <2> QED BY <2>1, <2>2, ReadyKept
<1>2. ASSUME nullRead', Image' # OldImage PROVE stored' \in Good /\ counter' # 0
  <2>1. CASE dry'
    BY <1>1, <1>2, <2>1 DEF BootInv, TouchedInv
  <2>2. CASE ~dry'
    BY <1>2, <2>2 DEF RunInv, CountInv
  <2> QED BY <2>1, <2>2
<1>3. TouchedInv'
  BY <1>1, <1>2 DEF TouchedInv
<1> QED BY <1>3 DEF ConcludeInv, Concluding

\* startUpdate is over and the counter is read.
LEMMA BeginDryRunKept ==
    ASSUME BootInv, MarkedInv', BeginDryRun PROVE (TouchedInv /\ ConcludeInv /\ RunInv)'
<1>1. /\ Control!ReadCounter /\ pc = "start" /\ pc' = "run" /\ perm' = counter
      /\ UNCHANGED <<mem, counter, crit, backup, stored, location, complete, nullRead>>
      /\ ff' = FALSE /\ dry' = TRUE /\ step' = 0 /\ part' = "commands" /\ Image' = Image
  BY DEF BeginDryRun, Control!ReadCounter, Control!goto, Control!record, Control!storage,
         Cmd!BeginRun, Cmd!fixed, Image
<1>2. Version' = Version /\ Version = FactoryVersion
  BY <1>1, UpdateIsNew DEF Version, Control!Effective, BootInv, MarkedInv, ControlInv
<1>3. TouchedInv'
  BY <1>1, <1>2, ReadyKept DEF BootInv, TouchedInv
<1>4. nullRead' /\ perm' = 0 => Image' = OldImage
  BY <1>1, <1>2 DEF BootInv, TouchedInv
<1>5. RunInv'
  BY <1>1, <1>4 DEF RunInv, CountInv, FreshInv
<1> QED BY <1>1, <1>3, <1>5 DEF ConcludeInv, Concluding

\* What a step of commands or delta leaves to be proved.
LEMMA RunFacts ==
    ASSUME BootInv, CommandStep \/ DeltaStep
    PROVE  /\ pc = "run" /\ pc' = "run" /\ UNCHANGED control /\ UNCHANGED <<part, dry, nullRead>>
           /\ perm' = perm /\ stored' = stored /\ dry \in BOOLEAN /\ step \in Nat
           /\ counter # 0 => counter' # 0
           /\ dry /\ nullRead => Image' = Image
<1>1. pc = "run" /\ UNCHANGED control /\ [Next]_vars
  BY DEF CommandStep, DeltaStep, Running, Next, Bootloading
<1>2. UNCHANGED <<pc, part, dry, nullRead>>
  BY RunShape DEF BootInv, MarkedInv, DryInv
<1>3. counter' # counter => counter' = step + 1
  BY RunTypes DEF BootInv, MarkedInv, ControlInv
<1>4. step \in Nat /\ dry \in BOOLEAN
  BY <1>1 DEF BootInv, MarkedInv, ControlInv, RunInv
<1>5. dry /\ nullRead => Image' = Image
  BY <1>1, DryStep DEF BootInv, MarkedInv
<1> QED BY <1>1, <1>2, <1>3, <1>4, <1>5 DEF control

LEMMA CommandStepKept ==
    ASSUME Hypotheses, BootInv, MarkedInv', CommandStep
    PROVE  (TouchedInv /\ ConcludeInv /\ RunInv)'
<1>1. part = "commands" /\ part' = "commands"
  BY RunFacts DEF CommandStep, Running
<1>2. nullRead /\ dry => UNCHANGED <<mem, ff>> /\ DryCount
  BY RunFacts, DryCommand DEF BootInv, MarkedInv
<1>3. ASSUME nullRead PROVE CountInv'
  <2>1. CountInv
    BY <1>3, RunFacts DEF BootInv, RunInv
  <2>2. counter' = 0 => dry /\ counter = 0
    BY <2>1, RunFacts DEF CountInv
  <2>3. counter' = 0 => step' = 0
    BY <1>2, <1>3, <2>1, <2>2 DEF DryCount, CountInv
  <2> QED BY <1>1, <2>1, <2>3, RunFacts DEF CountInv
<1>4. ASSUME nullRead, perm = 0 PROVE FreshInv'
  <2>1. FreshInv
    BY <1>4, RunFacts DEF BootInv, RunInv
  <2>2. CASE dry
    BY <1>1, <1>2, <1>4, <2>1, <2>2, RunFacts DEF FreshInv
  <2>3. CASE ~dry
    <3>1. EP!ExecutionInv /\ EP!Execute /\ ff' = FALSE
      BY <1>1, <2>1, <2>3, RunFacts, CommandsFollow DEF FreshInv
    <3>2. EP!Hypotheses
      BY DEF EP!Hypotheses, Hypotheses, Installable
    <3>3. [EP!Next]_(EP!vars)
      BY <3>1 DEF EP!Next
    <3>4. EP!ExecutionInv'
      BY <3>1, <3>2, <3>3, EP!InvariantStep, GeometryAssumption, CommandAssumptions
    <3> QED BY <1>1, <2>3, <3>1, <3>4, RunFacts DEF FreshInv
  <2> QED BY <2>2, <2>3
<1>5. RunInv'
  BY <1>1, <1>3, <1>4, RunFacts DEF RunInv
<1> QED BY <1>5, RunFacts, RunGoesOn

LEMMA DeltaStepKept ==
    ASSUME Hypotheses, BootInv, MarkedInv', DeltaStep
    PROVE  (TouchedInv /\ ConcludeInv /\ RunInv)'
<1>1. part = "delta" /\ part' = "delta"
  BY RunFacts DEF DeltaStep, Running
<1>2. nullRead /\ dry =>
          /\ UNCHANGED <<mem, ff>> /\ DryCount
          /\ (/\ counter = 0 /\ step = 0 /\ xpc = "loop" /\ sub = 1 /\ ~havePage
              /\ stored \in Good /\ Len(stored.patch) > 0) => counter' # 0
  BY RunFacts, DryDelta DEF BootInv, MarkedInv
<1>3. ASSUME nullRead PROVE CountInv'
  <2>1. CountInv
    BY <1>3, RunFacts DEF BootInv, RunInv
  <2>2. counter' = 0 => dry /\ counter = 0
    BY <2>1, RunFacts DEF CountInv
  <2>3. counter' = 0 => step' = 0
    BY <1>2, <1>3, <2>1, <2>2 DEF DryCount, CountInv
  <2>4. counter' = 0 => stored \notin Good
    <3> SUFFICES ASSUME counter' = 0, stored \in Good PROVE FALSE
      OBVIOUS
    <3>1. Len(stored.patch) > 0
      BY DEF Hypotheses, Installable
    <3> QED BY <1>1, <1>2, <1>3, <2>1, <2>2, <3>1 DEF CountInv
  <2> QED BY <2>1, <2>3, <2>4, RunFacts DEF CountInv
<1>4. ASSUME nullRead, perm = 0 PROVE FreshInv'
  <2>1. FreshInv
    BY <1>4, RunFacts DEF BootInv, RunInv
  <2>2. CASE dry
    BY <1>1, <1>2, <1>4, <2>1, <2>2, RunFacts DEF FreshInv
  <2>3. CASE ~dry
    <3>1. stored \in Good
      BY <1>4, <2>3, RunFacts DEF BootInv, RunInv, CountInv
    <3>2. DP!DeltaInv /\ DP!Apply /\ ff' = FALSE
      BY <1>1, <2>1, <2>3, <3>1, RunFacts, DeltaFollows DEF FreshInv, BootInv, MarkedInv, DryInv
    <3>3. [DP!Next]_(DP!vars)
      BY <3>2 DEF DP!Next
    <3>4. DP!DeltaInv'
      BY <3>2, <3>3, DeltaAssumptions, DP!NextKept, GeometryAssumption
    <3> QED BY <1>1, <2>3, <3>2, <3>4, RunFacts DEF FreshInv
  <2> QED BY <2>2, <2>3
<1>5. RunInv'
  BY <1>1, <1>3, <1>4, RunFacts DEF RunInv
<1> QED BY <1>5, RunFacts, RunGoesOn

\* The dry run found nothing wrong: the flash and the cache are as at power-on.
LEMMA BeginRealRunKept ==
    ASSUME BootInv, MarkedInv', BeginRealRun PROVE (TouchedInv /\ ConcludeInv /\ RunInv)'
<1>1. /\ pc = "run" /\ part = "delta" /\ xpc = "done" /\ dry /\ ~stored.malformed
      /\ UNCHANGED control /\ part' = "commands" /\ xpc' = "commands"
      /\ Cmd!BeginRun(FALSE, perm) /\ dry' = FALSE /\ UNCHANGED <<counter, backup, nullRead>>
  BY DEF BeginRealRun, Finished, Running, Cmd!BeginRun, Cmd!fixed
<1>2. pc' = "run" /\ perm' = perm /\ stored' = stored
  BY <1>1 DEF control
<1>3. stored \in Good
  BY <1>1, UpdateIsNew DEF BootInv, MarkedInv, ControlInv, Good
<1>4. nullRead => counter # 0
  BY <1>1, <1>3 DEF BootInv, RunInv, CountInv
<1>5. ASSUME nullRead, perm = 0 PROVE FreshInv'
  <2>1. /\ Image = OldImage /\ mem[CACHE_BUF] = [w \in Words |-> Junk]
        /\ mem = [b \in Memories |-> mem[b]] /\ CP!ArePages(backup) /\ counter \in Nat
    BY <1>1, <1>5 DEF BootInv, RunInv, FreshInv, MarkedInv, DryInv, Shape, ControlInv,
                      CP!CritInv, CP!TypeOK
  <2>2. /\ ip' = 1 /\ todo' = <<>> /\ stage' = "ready" /\ xpos' = 0
        /\ chain' = Cmd!NoAddress /\ step' = 0 /\ ff' = FALSE /\ mem' = mem
    BY <1>1, <1>5 DEF Cmd!BeginRun
  <2>3. mem' = EP!AtPowerOn
    <3>1. \A b \in Blocks : mem[b] = OldImage[b]
      BY <2>1, ImageAssumption DEF Image
    <3>2. EP!CACHE_BUF = CACHE_BUF /\ EP!Words = Words
      BY DEF EP!CACHE_BUF, CACHE_BUF, EP!Words, Words
    <3>3. EP!AtPowerOn = [b \in Memories |->
                            IF b = CACHE_BUF THEN [w \in Words |-> Junk] ELSE OldImage[b]]
      BY <3>2 DEF EP!AtPowerOn, Memories
    <3> QED BY <2>1, <2>2, <3>1, <3>3 DEF Memories
  <2>4. stored'.prog \in {h.prog : h \in Good}
    BY <1>2, <1>3
  <2>5. chain' = EP!NoAddress
    BY <2>2, RunOperators
  <2>6. backup' = [b \in 1 .. 2 |-> backup'[b]] /\ \A b \in 1 .. 2 : EP!IsPage(backup'[b])
    BY <1>1, <2>1 DEF CP!ArePages, CP!IsPage, EP!IsPage, CP!Words, EP!Words
  <2>7. EP!ExecutionInv'
    BY <1>1, <2>2, <2>3, <2>4, <2>5, <2>6, EP!FreshRun, GeometryAssumption, CommandAssumptions
  <2> QED BY <1>1, <2>2, <2>7 DEF FreshInv
<1>6. RunInv'
  BY <1>1, <1>2, <1>3, <1>4, <1>5 DEF RunInv, CountInv
<1> QED BY <1>1, <1>2, <1>6, RunGoesOn

LEMMA HuginIsHugin ==
    /\ \A p, i : DP!WordsBefore(p, i) = WordsBefore(p, i)
    /\ \A p, b, flash : DP!ExecuteBSDiffPatch(p, b, flash) = ExecuteBSDiffPatch(p, b, flash)
<1>1. \A p, i : DP!WordsBefore(p, i) = WordsBefore(p, i)
  BY DEF DP!WordsBefore, WordsBefore
<1>2. \A p, b, flash : DP!ExecuteBSDiffPatch(p, b, flash) = ExecuteBSDiffPatch(p, b, flash)
  BY DEF DP!ExecuteBSDiffPatch, ExecuteBSDiffPatch, DP!PatchedWord, PatchedWord,
         DP!WordsBefore, WordsBefore, DP!Words, Words
<1> QED BY <1>1, <1>2

\* The commands are over: a real run leaves what the delta is applied to.
LEMMA BeginDeltaKept ==
    ASSUME Hypotheses, BootInv, MarkedInv', BeginDelta
    PROVE  (TouchedInv /\ ConcludeInv /\ RunInv)'
<1>1. /\ pc = "run" /\ part = "commands" /\ xpc = "done" /\ part' = "delta"
      /\ UNCHANGED <<control, backup, counter, nullRead>>
      /\ Patch!BeginDelta(step, perm, dry)
      /\ mem' = [mem EXCEPT ![CACHE_BUF] = [w \in Words |-> Junk]]
  BY CacheIsNoBlock DEF BeginDelta, Finished, Running, Patch!BeginDelta, Cmd!LoseRAM, Cmd!Words,
                        Words
<1>2. pc' = "run" /\ perm' = perm /\ stored' = stored
  BY <1>1 DEF control
<1>3. /\ xpc' = "loop" /\ xpos' = 0 /\ sub' = 1 /\ subOff' = 0 /\ outOff' = 0
      /\ havePage' = FALSE /\ step' = step /\ dry' = dry /\ ff' = (step < perm)
  BY <1>1, Zenon DEF Patch!BeginDelta
<1>4. /\ Image' = Image /\ mem'[CACHE_BUF] = [w \in Words |-> Junk] /\ dry \in BOOLEAN
      /\ CP!ArePages(backup) /\ counter \in Nat /\ step \in Nat
  BY <1>1, CacheReplaced DEF BootInv, MarkedInv, DryInv, RunInv, ControlInv, CP!CritInv, CP!TypeOK
<1>5. nullRead => CountInv'
  BY <1>1, <1>2, <1>3 DEF BootInv, RunInv, CountInv
<1>6. ASSUME nullRead, perm = 0 PROVE FreshInv'
  <2>1. FreshInv /\ (~dry => stored \in Good)
    BY <1>1, <1>6 DEF BootInv, RunInv, CountInv
  <2>2. ff' = FALSE
    <3>1. (step < perm) = FALSE
      BY <1>4, <1>6
    <3> QED BY ONLY <1>3, <3>1, Zenon
  <2>3. CASE dry
    BY <1>1, <1>3, <1>4, <2>1, <2>2, <2>3 DEF FreshInv
  <2>4. CASE ~dry
    <3>1. EP!ExecutionInv /\ stored \in Good /\ Installable(stored)
      BY <1>1, <2>1, <2>4 DEF FreshInv, Hypotheses
    <3>2. mem = EP!Final(stored.prog).mem /\ step = Counted(stored)
      BY <1>1, <3>1 DEF EP!ExecutionInv, EP!ResumeInv, Counted
    <3>3. Image = Moved(stored)
      <4>1. \A b \in Blocks : Image[b] = Moved(stored)[b]
        BY <3>1, <3>2 DEF Installable, Image
      <4> QED BY <3>1, <4>1 DEF Installable, Image
    <3>4. Image' = Moved(stored') /\ step' = Counted(stored') /\ stored' \in Good
      BY <1>2, <1>3, <1>4, <3>1, <3>2, <3>3
    <3>5. Len(stored'.patch) > 0
      BY <1>2, <3>1 DEF Installable
    <3>6. DP!ArePages(backup')
      BY <1>1, <1>4 DEF DP!ArePages, CP!ArePages, CP!IsPage, DP!Words, CP!Words
    <3>7. /\ stored'.patch \in {h.patch : h \in Good} /\ stored'.start \in {h.start : h \in Good}
          /\ Counted(stored') \in {Counted(h) : h \in Good}
          /\ Moved(stored') \in {Moved(h) : h \in Good}
      BY <3>4
    <3>8. dry' = FALSE /\ 0 \in Nat
      BY <1>3, <1>4, <2>4
    <3>9. DP!DeltaInv'
      BY <1>3, <2>2, <3>4, <3>5, <3>6, DeltaAssumptions, <3>7, <3>8, DP!FreshDelta,
         GeometryAssumption
    <3> QED BY <1>1, <2>2, <3>8, <3>9 DEF FreshInv
  <2> QED BY <1>4, <2>3, <2>4
<1>7. RunInv'
  BY <1>1, <1>2, <1>3, <1>4, <1>5, <1>6 DEF RunInv
<1> QED BY <1>1, <1>2, <1>3, <1>4, <1>7, RunGoesOn

\* A dry run that failed leaves the old image; a real run that is over leaves what
\* Hugin's virtual machine computed.
LEMMA RunEndsKept ==
    ASSUME Hypotheses, BootInv, RunEnds PROVE (TouchedInv /\ ConcludeInv /\ RunInv)'
<1>1. /\ pc = "run" /\ Control!RunEnds /\ pc' = "c_erase" /\ err' = stored.malformed
      /\ (dry /\ stored.malformed) \/ (part = "delta" /\ xpc = "done" /\ ~dry)
      /\ UNCHANGED <<crit, stored, location, complete, counter, perm, nullRead, mem>>
  BY ControlIs DEF RunEnds, DryRunFails, Finished, Running, Control!RunEnds, Control!goto,
       Control!storage, Control!record
<1>2. Version' = Version /\ Image' = Image
  BY <1>1, ControlKept DEF BootInv, MarkedInv, ControlInv, Control!EraseCritical, Image
<1>3. stored \in Headers /\ stored.malformed \in BOOLEAN
  BY <1>1, UpdateIsNew DEF BootInv, MarkedInv, ControlInv
<1>4. ASSUME nullRead, perm = 0
      PROVE  Image = IF stored.malformed THEN OldImage ELSE NewImage(stored)
  <2>1. FreshInv /\ CountInv /\ dry \in BOOLEAN
    BY <1>1, <1>4 DEF BootInv, RunInv
  <2>2. CASE dry
    BY <1>1, <2>1, <2>2 DEF FreshInv
  <2>3. CASE ~dry
    <3>1. stored \in Good /\ DP!DeltaInv /\ Installable(stored) /\ xpc = "done"
      BY <1>1, <2>1, <2>3 DEF FreshInv, CountInv, Hypotheses
    <3>2. DP!Total =< BlockSize
      BY <3>1, HuginIsHugin DEF Installable, DP!Total
    <3>3. Image = DP!ExecuteBSDiffPatch(stored.patch, stored.start, Moved(stored))
      BY <3>1, <3>2, DeltaAssumptions, DP!OneBlockIsPatched, GeometryAssumption
    <3> QED BY <3>1, <3>3, HuginIsHugin DEF NewImage, Moved, Good
  <2> QED BY <2>1, <2>2, <2>3
<1>5. ConcludeInv'
  <2>1. NewImage(stored)' = NewImage(stored)
    BY <1>1
  <2> QED BY <1>1, <1>2, <1>4, <2>1 DEF ConcludeInv
<1>6. TouchedInv'
  BY <1>1, <1>2, ReadyKept DEF BootInv, TouchedInv, Concluding
<1> QED BY <1>1, <1>5, <1>6 DEF RunInv

LEMMA StutterKept ==
    ASSUME Hypotheses, BootInv, UNCHANGED vars PROVE (TouchedInv /\ ConcludeInv /\ RunInv)'
<1>1. /\ UNCHANGED <<crit, stored, location, complete, backup, counter, pc, err, perm, nullRead>>
      /\ Image' = Image /\ UNCHANGED <<step, ff, dry, part, mem, xpc, sub, havePage>>
  BY DEF vars, control, pass, delta, Image
<1>2. Version' = Version
  BY <1>1 DEF Version, Control!Effective
<1>3. TouchedInv'
  BY <1>1, <1>2, ReadyKept DEF BootInv, TouchedInv
<1>4. ConcludeInv'
  <2>1. NewImage(stored)' = NewImage(stored)
    BY <1>1
  <2> QED BY <1>1, <2>1 DEF BootInv, ConcludeInv
<1>5. FreshInv => FreshInv'
  <2>1. UNCHANGED EP!vars /\ UNCHANGED DP!vars
    BY <1>1 DEF vars, control, commands, delta, pass, EP!vars, EP!fixed, EP!exec, CounterBefore,
                DP!vars, DP!fixed, DP!loop
  <2>2. EP!ExecutionInv => EP!ExecutionInv'
    <3>1. EP!Hypotheses
      BY DEF EP!Hypotheses, Hypotheses, Installable
    <3> QED BY <2>1, <3>1, EP!InvariantStep, GeometryAssumption, CommandAssumptions
  <2>3. DP!DeltaInv => DP!DeltaInv'
    BY <2>1, DeltaAssumptions, DP!NextKept, GeometryAssumption
  <2> QED BY <1>1, <2>2, <2>3 DEF FreshInv
<1>6. CountInv => CountInv'
  BY <1>1 DEF CountInv
<1>7. RunInv'
  BY <1>1, <1>5, <1>6 DEF BootInv, RunInv
<1> QED BY <1>3, <1>4, <1>7

LEMMA BootInvStep == ASSUME Hypotheses, BootInv, [Next]_vars PROVE BootInv'
<1>1. MarkedInv'
  BY MarkedStep DEF BootInv
<1>2. (TouchedInv /\ ConcludeInv /\ RunInv)'
  BY <1>1, ControlStepKept, ApplicationStepKept, PowerLossKept, BeginDryRunKept,
     CommandStepKept, DeltaStepKept, BeginRealRunKept, BeginDeltaKept, RunEndsKept, StutterKept
     DEF Next, Bootloading, Idle
<1> QED BY <1>1, <1>2 DEF BootInv

LEMMA BootInvAlways == ASSUME Hypotheses PROVE Spec => []BootInv
<1>1. Init => BootInv
  <2> SUFFICES ASSUME Init PROVE BootInv
    OBVIOUS
  <2>1. MarkedInv /\ pc = "off" /\ Image = OldImage
    BY MarkedStarts, ImageAtFirst
  <2> QED BY <2>1 DEF BootInv, TouchedInv, ConcludeInv, RunInv, Concluding
<1>2. BootInv /\ [Next]_vars => BootInv'
  BY BootInvStep
<1> QED BY <1>1, <1>2, PTL DEF Spec

-----------------------------------------------------------------------------
\* Wherever power is lost: a boot never gives an update up half-way.
THEOREM OldVersionHasOldImage ==
    ASSUME Hypotheses PROVE Spec => []OldVersionOnOldImage
<1>1. BootInv => OldVersionOnOldImage
  BY DEF BootInv, TouchedInv, OldVersionOnOldImage, Concluding
<1> QED BY <1>1, BootInvAlways, PTL

\* Wherever power was lost before: an update that a boot begins at its first
\* step is recorded over the image that Hugin's virtual machine computed.
THEOREM FreshRunHasImage ==
    ASSUME Hypotheses PROVE Spec => FreshRunInstalls
<1>1. BootInv /\ [Next]_vars =>
          (Version' # Version /\ perm = 0 /\ nullRead => IsImageOf(Version)')
  <2> SUFFICES ASSUME BootInv, [Next]_vars, Version' # Version, perm = 0, nullRead
               PROVE  IsImageOf(Version)'
    OBVIOUS
  <2>1. Control!EraseCritical /\ CP!CritInv
    BY ControlInvStep DEF BootInv, MarkedInv, ControlInv
  <2>2. Version' = stored.versionID /\ Version' # FactoryVersion /\ pc = "c_crit"
    BY <2>1, VersionSwitches DEF Control!EraseCritical
  <2>3. stored \in Headers /\ ~stored.malformed /\ Image = NewImage(stored)
    BY <2>1, <2>2, UpdateIsNew DEF BootInv, ConcludeInv, Concluding
  <2>4. Image' = Image
    <3>1. ~ApplicationStep
      BY <2>2 DEF ApplicationStep, Control!Application, Control!EraseNecessarySpace,
             Control!WriteHeader, Control!WriteLastPage, Control!DownloadFails,
             Control!RequestUpdate
    <3>2. ControlStep \/ PowerLoss \/ UNCHANGED vars
      BY <2>2, <3>1 DEF Next, Bootloading, BeginDryRun, Control!ReadCounter, CommandStep,
             BeginDelta, DeltaStep, BeginRealRun, RunEnds, Control!RunEnds, Finished, Running, Idle
    <3>3. CASE UNCHANGED vars
      BY <3>3 DEF vars, Image
    <3> QED BY <3>2, <3>3, ImageKept DEF BootInv, MarkedInv, DryInv
  <2> QED BY <2>2, <2>3, <2>4 DEF IsImageOf
<1> QED BY <1>1, BootInvAlways, PTL DEF Spec, FreshRunInstalls
=================================================================================
