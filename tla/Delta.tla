--------------------------------- MODULE Delta ---------------------------------
(***************************************************************************)
(* Munin's application of a binary delta: applyDeltaPatch, getBuffer,      *)
(* savePageToBuffer of munin/Delta/bsdiff.c.  A block is saved to one of   *)
(* the two backup pages, erased, and rewritten from the saved copy and     *)
(* from the delta; the counter in flash tells a reboot where to go on.     *)
(*                                                                         *)
(* The delta is a sequence of sub-segments [insert, data], decompressed:   *)
(* lzfx and the consume functions only deliver its words in order.  Every  *)
(* flash command is an action.                                             *)
(***************************************************************************)
EXTENDS VirtualMachine, FiniteSets

CONSTANTS Patches,           \* the deltas considered
          Starts,            \* blocks a delta may start at
          Images,            \* what the flash may hold when the delta begins
          StepsBefore,       \* values of the counter when the delta begins
          MaxLosses          \* bound: power losses

\* A delta has words of the flash; a command that counts, ERASE, counts two steps.
ASSUME DeltaAssumption ==
    /\ Patches \subseteq Seq([insert : BOOLEAN, data : Seq(0 .. WordSize - 1)])
    /\ Starts \subseteq Blocks
    /\ Images \subseteq [Blocks -> [Words -> 0 .. WordSize - 1]]
    /\ \A c \in StepsBefore : c \in Nat /\ c % 2 = 0

VARIABLES mem,               \* flash: the blocks of the image
          backup,            \* flash: backupCache1 and backupCache2
          counter,           \* flash: getCurrentCounter()
          patch,             \* the delta
          start,             \* currentPage
          before,            \* traceCounter when applyDeltaPatch is called
          image,             \* what the flash holds then
          pc,                \* where applyDeltaPatch is
          pos,               \* next word of the page being saved
          sub,               \* sub-segment under way: currentSegment and didDelta
          subOff,            \* currentSegmentOffset
          outOff,            \* currentOutputOffset
          havePage,          \* haveCachedPage
          step,              \* traceCounter
          ff,                \* resuming
          old,               \* previousCounter
          dry,               \* dryRun
          losses             \* power losses so far

fixed == <<patch, start, before, image>>
loop  == <<sub, subOff, outOff, havePage>>
vars  == <<mem, backup, counter, fixed, pc, pos, loop, step, ff, old, dry, losses>>

\* getBuffer.  For c = 0 - 1, the unsigned wrap-around has bit 1 set as well.
GetBuffer(c) == IF (c \div 2) % 2 = 1 THEN 2 ELSE 1

\* incrementCounter(&step, old, ff or NULL) on the atomic counter.
MarkStep(c) == IF c = counter + 1 THEN c ELSE counter
Increment ==
    /\ step' = step + 1
    /\ IF dry \/ ~ff THEN counter' = MarkStep(step + 1) /\ UNCHANGED ff
                     ELSE ff' = (step + 1 # old) /\ UNCHANGED counter

\* Mutant: the dry run is not told from the real one.
ResumingOnly(flag) == flag

Resuming(flag) == dry \/ flag

-----------------------------------------------------------------------------
Init ==
    /\ patch \in Patches /\ start \in Starts /\ before \in StepsBefore /\ image \in Images
    /\ mem = image /\ backup = [b \in 1 .. 2 |-> ErasedPage]
    /\ counter = before
    /\ pc = "off" /\ pos = 0
    /\ sub = 1 /\ subOff = 0 /\ outOff = 0 /\ havePage = FALSE
    /\ step = 0 /\ ff = FALSE /\ old = 0 /\ dry = FALSE
    /\ losses = 0

\* Mutant: a delta always starts from its first page.
BeginDeltaAfresh(trace, previous, isDry) ==
    /\ pc' = "loop" /\ pos' = 0
    /\ sub' = 1 /\ subOff' = 0 /\ outOff' = 0 /\ havePage' = FALSE
    /\ step' = trace /\ old' = previous /\ dry' = isDry
    /\ ff' = FALSE
    /\ UNCHANGED <<backup, counter, fixed>>

\* The call applyDeltaPatch(header, index, trace, previous, isDry).
BeginDelta(trace, previous, isDry) ==
    /\ pc' = "loop" /\ pos' = 0
    /\ sub' = 1 /\ subOff' = 0 /\ outOff' = 0 /\ havePage' = FALSE
    /\ step' = trace /\ old' = previous /\ dry' = isDry
    /\ ff' = (trace < previous)
    /\ UNCHANGED <<backup, counter, fixed>>

\* A boot: the commands are fast-forwarded, then the delta goes on.
Boot ==
    /\ pc = "off"
    /\ BeginDelta(before, counter, FALSE)
    /\ UNCHANGED <<mem, losses>>

-----------------------------------------------------------------------------
(* "New page to patch!" *)

More == pc = "loop" /\ sub =< Len(patch)

\* Mutant: the page is not saved before it is erased.
NewPageUnsaved ==
    /\ More /\ ~havePage
    /\ IF step % 2 = 0 THEN Increment ELSE UNCHANGED <<step, ff, counter>>
    /\ pc' = "second"
    /\ UNCHANGED <<mem, backup, fixed, pos, loop, old, dry, losses>>

NewPage ==
    /\ More /\ ~havePage
    /\ IF step % 2 = 0 THEN Increment ELSE UNCHANGED <<step, ff, counter>>
    /\ pc' = IF Resuming(ff') THEN "second" ELSE "s_erase"
    /\ UNCHANGED <<mem, backup, fixed, pos, loop, old, dry, losses>>

SaveErase ==
    /\ pc = "s_erase" /\ pc' = "s_write"
    /\ backup' = [backup EXCEPT ![GetBuffer(step)] = ErasedPage]
    /\ UNCHANGED <<mem, counter, fixed, pos, loop, step, ff, old, dry, losses>>

SaveWord ==
    /\ pc = "s_write"
    /\ backup' = [backup EXCEPT ![GetBuffer(step)][pos] = mem[start][pos]]
    /\ pos' = (pos + 1) % BlockSize
    /\ pc' = IF pos' = 0 THEN "second" ELSE pc
    /\ UNCHANGED <<mem, counter, fixed, loop, step, ff, old, dry, losses>>

PageSaved ==
    /\ pc = "second"
    /\ Increment
    /\ havePage' = TRUE /\ outOff' = 0
    /\ pc' = IF Resuming(ff') THEN "loop" ELSE "p_erase"
    /\ UNCHANGED <<mem, backup, fixed, pos, sub, subOff, old, dry, losses>>

ErasePatched ==
    /\ pc = "p_erase" /\ pc' = "loop"
    /\ mem' = [mem EXCEPT ![start] = ErasedPage]
    /\ UNCHANGED <<backup, counter, fixed, pos, loop, step, ff, old, dry, losses>>

-----------------------------------------------------------------------------
(* Patching: as many words as the sub-segment and the page allow. *)

SubLength == Len(patch[sub].data)
ProgramWord(w, value) ==
    mem' = IF mem[start][w] = Blank THEN [mem EXCEPT ![start][w] = value] ELSE mem

PatchWord ==
    /\ More /\ havePage /\ subOff < SubLength /\ outOff < BlockSize
    /\ LET d == patch[sub].data[subOff + 1]
           o == backup[GetBuffer(step - 1)][outOff]
       IN  IF Resuming(ff) THEN UNCHANGED mem
           ELSE ProgramWord(outOff, IF patch[sub].insert THEN d ELSE (o + d) % WordSize)
    /\ subOff' = subOff + 1 /\ outOff' = outOff + 1
    /\ UNCHANGED <<backup, counter, fixed, pc, pos, sub, havePage, step, ff, old, dry, losses>>

\* The end of an iteration: the sub-segment, the page, or both are finished.
\* currentPage is not moved: the next page to patch is the same one.
EndChunk ==
    LET subDone == subOff = SubLength
        pageDone == outOff = BlockSize
    IN  /\ More /\ havePage /\ (subDone \/ pageDone)
        /\ sub' = IF subDone THEN sub + 1 ELSE sub
        /\ subOff' = IF subDone THEN 0 ELSE subOff
        /\ havePage' = ~pageDone
        /\ IF pageDone THEN Increment ELSE UNCHANGED <<step, ff, counter>>
        /\ UNCHANGED <<mem, backup, fixed, pc, pos, outOff, old, dry, losses>>

\* Mutant: the end of the last page is not rewritten.
TailDropped ==
    /\ pc = "loop" /\ sub > Len(patch) /\ outOff < BlockSize
    /\ outOff' = BlockSize
    /\ UNCHANGED <<mem, backup, counter, fixed, pc, pos, sub, subOff, havePage, step, ff, old,
                   dry, losses>>

\* Mutant: a word that is not blank is tried again.
TailInsisting ==
    /\ pc = "loop" /\ sub > Len(patch) /\ outOff < BlockSize
    /\ IF Resuming(ff) THEN outOff' = BlockSize /\ UNCHANGED mem
       ELSE IF mem[start][outOff] # Blank THEN UNCHANGED <<outOff, mem>>
       ELSE outOff' = outOff + 1 /\ ProgramWord(outOff, backup[GetBuffer(step - 1)][outOff])
    /\ UNCHANGED <<backup, counter, fixed, pc, pos, sub, subOff, havePage, step, ff, old, dry,
                   losses>>

\* The delta is over: the rest of the last page comes from its saved copy, in
\* one writeToNAND, which gives up at the first word that is not blank.
TailWord ==
    /\ pc = "loop" /\ sub > Len(patch) /\ outOff < BlockSize
    /\ IF Resuming(ff) \/ mem[start][outOff] # Blank
       THEN outOff' = BlockSize /\ UNCHANGED mem
       ELSE outOff' = outOff + 1 /\ ProgramWord(outOff, backup[GetBuffer(step - 1)][outOff])
    /\ UNCHANGED <<backup, counter, fixed, pc, pos, sub, subOff, havePage, step, ff, old, dry,
                   losses>>

DeltaEnds ==
    /\ pc = "loop" /\ sub > Len(patch) /\ outOff = BlockSize
    /\ pc' = "done"
    /\ UNCHANGED <<mem, backup, counter, fixed, pos, loop, step, ff, old, dry, losses>>

-----------------------------------------------------------------------------
PowerLoss ==
    /\ pc # "off" /\ pc' = "off"
    /\ losses < MaxLosses /\ losses' = losses + 1
    /\ UNCHANGED <<mem, backup, counter, fixed, pos, loop, step, ff, old, dry>>

Terminated == pc = "done" /\ UNCHANGED vars

Apply == NewPage \/ SaveErase \/ SaveWord \/ PageSaved \/ ErasePatched
         \/ PatchWord \/ EndChunk \/ TailWord \/ DeltaEnds

Next == Boot \/ Apply \/ PowerLoss \/ Terminated

\* A sequential program that only a power loss stops.
Spec == Init /\ [][Next]_vars /\ WF_vars(Boot \/ Apply)

-----------------------------------------------------------------------------
(* Properties. *)

Total == WordsBefore(patch, Len(patch))

\* A page after `n` passes of applyDeltaPatch over it, without power loss.
PatchedPage(delta, page, n) ==
    LET p[j \in 0 .. n] ==
          IF j = 0 THEN page
          ELSE [w \in Words |->
                  LET k == (j - 1) * BlockSize + w
                  IN  IF k < WordsBefore(delta, Len(delta))
                      THEN PatchedWord(delta, k, p[j - 1][w]) ELSE p[j - 1][w]]
    IN  p[n]
Patched(n) == PatchedPage(patch, image[start], n)
Passes == (Total + BlockSize - 1) \div BlockSize

\* A delta ends with the same image whatever power losses it went through,
\* wherever they fell, between two flash commands.
PowerLossIsInvisible ==
    pc = "done" => mem = [image EXCEPT ![start] = Patched(Passes)]

\* A delta that fits in a block turns the image into the one Hugin computed
\* with executeBSDiffPatch when it validated the patch.
OneBlockDelta ==
    pc = "done" /\ Total =< BlockSize => mem = ExecuteBSDiffPatch(patch, start, image)

\* From the moment a page may be erased until it is entirely rewritten, the
\* buffer it is rewritten from holds the page as it was: even counters say that
\* the page is open.
SavedPageIsIntact ==
    counter % 2 = 0 /\ counter > before =>
        backup[GetBuffer(counter - 1)] = Patched((counter - before - 2) \div 2)

\* Every delta ends.
Finishes == <>(pc = "done")

\* Every delta does what executeBSDiffPatch computed, on as many blocks as it
\* covers ("New page to patch!", bsdiff.c:259).
DeltaApplied == pc = "done" => mem = ExecuteBSDiffPatch(patch, start, image)
=============================================================================
