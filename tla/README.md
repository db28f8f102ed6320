# RAVENS, verified

RAVENS updates the firmware of a small device in place, without room for a
second image. **Hugin**, on the server, compares two images and plans the update
as a program of block moves (the *commands*) followed by a binary *delta*.
**Munin**, on the device, downloads that program and runs it from its
bootloader, and must survive a power loss after any flash command.

This directory holds TLA+ models of that system, the TLC runs that check them
and TLAPS proofs about them. Paths such as `munin/core.c` are relative to `src/`.

- [Inventory](#inventory) of the system
- [Modules](#modules) and how they correspond to the code
- [Runs](#runs), their bounds and what they show
- [Fairness](#fairness)
- [Proofs](#proofs)
- [What the code does wrong](#what-the-code-does-wrong)
- [What is not modelled](#what-is-not-modelled), and the [plan](#plan)

## Inventory

| component | source | state | operations |
|---|---|---|---|
| update metadata, counter | `munin/core.c`, `munin/Bytecode/execution_utils.c` | two flash pages: location of the update, a bit field that counts steps, a footer (multiplier, valid, notExpired) | `getMetadata`, `requestUpdate`, `setMetadataPage`, `incrementCounter`, `getCurrentCounter` |
| boot control, critical metadata | `munin/core.c`, `munin/validation.c` | one flash page: key, challenge, version, updateInProgress, valid; its copy in `backupCache1` | `bootloaderPerformUpdate`, `validateCriticalMetadata`, `startUpdate`, `concludeUpdate`, `validateHeader`, `validateImage` |
| command interpreter | `munin/Bytecode/execution.c` | the flash, `cacheRAM`, `backupCache1/2`, the chain address, the step count, the fast-forward flag, the write cache | `runCommands`, `processInstruction`, `performCopy`, `performCopyWithCache`, `flushCopyCache`, `backupCache`, `restoreCache` |
| delta patcher | `munin/Delta/bsdiff.c` | the page under work, its saved copy, position in the patch | `applyDeltaPatch`, `savePageToBuffer`, `performValidation` |
| download | `munin/Userland/userland.c` | `cacheRAM`, `updateStorage`, positions in both | `checkUpdate`, `eraseNecessarySpace` |
| network box | `munin/integration/mbedOS/network/network.cpp` | two buffers, `bufferMeta`, `downloadIsOver`, a socket, a thread | `newRequest`, `downloadData`, `consumeData`, the `proxy…` calls |
| flash driver | `munin/integration/drivers/K64F` | the flash | `erase_sector`, `program_flash` |
| Hugin's virtual machine | `hugin/Scheduler/virtual_machine.cpp` | simulated flash and cache | `virtualMachine`, `executeBSDiffPatch` |
| Hugin's scheduler | `hugin/Scheduler/{graph,scheduler_passes,networks,cache_management,…}.cpp` | the graph of blocks; for each network a translation table, the layout of the cache and a block write kept back; the commands so far | the passes, `performBestSwap`, `performFinalFlush`, `insertCommand`, `generateInstructions` |
| command encoding | `hugin/Scheduler/Encoding/encoder.cpp`, `common/decoding/decoder.c` | position in the stream, the block in use, base and width of the last REBASE | `encode`, `validate`, `decodeInstruction`, `isLastInstruction` |
| compression of the delta | `hugin/Scheduler/bsdiff/bsdiff.cpp`, `common/lzfx-4k/lzfx.c`, `munin/Delta/lzfx_light.c` | on the server the run of literals and the table of hashes, on the device the positions in input and output and a token that was cut | `writeBSDiff`, `lzfx_compress`, the streaming `lzfx_decompress`, `consumeByte/Word/DWord` |
| creation of the delta | `hugin/Scheduler/{scheduler,validation}.cpp`, `hugin/Scheduler/bsdiff` | the two images, ranges to verify | `generatePatch`, trimming, `bsdiff` |

How they meet. The application calls `checkUpdate`, which drives the network box
(calls into the box, buffers shared with the download thread), writes
`updateStorage`, and leaves its request in the metadata page before it reboots.
The bootloader reads that request, checks header and image, and runs the
commands and the delta, first dry and then for real. Both programs share the
flash, the two backup pages, `cacheRAM` and the counter. `concludeUpdate`
reuses the first backup page to replace the critical metadata. On the server the
scheduler hands its commands to the encoder, which decodes them again to compare,
and to the virtual machine, whose result is the base of the delta: that
result is what the device has to end with. The device shares the decoder's
source and the compression format with the server, nothing else.

What is hard here:

- **Power loss between any two flash commands.** Every page is erased and then
  written word by word, several pages change together, and the RAM is gone. The
  counter in flash is all the bootloader knows about how far it was.
- **One buffer, several owners.** `backupCache1` serves the interpreter, the
  delta patcher and `concludeUpdate`.
- **Two readers of one counter.** The interpreter compares with the counter
  read again from flash, the patcher with the one read at boot.
- **Two threads** in the network box, with one mutex that covers the flags but
  neither the buffers nor `downloadIsOver`.
- **A plan that believes its own bookkeeping.** While blocks are erased, writes
  kept back and the cache defragmented, the scheduler knows where each byte is
  only from its translation table; later passes cancel and merge the commands.
- **Two programs that must agree without talking**: encoder and decoder on
  context and end of the stream, compressor and decompressor on two formats
  that share a control byte, at any point the stream is cut.
- **Boundaries**: the last slot of the bit field, the last block of a delta, a
  chunk that crosses a page, the end of a copy inside a programming unit.

What makes each part correct:

| component | correct when |
|---|---|
| metadata pages | one page is valid at any time; a counted step is never lost; location and counter change as one record |
| boot control | the version and the challenge change together and atomically; a started update is resumed; a requested one is installed |
| interpreter, patcher | the flash ends as Hugin computed it, whatever was interrupted; the only copy of data is always in one intact place; installation ends |
| bootloader as a whole | the application only ever runs on the image of the recorded version |
| network | a FIFO of intact chunks, no early end, no mutual wait |
| download | what is requested is complete and in place |
| scheduler | the commands turn the old image into the requested one; a finished block stays finished; the solving of a network ends |
| encoding | the device decodes the commands that were encoded and stops where they end |
| write cache | each byte copied reaches its place, no other is programmed |
| compression | the device reads what was compressed |

## Modules

| module | models | abstraction |
|---|---|---|
| `DurableRecord` | what the two metadata pages promise: a record (location, counter) that changes in one step | abstract |
| `MetadataPages` | the two pages, every flash command of `setMetadataPage` and `incrementCounter`, every caller | a slot of the bit field is a word |
| `InstalledVersion` | what the critical page promises: an installed version replaced in one step | abstract |
| `CriticalMetadata` | `bootloaderPerformUpdate` as control flow, with the critical page and its backup word by word; the application side of an update | the metadata pages are the atomic record; the installation only moves the counter and leaves any words in the backup pages; signatures are compared by the values they bind |
| `VirtualMachine` | Hugin's reference semantics of commands and delta, as operators | words for bytes |
| `Execution` | the interpreter, a flash command at a time, with cache backup, counting, fast-forward and restore; below it, as pure functions, the run of an update that no power loss interrupts, command by command: what the device has to end with | whole-word copies, atomic counter |
| `Delta` | `applyDeltaPatch`, a flash command at a time, with page saving, counting and resuming; `image` remembers the flash it began with | words for bytes, decompressed input |
| `Bootloader` | the composition: `CriticalMetadata`, `Execution` and `Delta` on one flash, one pair of backup pages, one counter | that of its parts |
| `Channel` | what the network box promises: a FIFO of at most two chunks | abstract |
| `Network` | the download thread and the calls of the application, one action per critical section and per access outside of one | a chunk is a number |
| `Download` | the loop of `checkUpdate` that strips the reply, collects pages and writes them | pages, header and reply of a few bytes |
| `WriteCache` | the path of a copy of any length to a flash written in units: `performCopyWithCache`, `flushCopyCache`, `writeToNAND` | one range of erased flash, a byte is its address |
| `Decompression` | the stream of a delta: `lzfx_compress`, the streaming `lzfx_decompress`, the reads of the patcher | a control byte and its operands are one record; small formats |
| `Instructions` | the commands and `insertCommand`, `insertNewChainedCopy`, the passes of `scheduler_codegen_optim.cpp` that chain copies and place REBASE and USE_BLOCK | addresses are numbers |
| `VirtualMemory` | the segments of a block; translation table, cache layout, `performWrite…`, `loadTaggedToTmp`, the write kept back, `makeRoom` | |
| `Networks`, `NetworkSolving` | the tokens, the nodes of a network and their links, code for a link; `performBestSwap` and `performFinalFlush` | |
| `Scheduler` | the dependency graph and its partition into networks; the passes from the graph to the commands, as a state machine, one action per pass, and per swap | moves by byte, given by the image asked for |
| `Encoding` | every field of every instruction, encoder and decoder, with the context of each | a stream is a sequence of bits |
| `Payload` | the composition: `Scheduler`, then the encoder, then the decoder on Hugin's side and on the device's | that of its parts |
| `MC…` | concrete programs, deltas, headers, images and streams for TLC | |
| `…Proofs` | the proofs, apart from the specifications | |

`DurableRecord` is implemented by `MetadataPages` (property `RecordSpec`),
`InstalledVersion` by `CriticalMetadata` (`AtomicVersion`), `Channel` by
`Network` (`QueueSpec`). `CriticalMetadata`, `Execution`, `Delta` and
`Bootloader` use the counter as the atomic record that `MetadataPages` is shown
to implement. `ExecutionProofs` shows that a run with power losses always stands at a point of
the uninterrupted one (`Run`, at the end of `Execution`).

`VirtualMachine` stands in the middle: `Scheduler` has to produce commands that
it takes to the requested image, and `Execution` has to bring the device
where it goes. `Bootloader` is an instance of its three parts over one flash, and
`BootloaderProofs` of the three modules of their proofs. `Payload` shows that the commands of the first reach the second,
and `WriteCache` what `Execution` leaves out of a copy.

Correspondence, for the details that are not obvious:

- A program counter (`pc`) names the next flash command; an action is one flash
  command with the RAM computation that leads to it. `PowerLoss` may follow any
  of them and leaves only the flash.
- `Program` is `program_flash`: a word is written only if it is erased, and the
  rest of a write is given up at the first word that is not.
- `ff`, `old`, `step`, `dry` of `Execution`, `Delta` and `MetadataPages` are
  `*fastForward`, the old counter, `*stepCount` and "`fastForward == NULL`".
- In a dry run the code reads `*fastForward` through a null pointer. `nullRead`
  is the byte found there, chosen once, from `NullReads`. Nothing in the code says which it is:
  in a vector table it is the low byte of the initial stack pointer.
- A `malformed` header fails its dry run, at any command, in the delta or at its validation
  (`DryRunFails`, the two exits of `bootloaderPerformUpdate`).
- `Displaced` of `Download` counts the bytes by which `checkUpdate` has stored the next byte
  behind its place; `inside` of `WriteCache` holds the addresses of copies that began inside
  a programming unit, and of those that went on from one.
- In `Network`, `Receive` and `Filled` are the beginning and the end of
  `socket.recv`; in between the buffer holds `Torn`.
- In `Scheduler` the state between two actions is the one between two passes or two
  calls of `performBestSwap`. An assertion that fails, one of `insertCommand`
  (`ConsecutiveErases`) or of a network, sets `ok` to false and ends in "aborted", as the program does.
- In `VirtualMemory`, a write kept back (`pending`) is the `cachedWrite…` members: the
  translation table already describes its result, the flash does not.
- In `Decompression`, `Junk` is a byte of `cacheRAM` that is not of the stream, and
  `backRef` is the offset `lzfx_light.c` keeps of a reference it cut.
- Definitions headed "Mutant" are wrong variants of the definition below
  them; no specification uses them. They show that the properties can fail.

## Runs

Passing runs:

| run | module | bounds | states | shows |
|---|---|---|---|---|
| `metadata_pages` | `MetadataPages` | 4 slots, 2 locations, 3 steps a pass | 134,160 | one valid page always; no lost step; the pair implements `DurableRecord` |
| `metadata_overflow` | `MetadataPages` | 4 slots, 6 steps a pass | 185,803 | one page stays valid through the overflow of the bit field and the two steps after it |
| `critical_metadata` | `MCCriticalMetadata` | 3 headers of two generations, 4-word page, 2 steps, 2 losses | 9,570 | version and challenge change atomically; the request ends in the installation |
| `execution` | `MCExecution` | 6 programs, 3 blocks of 4 words, 3 losses | 5,337 | the flash ends as computed by the virtual machine; the programs meet the hypotheses of the proofs (`ProgramsAreReplayable`) |
| `delta` | `MCDelta` | 9 deltas, 3 blocks of 3 words, 3 losses | 40,734 | power losses are invisible; a delta within a block does what Hugin computed |
| `bootloader` | `MCBootloader` | 2 headers, 2 blocks of 4 words, 2 losses anywhere, either byte at address 0 | 570,364 | a touched image is marked, no boot gives up half-way, a run from its first step installs, an installation ends; the headers meet the hypotheses of the proofs (`HeadersAreInstallable`) |
| `network` | `Network` | 4 chunks, 3 requests, 1 recv error | 7,157 | the two buffers are a queue; both threads go on |
| `payload` | `MCPayload` | 3 blocks of 2 bytes, each rearrangement, some repetitions | 134,979 | a plan that no assertion stops produces the image; encoder and decoder agree; the solving ends |
| `write_cache` | `WriteCache` | 16 bytes, units of 4, a misaligned write every 2 | 3,889,442 | each byte of a copy begun at a unit is written or waits, nothing else is written |
| `decompression` | `Decompression` | streams of 9 bytes, and references at 8 to 17 bytes | 15,922 | the patcher reads what was compressed |
| `download` | `Download` | header 2, page 4, reply 2, payload to 6 bytes, any chunks, 2 downloads | 17,477 | what is requested is complete and in order, up to what chunks over the end of a page displace |

Why these bounds are enough. *Metadata*: four slots have a first, middle and
last one and one that is never counted; pages alternate, so two requests show
every role of each. *Critical metadata*: four fields make the page, two losses hit a
recovery during a recovery; the second generation starts from flash that the
first left behind, and a backup page may look like valid metadata. *Execution*: the programs are the
expected results of Hugin's own tests (`hugin/Scheduler/static_tests.cpp`), with
`createChains` added; they contain every opcode that moves or
erases data, cycles through the cache,
an in-place rearrangement of the cache and up to three erases, so that both backup pages
are used and one is reused. Three losses allow one in the backup, one in the
redone work, one in the fast-forward. *Delta*: deltas end inside a block, at its
end and with an empty insertion. The counter before the delta is 0, 2 or 4, so
that it begins with either buffer. *Bootloader*: an update that exchanges two blocks
through the cache, with an ERASE, a commit and a delta that fills its block, and one that fails, at any
command, in its delta or at the end. Two losses allow one in a dry run or a real one, and one more in
the boot that resumes it or in `concludeUpdate`. *Network*: four chunks go twice around the two buffers; the third request
meets flags of one that was closed early and of one that ended. *Download*:
the payload spans the rest of the header's page and a whole further one; the
reply is cut at every place, and a chunk may be as long as a page, so that it may
begin anywhere in one page and end in the next.

*Payload*: the images are every one that puts bytes of the old one anywhere, each at most
once, and those with repeated bytes whose last block takes from the two others.
They meet blocks that need only themselves, chains, cycles of two and of
three blocks, a cycle beside a chain, data siphoned on the way, a cache that is fragmented.
Three blocks of two bytes do not reach `MakeRoom`, two branches of
`RetagSegment` and the loop of `FillBoth` over what is left, which need more
pieces in a block than it has bytes here. Blocks, REBASE and skips keep their
ratios: a REBASE may or may not be worth its bits, a gap in a chain may be too long to skip.
*Write cache*: four units, so that a
chain has a beginning, a middle and an end, and a copy may fill the cache and go on over a
whole unit. A copy begins anywhere when nothing waits in the cache, after an ERASE or at
first, so that it may begin inside a unit; one that finds the cache in use goes on where the last ended
(`Gaps = {0}`). `Erase` may come between any two copies. *Decompression*: `cacheRAM` has 16 bytes, format 1 two bits of offset and
format 2 two of length. All streams of at most eight bits and a final zero
have every alternation of runs and references of both formats. The streams in
which a pattern of 3 to 7 bytes comes back reach across the end of `cacheRAM`.

What the passing runs assume of the environment, besides the bounds:

- `metadata_pages` counts fewer steps in a pass than there are slots
  (`MaxCounter < Slots`), and `metadata_overflow` at most two more than there
  are slots: the code breaks at the next one, see below.
- `execution` loses no power between the two increments of ERASE
  (`LossDuringBackup = FALSE`), see below.
- `bootloader` assumes nothing of where power is lost nor of the byte at address 0.
  `OldVersionOnOldImage` and `FreshRunInstalls` name that byte in the
  property (`nullRead`), and the latter the counter the boot has read (`perm = 0`): without these
  the application may start on another image, see below.
- `payload` says nothing of the image when an assertion stops the plan, and asks of the
  device only what follows the first REBASE (`DeviceAgreesAfterRebase`), see below. The length
  that a merged ERASE keeps is not compared (`Sent`), see below.
- `write_cache` has no gap inside a unit, and says of the bytes of a copy that began inside one
  only that they take nothing from the others; nor what becomes of what waits in the
  cache at the end, see below.
- `decompression` says nothing of what comes after `cacheRAM` was filled once, and has
  no short reference whose offset needs the bit that format 1 lacks (offsets 4 to 7
  here, 1024 to 2047 in the code), see below. Its streams end in a zero, as that of a
  delta without ranges to verify does, for `writeBSDiff` leaves out the last
  byte, see below.
- `download` says what it says up to `Displaced`, which is 0 as long as no chunk goes past the end of
  a page (`OnlyCrossingDisplaces`), see below.

One run ends in a counterexample, `short_offset` (`ShortOffset.cfg`): a short reference to 1024 to
2047 bytes back is read as one to elsewhere, against `FirstBufferAsWritten`.

So do the configurations kept beside the runs. Each states what a comment, an assertion or a test of
the code says, or what a user of it would expect, and TLC shows that the code does not keep it
(`tlc -config X.cfg Module`). They mark the border of the passing runs: to correct the code is to make them pass.

| configuration | module | property | shows |
|---|---|---|---|
| `SchedulerAssertion.cfg` | `MCPayload` | `NoAssertionFails` | the scheduler stops at one of its assertions |
| `MergedRebase.cfg` | `MCPayload` | `RebaseCovers` | two REBASE are merged into a range that leaves out the last block |
| `HighRebase.cfg` | `MCPayload` | `PlanIsEncoded` | the encoder refuses a REBASE to a high block with a narrow range |
| `DeviceBase.cfg` | `MCPayload` | `DeviceDecodesThePlan` | without a REBASE the device decodes other block numbers |
| `CacheGaps.cfg` | `WriteCache` | `NothingLost` | a gap between copies of a unit loses data |
| `MisalignedCopy.cfg` | `WriteCache` | `MisalignedIsKept` | a copy that begins inside a unit programs 0xff in the place of its bytes |
| `CacheTail.cfg` | `WriteCache` | `CommandsAreWritten` | the end of the last copy is never written |
| `LossDuringBackup.cfg` | `MCExecution` | `ImageInstalled` | power lost between the two increments of ERASE ends in a wrong image |
| `SeveralBlockDelta.cfg` | `MCDelta` | `DeltaApplied` | a delta longer than a block is applied to its first block only |
| `DryRunForReal.cfg` | `MCBootloader` | `DryRunKeepsImage` | the dry run of the commands may erase and write the image |
| `ResumedRun.cfg` | `MCBootloader` | `VersionNeedsImage` | a resumed run skips what only the dry run did |
| `ChunkAcrossPages.cfg` | `Download` | `FullPayload` | what follows a chunk over the end of a page is not in its place |

## Fairness

- `CriticalMetadata`, `Execution`, `Delta`, `Bootloader`: weak fairness of the
  bootloader's own steps. It is a sequential program that waits for nothing;
  only a power loss stops it, and losses are bounded. Nothing is
  assumed of the application: it may never ask for an update.
- `CriticalMetadata` also has weak fairness of `RunEnds`: that an installation
  ends is what `Finishes` of `Execution` and `Delta` shows.
- `Network`: weak fairness of the thread and of the application. The RTOS
  schedules both round robin, each waits with a timeout and retries, and the
  mutex is held for a few instructions. Weak fairness of the thread also says that the server answers each
  `recv`, and `MaxErrors` that errors on an open session are transient.
- `MetadataPages`, `Download`, `WriteCache` and `Decompression` have safety properties only.
- `Payload` has no fairness either. That the solving of a network ends is `SwapProgress`, an
  action property: each swap makes a node final or leaves fewer bytes to send.

## Proofs

Checked by TLAPS for every value of the constants that satisfies the named assumptions.

| theorem | states | under |
|---|---|---|
| `MetadataPagesProofs!OneValidAlways` | `Spec => []OneValid` | `MaxCounter =< Slots + 2` |
| `MetadataPagesProofs!TypeCorrect` | `Spec => []TypeOK` | the same |
| `MetadataPagesProofs!PagesImplementRecord` | `Spec => RecordSpec` | `MaxCounter < Slots` |
| `MetadataPagesProofs!NoStepLost` | `Spec => []NoLostIncrement` | the same |
| `MetadataPagesProofs!FastForwardStops` | `Spec => []FastForwardWithinCounter` | the same |
| `CriticalMetadataProofs!BackupIsCritical` | `Spec => []CriticalRecoverable` | – |
| `CriticalMetadataProofs!StartedAlways` | `Spec => []StartedIsRemembered` | – |
| `CriticalMetadataProofs!ConcludeIsAtomic` | `Spec => AtomicVersion` | – |
| `ExecutionProofs!StepIsCounted` | `Spec => []CounterIsStep` | – |
| `ExecutionProofs!UpdateSurvivesPowerLoss` | `Spec => []ImageInstalled` | `~LossDuringBackup`, `Replayable(p)` and `AgreesWithVM(p)` for each program `p` |
| `ExecutionProofs!BackupSurvives` | `Spec => []BackupIsIntact` | the same |
| `DeltaProofs!DeltaSurvivesPowerLoss` | `Spec => []PowerLossIsInvisible` | – |
| `DeltaProofs!OpenPageHasCopy` | `Spec => []SavedPageIsIntact` | – |
| `DeltaProofs!DeltaAgreesWithHugin` | `Spec => []OneBlockDelta` | – |
| `NetworkProofs!ChunksReadIntact` | `Spec => []ReadIntact` | – |
| `NetworkProofs!AllChunksRead` | `Spec => []EverythingRead` | – |
| `NetworkProofs!BuffersAreAQueue` | `Spec => QueueSpec` | – |
| `DownloadProofs!EveryByteIsKept` | `Spec => []NothingLost` | – |
| `DownloadProofs!CompleteWhenRequested` | `Spec => []RequestedIsComplete` | – |
| `DownloadProofs!CrossingDisplaces` | `Spec => OnlyCrossingDisplaces` | – |
| `DownloadProofs!OnlyNecessaryPagesWritten` | `Spec => OnlyNecessaryPages` | – |
| `WriteCacheProofs!EveryByteIsWritten` | `Spec => []NothingLost` | `Gaps = {0}` |
| `WriteCacheProofs!NoStrayByte` | `Spec => []NothingElse` | the same |
| `BootloaderProofs!InstallationIsAtomic` | `Spec => CP!AtomicVersion` | – |
| `BootloaderProofs!CriticalIsRecoverable` | `Spec => []CP!CriticalRecoverable` | – |
| `BootloaderProofs!TouchedIsMarked` | `Spec => []MarkedBeforeTouched` | – |
| `BootloaderProofs!OldVersionHasOldImage` | `Spec => []OldVersionOnOldImage` | `Installable(h)` for each well-formed header `h` |
| `BootloaderProofs!FreshRunHasImage` | `Spec => FreshRunInstalls` | the same |

Beside the column on the right, each theorem rests on the named assumption of its
module (`SlotsAssumption`, `ProgramsAssumption`, `DeltaAssumption` and so on), which says
of what sort the constants are. Each assumption is evaluated by the runs.

The bound `Slots + 2` is tight: with `MaxCounter = Slots + 3` TLC finds a state with
no valid page.

*One valid page.* `OneValid` alone is not inductive: `ExpireOld` makes a page
invalid, and only what `setMetadataPage` did before tells that the other one is
valid. `PagesInv` adds which page is valid at each point of `setMetadataPage`
(`SetMetadataPageInv`), that a page is complete before it carries its mark
(`CompleteIfValid`), and that a step is never past the bound (`StepInv`), which
keeps the misplaced zero away from `notExpired`.

*The record.* The refinement needs the value of the counter, the number of
leading zeroed slots. `CountsInv` says that the zeroed slots of a valid page
form a prefix (so programming the next one adds exactly one, lemma `ZeroSlot`),
`NewPageInv` what the page being written contains so far, and `PassInv` how the
step of the pass relates to the counter: a pass that skips is behind it, one
that executes is not ahead of it.

*The critical page.* `CritInv` has four parts beside the type. `SoundInv`: the
page in use describes a device, or the backup does. `RestoreInv`: a page being
written back is a prefix of the backup. `UpdateInv`: what was checked before
`startUpdate` still holds at `concludeUpdate`. `ConcludeInv`: the copy being
saved is the critical page with the new version and challenge. The atomic step
of the refinement is the erase of the critical page: before it, the old page is
the effective one, after it the backup.

*The interpreter.* `ImageInstalled` compares the end of a run with losses with what
Hugin computed. Two facts separate these: a run with losses ends where the
uninterrupted one does, and the uninterrupted one does what Hugin's machine
does. The first is what the code has to get right, and is proved; the second is
`AgreesWithVM`, a fact about a single program without losses, which
`ProgramsAreReplayable` evaluates for the programs of the run.

`RunInv` says that there is a state `d` of the uninterrupted run at which the
device stands (`PlaceInv`): what is left in `todo` takes `d` to the state after the command, the
chain is the same and the step is twice the number of ERASEs so far. While the device
executes, its memory is that of `d` (`MemoryInv`); while it skips, only its place
is. `FlashInv` says what a reset finds: with the counter at `2k`, the backup
page of ERASE `k` holds `cacheRAM` as it was then and every block but the one of
ERASE `k` holds what it did then. So the skip may end there: the block is erased
again and the cache restored.

Both hypotheses are needed. `Replayable` says that from one ERASE to the next
only the block erased last is written: with a copy to another block, redoing the work would find that
block written, and `program_flash` gives up at a word that is not blank. Hugin plans
that way. `~LossDuringBackup` keeps the counter even at a reset: with an odd one
the skip ends inside of an ERASE (`LossDuringBackup.cfg`).
`CounterIsStep` needs neither.

*The patcher.* The counter alone tells what page and copy must hold: after an odd
number of steps the page is complete, after an even one its copy in one of the two backup
pages is (`FlashInv` of `DeltaInv`). `PlaceInv` adds where the run is in the delta and
`ContentInv` how much of the page it has written; a loss forgets these, and
the page is made again from the copy. The content is `PatchedPage`, one pass of the delta
over the page after the other. That the first pass is Hugin's, and that a pass past the
end of the delta changes nothing, uses induction, by
`Induction` of `DeltaProofs`. The prover cannot instantiate the induction
theorems of the library, as their parameter is an operator; over a *set* of
natural numbers induction is first-order and follows from `LeastNatural`.

*The network box.* `NetworkInv` says which buffer belongs to whom: the flag of each
buffer, the phase of each thread and the order in which both go through the buffers
determine which chunks are in which. The states that need it are those between the two
critical sections of a thread, when a flag is not yet true to the buffer. The abstract
queue is the full buffers in the order in which they will be read, and `downloadIsOver`, read outside
of the mutex, is harmless as it is set only after the last flag.

*The download.* `Content` of `DownloadInv` says that the bytes collected are stored in order, each
at most `Displaced` places behind its own. The rest of the invariant ties the positions in
chunk, page and flash to `manifestLength`: a chunk of which a part went into the page before
meets an empty page (`ChunkInv`), and is then copied at its *whole* length, so that `bufferPos`
moves on by what that page took of it, over bytes that are not of the package. `CrossingDisplaces` shows that
nothing else moves `Displaced`: with chunks that end at the page's end at most, all three say that every byte
is in its place. A displaced package may take more pages than `eraseNecessarySpace` made room in, which
`OnlyNecessaryPages` allows for with `Displaced'`. None of the theorems has a hypothesis.

*The write cache.* `Accounts` of `WriteCacheInv` names the addresses `to` whose bytes are written or
wait: all that was asked for, but for copies that began inside a unit. The device is `Sound` when
what waits began at a unit: the unit begins where `prevDest` says, has no hole, and the flash behind it is
blank. It is `Loose` when what waits is the end of a copy that began inside a unit, whose first bytes
`writeToNAND` has replaced by 0xff: it may be written to the wrong place or not at all, but what is
programmed is each time in its place. So `program_flash` gives up on no byte of another copy, and a copy that
goes on meets the unit of the one before (`SameUnit`). `Gaps = {0}` is needed:
a copy that leaves a gap goes the way of `OtherUnit` or is padded, and both are wrong
(`CacheGaps.cfg`).

*The composition.* `BootloaderProofs` instantiates the proof modules of the three parts with the
state of `Bootloader` (`CP`, `EP`, `DP`), so that their invariants and lemmas speak of the
one flash, the one pair of backup pages and the one counter that the parts share here. Every step
of `Bootloader` is then a step of the part that is running, or of none.

- *The control.* For `CriticalMetadata` the installation is whatever leaves any words in the backup pages
  and moves the counter. The commands and the delta do just that (`ControlInv`), so the atomic
  version and the copy of the critical page hold in the composition for all updates, images and
  power losses, those in the dry run included.
- *The mark.* `MarkInv`: while the factory's version is recorded, its critical page is valid, and
  the image is the old one unless that page says that an update is in progress. Only a run changes the image, and
  `startUpdate` has marked the page by then, dry run or not.
- *The dry run.* Its copies and erasures are skipped because of what `*fastForward` is,
  read through a null pointer. `DryPlace` says that a dry run that reads a true byte never gets
  between two flash commands, so there is no step whose skip was decided elsewhere. It still counts
  its steps in flash (`DryCount`), so a real run never finds the counter at 0 (`CountInv`).
- *No way back.* `TouchedInv`: an image that was touched under the old version is that of a
  well-formed update which is still there, with a counter that is past 0. Its dry run does not
  fail, so each boot goes on with it until the new version is recorded.
- *The real run.* `FreshInv` holds the invariant of `ExecutionProofs` while commands run for real
  and that of `DeltaProofs` while the delta is applied for real, in a run that read the counter as 0. The
  counter of these two is instantiated by `step`, the code's `traceCounter`: the dry run has already moved
  the counter in flash, so it is not the number of steps of the run, and a run that begins at its first step
  never reads it. `FreshRun` and `FreshDelta` say that a run and a delta that begin satisfy
  these invariants with any words in the backup pages; that the first ends where the second begins
  is `ResumeInv` of `ExecutionProofs`, with the image of the delta instantiated by `Moved(h)`, what the
  commands of the header make of the old image. `OneBlockIsPatched` says what the delta leaves, and
  `ConcludeInv` that it is still there when the version is recorded.

The theorems are about updates of the factory version (`HeaderAssumption`), the next one after
which is another instance of the same with its own `OldImage`. `Installable` is what Hugin
makes sure of: its virtual machine computes what the commands do (`AgreesWithVM`, for the blocks),
they can be replayed, and the delta is not empty and fits in a block; `HeadersAreInstallable`
shows that the headers of the run meet it. `FreshRunHasImage` is about any boot that reads
the counter as 0, wherever power was lost in the ones before; a boot that resumes from another one skips what
the dry run counted, and the theorem is false for it (`ResumedRun.cfg`).

Only model-checked:

- Liveness (`RequestedIsInstalled`, `Finishes`, `InstallationEnds`, `RequestEnds`), which
  needs fairness and ENABLED.
- `Scheduler`, `Payload` and `Decompression`: they declare RECURSIVE operators, about
  which the prover can show nothing.
- `AgreesWithVM` and `Replayable` for particular programs, which TLC evaluates.

## What the code does wrong

Each of these is shown by a run or a configuration, which is named at the end:

- **Format 1 has ten bits of offset, and takes eleven.** `MAX_OFF_FORMAT_1` is `1u << 11u`
  (`lzfx.c:78`), the fields hold ten (`lzfx.c:196`). Compiled and run on 4000
  random bytes, `lzfx.c` gives the same (`short_offset`).
- **ERASE counts twice** and loses its place when power is lost in between
  (`execution.c:240`, `LossDuringBackup.cfg`).
- **A delta over several blocks** begins again at its first one
  (`bsdiff.c:397`, `SeveralBlockDelta.cfg`).
- **The dry run takes `*fastForward` from address 0** and executes for real when that byte
  is zero (`core.c:225`, `DryRunForReal.cfg`).
- **The dry run moves the counter in flash.** `incrementCounter` writes when
  `fastForward` is NULL (`execution_utils.c:121`). A boot after a power loss takes the steps of the
  dry run for executed ones and skips them (`ResumedRun.cfg`). A run that no power loss
  interrupts reads the counter before its dry run, and is right.
- **A chunk over the end of a page** is copied at its whole length behind what the page took of it
  (`userland.c:243`, `ChunkAcrossPages.cfg`).
- **The device starts from base `BLOCK_ID_SPACE`** (`execution.c:304`), the encoder and its
  `validate` from 0 (`encoder.cpp:440`). Commands before the first REBASE go to other
  blocks (`DeviceBase.cfg`).
- **REBASE checks its own block number against the new width**
  (`encoder.cpp:55`, from `encoder.cpp:193`), although it writes it in
  `BLOCK_ID_SPACE` bits: a narrow range of high blocks aborts (`HighRebase.cfg`).
- **`updateLastRebase` merges two ranges into one that is a block too short**
  (`scheduler_codegen_optim.cpp:422`): the encoder then refuses the last block
  (`MergedRebase.cfg`).
- **Assertions of the scheduler that can fail** on images the device could hold:
  `networks.cpp:724` (`SchedulerAssertion.cfg`). Compiled and run on random images of three blocks of two
  bytes and of four blocks of four, in some of which bytes are wanted twice, the scheduler stops at
  `network.h:321`, `cache_management.cpp:341` and `scheduler_codegen.cpp:230`, too.
- **The write cache is flushed by ERASE only** (`execution.c:235`): what waits when the
  commands end is lost (`CacheTail.cfg`). A flush because of another unit writes
  to the destination of the *new* copy (`execution.c:38`), and the
  padding of a gap is added wrongly (`execution.c:47`, `CacheGaps.cfg`).
- **A misaligned write programs 0xff** where the source should go
  (`execution_utils.c:194`, `MisalignedCopy.cfg`). On the K64F the bit field starts four bytes into
  the page and is written in units of eight bytes, so half of each slot is never zeroed
  and the counter would not move. `MetadataPages` has the aligned layout.

The scheduler and the encoder were also compiled, with the geometry of `Payload.cfg`, and run on the images of that run:
13,053 of the 13,597 give the plan that the model gives, command for command, 64 abort at `networks.cpp:724` and 480
are refused at `encoder.cpp:55`, in both alike. The assertion of `insertCommand`
(`scheduler_codegen_optim.cpp:85`) fails for none of them.

Met while modelling, shown by neither:

- **The bit field overflows into the footer.** After an overflow
  `incrementCounter` indexes the bit field with `*counter - 1`, not reduced
  modulo the number of slots (`execution_utils.c:134`): the next steps zero
  `multiplier`, then `valid`, then `notExpired`, and after the third no page is
  valid and the assertion of `getMetadata` (`core.c:73`) fails. Run `MetadataPages` with
  `MaxCounter = Slots + 3` to see it.
- **`concludeUpdate` erases `backupCache1` first** (`core.c:110`), while the
  update is still in progress and the last page may have to be redone from it.
- **A failed update leaves its counter.** `concludeUpdate(true)` does not clear
  `updateInProgress` (`core.c:124`), so the next update is resumed rather than
  started if no request resets the record in between.
- **A failed connect** (`network.cpp:246`) leaves `downloadIsOver` and the flags
  of the request before, and `checkUpdate` never looks at the result: it polls
  for ever, or reads old chunks.
- **`Encoder::validate` compares the length of an ERASE**, which is not sent; an
  ERASE made from a COMMIT that had one would fail it (`scheduler_codegen_optim.cpp:124`).
- **`writeBits` shifts a full qword** when a field ends where the qword does and
  another follows (`encoder.cpp:48`); only COPY_NN gets there, with
  `FLASH_SIZE_BIT = 30`. `EncodingAssumption` excludes it.
- **The assertion of `readBits`** compares `offset >> 8` with a number of bytes
  (`decoder.c:32`): it does not keep a read inside the stream. `StopsAtTheEnd` states
  that reads stay inside.
- **A stream longer than `cacheRAM`**: `consumeByte` asks for more (`bsdiff.c:49`),
  but the output position is never set back, so the second part lands behind `cacheRAM` and the first
  is read again. A reference cut at the end resumes from a wrong offset
  (`lzfx_light.c:185`), and a literal run that finds no room left copies 256 bytes
  (`lzfx_light.c:220`). The comment at `bsdiff.c:219` says "never using more than 4K of memory".
  `FirstBufferAsWritten` is what remains true.
- **`writeBSDiff` compresses one byte too few** (`bsdiff.cpp:360`): with ranges to verify
  the last byte of the last hash is lost.
- **Ranges to verify**: `addReadRange` gets the length of a LOAD_AND_FLUSH, which is 0, for
  a read of a block (`validation.cpp:240`). Read only.
- **`trimBSDiff` returns one byte too few** when the last delta is all zeros and is
  dropped (`scheduler.cpp:46`), which the assertion of `generatePatch`
  on `lengthTrimmed` then refuses. Read only.

## What is not modelled

- The text of the requests, the manifest phase of `checkUpdate`, base64.
- Cryptography: a signature is right or wrong by the values it binds.
- The registers of the flash controller and the interrupt flag of the driver.
- uVisor boxes and RPC: the calls are direct.
- The search of `bsdiff`, the trimming of deltas and the choice of ranges to verify: they
  go over whole images in sequence and share no state with the rest; a model small enough for TLC
  says little about them. SHA: third-party.
- `lzfx_decompress` and `lzfx_getsize` of `lzfx.c`: only a test program calls them.
- The moves and the early skip of `generatePatch`: `Payload` starts from what each byte
  of the new image should be.
- The command line, the web server, the batch mode: file handling.

## Plan

Done: the modules above, in the order `MetadataPages`, `CriticalMetadata`,
`VirtualMachine`, `Execution`, `Delta`, `Bootloader`, `Network`, `Download`,
`Scheduler` with its parts, `Encoding`, `Payload`, `WriteCache`, `Decompression`.

Next, in order:

1. The failures of the network box: a connect that fails, errors of `recv` that last. Property: the
   application is told, or asks again.
2. A failed update that leaves its record (`core.c:124`), and the next one.
3. The layout of the K64F in `MetadataPages`: slots that are not whole units.
4. `PatchCreation`: `generatePatch` and the trimming of deltas.
5. `Decompression` with recursive functions in the place of RECURSIVE operators, so that
   `FirstBufferAsWritten` can be proved.
