------------------------------- MODULE Bootloader -------------------------------
(***************************************************************************)
(* bootloaderPerformUpdate of munin/core.c as a whole: the control of      *)
(* CriticalMetadata, with the interpreter of Execution and the patcher of  *)
(* Delta in the place of its RunStep.  Commands and delta are run twice,   *)
(* dry and then for real, on one flash, one pair of backup pages and one   *)
(* counter.                                                                *)
(*                                                                         *)
(* A header also carries its manifest: prog, patch and start.              *)
(***************************************************************************)
EXTENDS VirtualMachine

CONSTANTS Headers, NoHeader, FactoryVersion, FactoryChallenge,
          Zero, Valid,
          OldImage,          \* the image of FactoryVersion
          Junk,              \* what the cache holds after power-on
          NullReads,         \* what *fastForward may read when it is NULL
          LossAt,            \* phases in which power may be lost
          MaxLosses

ASSUME ImageAssumption == OldImage \in [Blocks -> [Words -> 0 .. WordSize - 1]]
ASSUME NullAssumption == NullReads \subseteq BOOLEAN

VARIABLES crit, backup, stored, complete, location, counter, pc, pos, copy, err,
          losses,
          perm,              \* permanentTraceCounter
          mem, nullRead, ip, todo, stage, chain, step, ff, old, dry,
          sub, subOff, outOff, havePage,
          part,              \* "commands" or "delta"
          xpc, xpos          \* where that part is

control == <<crit, stored, complete, location, pc, pos, copy, err, perm, losses>>
commands == <<ip, todo, stage, chain, old>>
delta == <<sub, subOff, outOff, havePage>>
pass == <<step, ff, dry, xpc, xpos>>
vars == <<control, backup, counter, mem, nullRead, commands, delta, pass, part>>

Control == INSTANCE CriticalMetadata WITH old <- perm, MaxCounter <- 0, CachePages <- {}
Cmd == INSTANCE Execution
         WITH Programs <- {h.prog : h \in Headers}, LossDuringBackup <- TRUE,
              prog <- stored.prog, pc <- xpc, pos <- xpos
Patch == INSTANCE Delta
         WITH Patches <- {h.patch : h \in Headers}, Starts <- {h.start : h \in Headers},
              Images <- {OldImage}, StepsBefore <- {0}, image <- OldImage, before <- 0,
              patch <- stored.patch, start <- stored.start, old <- perm, pc <- xpc, pos <- xpos

\* Every update is made for the factory version: the images are OldImage and what
\* one update makes of it.
ASSUME HeaderAssumption ==
    /\ NoHeader \notin Headers /\ FactoryVersion \in Nat
    /\ \A h \in Headers :
          /\ h.oldVersionID = FactoryVersion
          /\ h.versionID \in Nat /\ h.malformed \in BOOLEAN
          /\ h.prog \in Seq([command : STRING, main : Cmd!Address, secondary : Cmd!Address,
                             length : Nat])
          /\ h.patch \in Seq([insert : BOOLEAN, data : Seq(0 .. WordSize - 1)])
          /\ h.start \in Blocks

\* The words of the critical page that mean something are told apart.
ASSUME WordAssumption ==
    /\ BlockSize > Control!validF /\ MaxLosses \in Nat
    /\ {Blank, Zero, Valid} \cap (Control!Versions \cup Control!Challenges) = {}
    /\ Blank # Zero /\ Blank # Valid /\ Valid # Zero

Init ==
    /\ Control!Init
    /\ mem = [b \in Blocks \cup {CACHE_BUF} |->
                 IF b = CACHE_BUF THEN [w \in Words |-> Junk] ELSE OldImage[b]]
    /\ nullRead \in NullReads
    /\ Cmd!InitRun(FALSE, FALSE)
    /\ sub = 1 /\ subOff = 0 /\ outOff = 0 /\ havePage = FALSE
    /\ part = "commands" /\ xpc = "off"

-----------------------------------------------------------------------------
(* From reset to startUpdate, and concludeUpdate. *)

ControlStep ==
    /\ pc # "start" /\ Control!Boot
    /\ UNCHANGED <<mem, nullRead, commands, delta, pass, part>>

ApplicationStep ==
    /\ Control!Application
    /\ UNCHANGED <<mem, nullRead, commands, delta, pass, part>>

\* The counter is read, then the dry run of the commands begins.
BeginDryRun ==
    /\ Control!ReadCounter
    /\ Cmd!BeginRun(TRUE, counter)
    /\ part' = "commands" /\ xpc' = "commands"
    /\ UNCHANGED delta

-----------------------------------------------------------------------------
(* The two passes. *)

Running(p) == pc = "run" /\ part = p
Finished(p) == Running(p) /\ xpc = "done"

CommandStep ==
    /\ Running("commands") /\ UNCHANGED <<control, delta, part>>
    /\ Cmd!Execute

\* The delta is decompressed into cacheRAM: what the cache held is lost.
BeginDelta ==
    /\ Finished("commands") /\ part' = "delta"
    /\ UNCHANGED <<control, commands, nullRead>>
    /\ Patch!BeginDelta(step, perm, dry)
    /\ Cmd!LoseRAM

DeltaStep ==
    /\ Running("delta") /\ UNCHANGED <<control, commands, nullRead, part>>
    /\ Patch!Apply

\* Mutant: the real run follows a dry run that failed.
BeginRealRunAnyway ==
    /\ Finished("delta") /\ dry
    /\ UNCHANGED <<control, delta>>
    /\ part' = "commands" /\ xpc' = "commands"
    /\ Cmd!BeginRun(FALSE, perm)

\* Mutant: the second pass is a dry run too.
BeginSecondDryRun ==
    /\ Finished("delta") /\ dry /\ ~stored.malformed
    /\ UNCHANGED <<control, delta>>
    /\ part' = "commands" /\ xpc' = "commands"
    /\ Cmd!BeginRun(TRUE, perm)

\* index = traceCounter = 0: the real run.
BeginRealRun ==
    /\ Finished("delta") /\ dry /\ ~stored.malformed
    /\ UNCHANGED <<control, delta>>
    /\ part' = "commands" /\ xpc' = "commands"
    /\ Cmd!BeginRun(FALSE, perm)

\* Mutant: the update is concluded after the dry run.
RunEndsEarly ==
    /\ Finished("delta")
    /\ Control!RunEnds
    /\ UNCHANGED <<mem, nullRead, commands, delta, pass, part>>

\* A command is illegal, or the delta cannot be read, runs out of data or does not
\* validate: a dry run of a malformed update may fail wherever it is.
DryRunFails ==
    /\ pc = "run" /\ dry /\ stored.malformed
    /\ \/ Running("commands") /\ todo = <<>>
       \/ Running("delta") /\ xpc \in {"loop", "done"}

\* The dry run failed, or the real run is over: concludeUpdate.
RunEnds ==
    /\ DryRunFails \/ (Finished("delta") /\ ~dry)
    /\ Control!RunEnds
    /\ UNCHANGED <<mem, nullRead, commands, delta, pass, part>>

-----------------------------------------------------------------------------
Phase ==
    CASE pc = "off" -> "off"
      [] pc = "run" -> "run"
      [] pc \in {"c_erase", "c_backup", "c_crit"} -> "conclude"
      [] pc \in {"c_write", "c_valid"} -> "switch"    \* backupCache1 is now the critical page
      [] pc \in {"app", "d_write", "d_end", "d_request"} -> "app"
      [] OTHER -> "start"

PowerLoss ==
    /\ Phase \in LossAt
    /\ Control!PowerLoss
    /\ Cmd!LoseRAM
    /\ UNCHANGED <<nullRead, commands, delta, pass, part>>

Idle == Control!Idle /\ UNCHANGED vars

Bootloading == ControlStep \/ BeginDryRun \/ CommandStep \/ BeginDelta \/ DeltaStep
               \/ BeginRealRun \/ RunEnds

Next == Bootloading \/ ApplicationStep \/ PowerLoss \/ Idle

\* A sequential program that only a power loss stops.
Spec == Init /\ [][Next]_vars /\ WF_vars(Bootloading)

-----------------------------------------------------------------------------
(* Properties. *)

Image == [b \in Blocks |-> mem[b]]
NewImage(h) == ExecuteBSDiffPatch(h.patch, h.start, VMFlash(h.prog, OldImage))
Version == Control!Effective[Control!versionF]
IsImageOf(v) ==
    IF v = FactoryVersion THEN Image = OldImage
    ELSE \E h \in Headers : h.versionID = v /\ ~h.malformed /\ Image = NewImage(h)

\* Wherever power is lost: no word of the image changes before the critical page
\* says that an update is in progress, and it goes on to say so until it records
\* the new version.
MarkedBeforeTouched ==
    Version = FactoryVersion /\ Control!Effective[Control!inProgressF] # Zero => Image = OldImage

\* Wherever power is lost: a boot never gives an update up half-way.  The image
\* that the application of the old version finds is the old one, if dry runs
\* are dry.
OldVersionOnOldImage ==
    pc = "app" /\ Version = FactoryVersion /\ nullRead => Image = OldImage

\* Wherever power was lost before: an update that a boot begins at its first step,
\* and whose dry run is dry, is recorded over a finished image.
FreshRunInstalls == [][Version' # Version /\ perm = 0 /\ nullRead => IsImageOf(Version)']_vars

\* An installation, failed or not, comes back to an application, wherever power
\* is lost.
InstallationEnds == (pc = "run") ~> (pc = "app")

-----------------------------------------------------------------------------
(* What core.c says, and the code does not keep. *)

\* "We do a dry run to make sure everything is working properly before doing
\* anything destructive" (core.c:216): no step of a dry run changes the image.
DryRunKeepsImage == [][pc = "run" /\ dry => Image' = Image]_vars

\* "Mark the update as complete" (core.c:241): the new version is recorded only
\* over a finished image, also when a power loss interrupted the update.
VersionNeedsImage == Version # FactoryVersion => IsImageOf(Version)
=============================================================================
