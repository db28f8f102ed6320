--------------------------- MODULE CriticalMetadata ---------------------------
(***************************************************************************)
(* The control of bootloaderPerformUpdate in munin/core.c, with the        *)
(* critical metadata page it keeps: validateCriticalMetadata, the checks   *)
(* of validation.c, startUpdate and concludeUpdate.  Power may be lost     *)
(* between any two flash commands.                                         *)
(*                                                                         *)
(* Abstractions.  A page is BlockSize words, the first four of which are   *)
(* the fields of CriticalMetadata that change.  The update-metadata pages  *)
(* are the atomic record (location, counter) that MetadataPages            *)
(* implements.  What runs between startUpdate and concludeUpdate (commands *)
(* and delta) is reduced to what it does to the state kept here: it moves  *)
(* the counter and overwrites the two backup pages; Bootloader puts the    *)
(* real thing in its place.  A signature is checked by comparing the       *)
(* values it binds: a header answers one challenge, and its own signature  *)
(* is the challenge of the next update.                                    *)
(***************************************************************************)
EXTENDS Integers

CONSTANTS Headers,            \* [oldVersionID, versionID, answers, signature, malformed]
          NoHeader,           \* the update storage does not hold a header
          FactoryVersion, FactoryChallenge,
          BlockSize,          \* words in a page
          Blank, Zero, Valid, \* erased word, 0, VALID_64B_VALUE
          CachePages,         \* what an installation may leave in a backup page
          MaxCounter,         \* bound: steps of one installation
          MaxLosses           \* bound: power losses

\* Layout of CriticalMetadata: the words of the page that hold its fields.
challengeF == 0
versionF == 1
inProgressF == 2
validF == 3

Words == 0 .. BlockSize - 1
Versions   == {FactoryVersion} \cup {h.versionID : h \in Headers}
Challenges == {FactoryChallenge} \cup {h.signature : h \in Headers}

ASSUME WordAssumption ==
    /\ BlockSize \in Nat /\ BlockSize > validF
    /\ MaxCounter \in Nat /\ MaxLosses \in Nat
    /\ {Blank, Zero, Valid} \cap (Versions \cup Challenges) = {}
    /\ Blank # Zero /\ Blank # Valid /\ Valid # Zero
Value == Versions \cup Challenges \cup {Blank, Zero, Valid}
IsPage(p) == p = [w \in Words |-> p[w]]
ArePages(b) == b = [i \in 1 .. 2 |-> b[i]] /\ \A i \in 1 .. 2 : IsPage(b[i])
ASSUME CacheAssumption == \A p \in CachePages : IsPage(p)
ASSUME HeaderAssumption ==
    /\ NoHeader \notin Headers
    /\ FactoryVersion \in Nat
    /\ \A h \in Headers : h.versionID \in Nat /\ h.malformed \in BOOLEAN

VARIABLES crit,               \* flash: criticalMetadata
          backup,             \* flash: backupCache1 and backupCache2
          stored,             \* flash: header in updateStorage
          complete,           \* flash: validateImage succeeds on updateStorage
          location,           \* getMetadata()->location designates updateStorage
          counter,            \* getCurrentCounter()
          pc,                 \* where the bootloader or the application is
          pos,                \* next word of the page being written
          copy,               \* criticalMetadataCopy
          err,                \* concludeUpdate: withError
          old,                \* permanentTraceCounter
          losses              \* power losses so far

storage == <<stored, complete>>
record  == <<location, counter>>
ram     == <<copy, err, old>>
vars == <<crit, backup, stored, complete, location, counter, pc, pos, copy,
          err, old, losses>>

ErasedPage == [w \in Words |-> Blank]
Program(page, w, value) == IF page[w] = Blank THEN [page EXCEPT ![w] = value] ELSE page

Labels == {"off", "validate", "v_write", "v_valid", "check", "start", "s_erase1",
           "s_erase2", "s_reset", "s_flag", "run", "c_erase", "c_backup", "c_crit",
           "c_write", "c_valid", "app", "d_write", "d_end", "d_request"}

TypeOK ==
    /\ crit \in [Words -> Value] /\ copy \in [Words -> Value]
    /\ ArePages(backup)
    /\ stored \in Headers \cup {NoHeader}
    /\ complete \in BOOLEAN /\ location \in BOOLEAN /\ err \in BOOLEAN
    /\ counter \in Nat /\ old \in Nat /\ losses \in Nat
    /\ pos \in Words
    /\ pc \in Labels

FactoryPage == [ErasedPage EXCEPT ![challengeF] = FactoryChallenge,
                                  ![versionF] = FactoryVersion, ![validF] = Valid]

Init ==
    /\ crit = FactoryPage /\ copy = ErasedPage
    /\ backup = [b \in 1 .. 2 |-> ErasedPage]
    /\ stored = NoHeader
    /\ complete = FALSE /\ location = FALSE /\ err = FALSE
    /\ counter = 0 /\ old = 0 /\ losses = 0 /\ pos = 0
    /\ pc = "off"

goto(label) == pc' = label

-----------------------------------------------------------------------------
(* Writing a page word by word: writeToNAND(page, BLOCK_SIZE, copy). *)

WriteCritWord(value, then) ==
    /\ crit' = Program(crit, pos, value)
    /\ pos' = (pos + 1) % BlockSize
    /\ goto(IF pos' = 0 THEN then ELSE pc)

-----------------------------------------------------------------------------
(* validateCriticalMetadata. *)

PowerOn ==
    /\ pc = "off" /\ goto("validate")
    /\ UNCHANGED <<crit, backup, storage, record, pos, ram, losses>>

CriticalIsValid ==
    /\ pc = "validate" /\ crit[validF] = Valid
    /\ goto("check")
    /\ UNCHANGED <<crit, backup, storage, record, pos, ram, losses>>

\* Erase the page and load the backup; the flag stays blank until the end.
EraseInvalidCritical ==
    /\ pc = "validate" /\ crit[validF] # Valid
    /\ crit' = ErasedPage
    /\ copy' = [backup[1] EXCEPT ![validF] = Blank]
    /\ pos' = 0 /\ goto("v_write")
    /\ UNCHANGED <<backup, storage, record, err, old, losses>>

RestoreCriticalWord ==
    /\ pc = "v_write"
    /\ WriteCritWord(copy[pos], "v_valid")
    /\ UNCHANGED <<backup, storage, record, ram, losses>>

RevalidateCritical ==
    /\ pc = "v_valid"
    /\ crit' = Program(crit, validF, Valid)
    /\ goto("check")
    /\ UNCHANGED <<backup, storage, record, pos, ram, losses>>

-----------------------------------------------------------------------------
(* The checks of bootloaderPerformUpdate, and startUpdate. *)

\* validateHeader: the challenge is answered and the version is the next one.
ValidateHeader(h) ==
    /\ h # NoHeader
    /\ h.answers = crit[challengeF]
    /\ h.oldVersionID = crit[versionF]
    /\ crit[versionF] < h.versionID

UpdateReady == location /\ ValidateHeader(stored) /\ complete

NothingToInstall ==
    /\ pc = "check" /\ ~UpdateReady
    /\ goto("app")
    /\ UNCHANGED <<crit, backup, storage, record, pos, ram, losses>>

\* startUpdate: the metadata is reset unless the update was already started.
StartUpdate ==
    /\ pc = "check" /\ UpdateReady
    /\ goto(IF crit[inProgressF] # Zero THEN "s_erase1" ELSE "start")
    /\ UNCHANGED <<crit, backup, storage, record, pos, ram, losses>>

EraseBackup1 ==
    /\ pc = "s_erase1" /\ goto("s_erase2")
    /\ backup' = [backup EXCEPT ![1] = ErasedPage]
    /\ UNCHANGED <<crit, storage, record, pos, ram, losses>>

EraseBackup2 ==
    /\ pc = "s_erase2" /\ goto("s_reset")
    /\ backup' = [backup EXCEPT ![2] = ErasedPage]
    /\ UNCHANGED <<crit, storage, record, pos, ram, losses>>

ResetMetadataPage ==
    /\ pc = "s_reset" /\ goto("s_flag")
    /\ counter' = 0
    /\ UNCHANGED <<crit, backup, storage, location, pos, ram, losses>>

\* Mutant: updateInProgress is not written.
SetNothing ==
    /\ pc = "s_flag" /\ goto("start")
    /\ UNCHANGED <<crit, backup, storage, record, pos, ram, losses>>

SetInProgress ==
    /\ pc = "s_flag" /\ goto("start")
    /\ crit' = Program(crit, inProgressF, Zero)
    /\ UNCHANGED <<backup, storage, record, pos, ram, losses>>

\* permanentTraceCounter = getCurrentCounter()
ReadCounter ==
    /\ pc = "start" /\ goto("run")
    /\ old' = counter
    /\ UNCHANGED <<crit, backup, storage, record, pos, copy, err, losses>>

-----------------------------------------------------------------------------
(* runCommands and applyDeltaPatch, reduced to what they do to the counter  *)
(* and to the backup pages.                                                 *)

RunStep ==
    /\ pc = "run" /\ counter < MaxCounter
    /\ counter' = counter + 1
    /\ \E b \in 1 .. 2, p \in CachePages : backup' = [backup EXCEPT ![b] = p]
    /\ UNCHANGED <<crit, storage, location, pc, pos, ram, losses>>

\* The dry run fails exactly on the manifests that do not decode.
RunEnds ==
    /\ pc = "run" /\ goto("c_erase")
    /\ err' = stored.malformed
    /\ UNCHANGED <<crit, backup, storage, record, pos, copy, old, losses>>

-----------------------------------------------------------------------------
(* concludeUpdate(err). *)

\* Mutant: the challenge of the next update is not renewed.
NewCriticalSameChallenge == IF err THEN crit ELSE [crit EXCEPT ![versionF] = stored.versionID]

\* The copy of the critical page that will replace it.
NewCritical ==
    IF err THEN crit
    ELSE [crit EXCEPT ![challengeF] = stored.signature, ![versionF] = stored.versionID]

\* Mutant: the critical page is erased before it is backed up.
ConcludeUnsaved ==
    /\ pc = "c_erase"
    /\ backup' = [backup EXCEPT ![1] = ErasedPage]
    /\ copy' = [NewCritical EXCEPT ![inProgressF] = Blank]
    /\ pos' = 0
    /\ goto(IF ~err \/ crit[inProgressF] = Blank THEN "c_crit" ELSE "app")
    /\ UNCHANGED <<crit, storage, record, err, old, losses>>

\* Mutant: the test of withError is inverted.
ConcludeInverted ==
    /\ pc = "c_erase"
    /\ backup' = [backup EXCEPT ![1] = ErasedPage]
    /\ copy' = [NewCritical EXCEPT ![inProgressF] = Blank]
    /\ pos' = 0
    /\ goto(IF err \/ crit[inProgressF] = Blank THEN "c_backup" ELSE "app")
    /\ UNCHANGED <<crit, storage, record, err, old, losses>>

ConcludeBegin ==
    /\ pc = "c_erase"
    /\ backup' = [backup EXCEPT ![1] = ErasedPage]
    /\ copy' = [NewCritical EXCEPT ![inProgressF] = Blank]
    /\ pos' = 0
    /\ goto(IF ~err \/ crit[inProgressF] = Blank THEN "c_backup" ELSE "app")
    /\ UNCHANGED <<crit, storage, record, err, old, losses>>

BackupCriticalWord ==
    /\ pc = "c_backup"
    /\ backup' = [backup EXCEPT ![1] = Program(@, pos, copy[pos])]
    /\ pos' = (pos + 1) % BlockSize
    /\ goto(IF pos' = 0 THEN "c_crit" ELSE pc)
    /\ UNCHANGED <<crit, storage, record, ram, losses>>

EraseCritical ==
    /\ pc = "c_crit" /\ goto("c_write")
    /\ crit' = ErasedPage
    /\ copy' = [copy EXCEPT ![validF] = Blank]
    /\ UNCHANGED <<backup, storage, record, pos, err, old, losses>>

WriteCritical ==
    /\ pc = "c_write"
    /\ WriteCritWord(copy[pos], "c_valid")
    /\ UNCHANGED <<backup, storage, record, ram, losses>>

\* The page becomes valid; concludeUpdate returns and the device reboots, or
\* goes on to the application after an error.
ValidateCritical ==
    /\ pc = "c_valid"
    /\ crit' = Program(crit, validF, Valid)
    /\ goto(IF err THEN "app" ELSE "off")
    /\ UNCHANGED <<backup, storage, record, pos, ram, losses>>

-----------------------------------------------------------------------------
(* The application downloads an update in place of the one stored, then asks *)
(* the bootloader to install it and reboots (checkUpdate of userland.c).     *)

\* The header is validated before anything is erased.
EraseNecessarySpace ==
    /\ pc = "app" /\ (\E h \in Headers : ValidateHeader(h))
    /\ goto("d_write")
    /\ stored' = NoHeader /\ complete' = FALSE
    /\ UNCHANGED <<crit, backup, record, pos, ram, losses>>

WriteHeader(h) ==
    /\ pc = "d_write" /\ ValidateHeader(h)
    /\ stored' = h /\ goto("d_end")
    /\ UNCHANGED <<crit, backup, complete, record, pos, ram, losses>>

\* The connection was closed before the whole manifest arrived.
DownloadFails ==
    /\ pc = "d_end" /\ goto("app")
    /\ UNCHANGED <<crit, backup, storage, record, pos, ram, losses>>

WriteLastPage ==
    /\ pc = "d_end" /\ complete' = TRUE /\ goto("d_request")
    /\ UNCHANGED <<crit, backup, stored, record, pos, ram, losses>>

RequestUpdate ==
    /\ pc = "d_request" /\ goto("off")
    /\ location' = TRUE /\ counter' = 0
    /\ UNCHANGED <<crit, backup, storage, pos, ram, losses>>

-----------------------------------------------------------------------------
PowerLoss ==
    /\ pc # "off" /\ losses < MaxLosses
    /\ losses' = losses + 1 /\ goto("off")
    /\ UNCHANGED <<crit, backup, storage, record, pos, ram>>

\* The server has nothing for this version: the application goes on.
Idle == pc = "app" /\ (\A h \in Headers : ~ValidateHeader(h)) /\ UNCHANGED vars

Boot ==
    \/ PowerOn \/ CriticalIsValid \/ EraseInvalidCritical \/ RestoreCriticalWord
    \/ RevalidateCritical \/ NothingToInstall \/ StartUpdate
    \/ EraseBackup1 \/ EraseBackup2 \/ ResetMetadataPage \/ SetInProgress \/ ReadCounter
    \/ ConcludeBegin \/ BackupCriticalWord \/ EraseCritical \/ WriteCritical
    \/ ValidateCritical

Application ==
    EraseNecessarySpace \/ (\E h \in Headers : WriteHeader(h)) \/ DownloadFails
    \/ WriteLastPage \/ RequestUpdate

Next == Boot \/ RunStep \/ RunEnds \/ Application \/ PowerLoss \/ Idle

\* The bootloader is a sequential program that nothing but a power loss stops,
\* and an installation has finitely many steps.
Fairness == WF_vars(Boot) /\ WF_vars(RunEnds)

Spec == Init /\ [][Next]_vars /\ Fairness

-----------------------------------------------------------------------------
(* Properties. *)

\* The page a reboot would take the device's identity from.
Effective == IF crit[validF] = Valid THEN crit ELSE backup[1]

\* Whenever the critical page is not valid, backupCache1 holds a finished copy
\* of it, so validateCriticalMetadata never loads cache data or a torn copy.
CriticalRecoverable ==
    crit[validF] # Valid =>
        /\ backup[1][validF] = Valid /\ backup[1][inProgressF] = Blank
        /\ backup[1][versionF] \in Versions /\ backup[1][challengeF] \in Challenges

\* Version and challenge change in one step, together, and only by an update
\* made for the installed version, although replacing the page takes dozens of
\* flash commands.
VersionSpec == INSTANCE InstalledVersion
                 WITH version <- Effective[versionF], challenge <- Effective[challengeF]
AtomicVersion == VersionSpec!Spec

\* The flag updateInProgress is never lost while an installation runs: a
\* reboot in the middle of it resumes instead of restarting from scratch.
StartedIsRemembered ==
    pc = "run" => crit[validF] = Valid /\ crit[inProgressF] = Zero

\* Every update that decodes and that the bootloader was asked to install is
\* installed, however often power is lost.
RequestedIsInstalled ==
    \A h \in Headers :
        (pc = "off" /\ location /\ complete /\ stored = h /\ ~h.malformed
           /\ Effective[versionF] = h.oldVersionID /\ Effective[challengeF] = h.answers)
        ~> (Effective[versionF] = h.versionID)
=============================================================================
