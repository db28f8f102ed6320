------------------------- MODULE CriticalMetadataProofs -------------------------
(***************************************************************************)
(* Proofs about CriticalMetadata, for every set of headers, every size of  *)
(* page, every content the cache may leave in the backup pages and any     *)
(* number of power losses.                                                 *)
(***************************************************************************)
EXTENDS CriticalMetadata, TLAPS

Restoring == {"v_write", "c_write"}
Restored  == {"v_valid", "c_valid"}
Trusted   == Labels \ ({"off", "validate"} \cup Restoring \cup Restored)
Started   == {"start", "run", "c_erase", "c_backup", "c_crit"}

\* A page that describes a device.
Sound(p) ==
    /\ p[validF] = Valid /\ p[inProgressF] \in {Blank, Zero}
    /\ p[versionF] \in Versions /\ p[challengeF] \in Challenges

\* The words of q before position n, then blanks.
Written(p, q, n) == \A w \in Words : p[w] = IF w < n THEN q[w] ELSE Blank

\* The page in use is sound, or the backup is, with no update in progress.
SoundInv ==
    /\ crit[validF] = Valid => Sound(crit)
    /\ crit[validF] # Valid => /\ Sound(backup[1]) /\ backup[1][inProgressF] = Blank
                               /\ backup[1] \in [Words -> Value]
    /\ pc \in Trusted => crit[validF] = Valid

\* A page being written back is the backup, without its mark.
RestoreInv ==
    /\ pc \in Restoring \cup Restored =>
           /\ crit[validF] # Valid
           /\ copy = [backup[1] EXCEPT ![validF] = Blank]
    /\ pc \in Restoring => Written(crit, copy, pos)
    /\ pc \in Restored => crit = copy

\* What the bootloader checked stays true until the version changes.
UpdateInv ==
    /\ pc \in Started \cup {"s_erase1", "s_erase2", "s_reset", "s_flag"} => UpdateReady
    /\ pc \in Started => crit[inProgressF] = Zero

\* The copy that concludeUpdate saves describes the new version.
ConcludeInv ==
    /\ pc \in {"c_backup", "c_crit"} =>
           copy = [crit EXCEPT ![challengeF] = stored.signature,
                               ![versionF] = stored.versionID, ![inProgressF] = Blank]
    /\ pc = "c_backup" => Written(backup[1], copy, pos)
    /\ pc = "c_crit" => backup[1] = copy /\ pos = 0

CritInv == TypeOK /\ SoundInv /\ RestoreInv /\ UpdateInv /\ ConcludeInv

-----------------------------------------------------------------------------
LEMMA Fields ==
    /\ challengeF \in Words /\ versionF \in Words /\ inProgressF \in Words /\ validF \in Words
    /\ challengeF # versionF /\ challengeF # inProgressF /\ challengeF # validF
    /\ versionF # inProgressF /\ versionF # validF /\ inProgressF # validF
BY WordAssumption DEF challengeF, versionF, inProgressF, validF, Words

LEMMA Constants ==
    /\ Blank \in Value /\ Zero \in Value /\ Valid \in Value
    /\ Blank # Zero /\ Blank # Valid /\ Valid # Zero
    /\ Versions \subseteq Value /\ Challenges \subseteq Value
    /\ FactoryVersion \in Versions /\ FactoryChallenge \in Challenges
    /\ ErasedPage \in [Words -> Value]
BY WordAssumption DEF Value, ErasedPage, Versions, Challenges

LEMMA ProgramType ==
    ASSUME NEW p \in [Words -> Value], NEW w \in Words, NEW v \in Value
    PROVE  Program(p, w, v) \in [Words -> Value]
BY DEF Program

\* programming one more word of a page
LEMMA OneMoreWord ==
    ASSUME NEW p \in [Words -> Value], NEW q \in [Words -> Value], NEW n \in Words,
           Written(p, q, n)
    PROVE  LET next == (n + 1) % BlockSize  new == Program(p, n, q[n])
           IN  /\ new \in [Words -> Value] /\ next \in Words
               /\ next # 0 => Written(new, q, next)
               /\ next = 0 => new = q
<1> DEFINE next == (n + 1) % BlockSize
           new == Program(p, n, q[n])
<1>1. BlockSize \in Nat /\ BlockSize > 0 /\ n \in 0 .. BlockSize - 1
  BY WordAssumption DEF Words, validF
<1>2. new \in [Words -> Value]
  BY ProgramType
<1>3. p[n] = Blank
  BY <1>1 DEF Written
<1>4. \A w \in Words : new[w] = IF w < n + 1 THEN q[w] ELSE Blank
  BY <1>1, <1>3 DEF Written, Program, Words
<1>5. CASE n + 1 < BlockSize
  <2>1. next = n + 1
    BY <1>1, <1>5
  <2> HIDE DEF new, next
  <2> QED BY <1>1, <1>2, <1>4, <2>1, <1>5 DEF Written, Words, new, next
<1>6. CASE n + 1 = BlockSize
  <2>1. next = 0
    BY <1>1, <1>6
  <2>2. \A w \in Words : new[w] = q[w]
    BY <1>1, <1>4, <1>6 DEF Words
  <2>3. new = q
    BY <1>2, <2>2
  <2> QED BY <1>1, <1>2, <2>1, <2>3 DEF Words
<1> QED BY <1>1, <1>5, <1>6

\* replacing a backup page, whatever the new one holds
LEMMA PageReplaced ==
    ASSUME NEW b, ArePages(b), NEW i \in 1 .. 2, NEW p, IsPage(p)
    PROVE  ArePages([b EXCEPT ![i] = p]) /\ [b EXCEPT ![i] = p][i] = p
<1> DEFINE c == [b EXCEPT ![i] = p]
<1>1. c = [k \in 1 .. 2 |-> IF k = i THEN p ELSE b[k]]
  BY DEF ArePages
<1> HIDE DEF c
<1>2. ASSUME NEW k \in 1 .. 2 PROVE IsPage(c[k])
  <2>1. CASE k = i
    BY <1>1, <2>1
  <2>2. CASE k # i
    BY <1>1, <2>2 DEF ArePages
  <2> QED BY <2>1, <2>2
<1>3. c = [k \in 1 .. 2 |-> c[k]] /\ c[i] = p
  BY <1>1
<1>4. ArePages(c) /\ c[i] = p
  BY <1>2, <1>3 DEF ArePages
<1> QED BY <1>4 DEF c

LEMMA ErasedIsPage == IsPage(ErasedPage)
BY DEF IsPage, ErasedPage

LEMMA CritInvInit == Init => CritInv
<1> SUFFICES ASSUME Init PROVE CritInv
  OBVIOUS
<1>1. /\ FactoryPage \in [Words -> Value]
      /\ FactoryPage[challengeF] = FactoryChallenge /\ FactoryPage[versionF] = FactoryVersion
      /\ FactoryPage[validF] = Valid /\ FactoryPage[inProgressF] = Blank
  BY Fields, Constants DEF FactoryPage, ErasedPage
<1>2. 0 \in Words
  BY WordAssumption DEF Words, validF
<1>3. TypeOK
  <2>1. ArePages(backup)
    BY ErasedIsPage DEF Init, ArePages
  <2> QED BY <1>1, <1>2, <2>1, Constants DEF Init, TypeOK, Labels
<1>4. SoundInv
  BY <1>1, Constants DEF Init, SoundInv, Sound, Trusted
<1>5. RestoreInv /\ UpdateInv /\ ConcludeInv
  BY DEF Init, RestoreInv, UpdateInv, ConcludeInv, Restoring, Restored, Started
<1> QED BY <1>3, <1>4, <1>5 DEF CritInv

-----------------------------------------------------------------------------
(* Every step preserves the invariant, and either leaves version and         *)
(* challenge alone or installs the stored update.                            *)

SameVersion ==
    /\ Effective'[versionF] = Effective[versionF]
    /\ Effective'[challengeF] = Effective[challengeF]

VersionStep == SameVersion \/ VersionSpec!Next

\* Steps that write neither the critical page nor its backup.
LEMMA QuietStep ==
    ASSUME CritInv,
           \/ PowerOn \/ CriticalIsValid \/ NothingToInstall \/ StartUpdate \/ ReadCounter
           \/ ResetMetadataPage \/ RunEnds \/ EraseNecessarySpace
           \/ (\E h \in Headers : WriteHeader(h)) \/ WriteLastPage \/ DownloadFails
           \/ RequestUpdate
           \/ PowerLoss \/ UNCHANGED vars
    PROVE  CritInv' /\ SameVersion
<1> USE DEF CritInv, storage, record, ram, goto
<1> DEFINE Quiet == crit' = crit /\ backup' = backup
<1>1. CASE PowerOn \/ CriticalIsValid \/ NothingToInstall \/ PowerLoss
  <2>1. Quiet /\ TypeOK' /\ (pc' \in Trusted => crit[validF] = Valid)
    <3>1. Quiet /\ TypeOK'
      BY <1>1 DEF PowerOn, CriticalIsValid, NothingToInstall, PowerLoss, TypeOK, Labels
    <3>2. pc' \in Trusted => crit[validF] = Valid
      BY <1>1 DEF PowerOn, CriticalIsValid, NothingToInstall, PowerLoss, Labels, SoundInv,
                  Trusted, Restoring, Restored
    <3> QED BY <3>1, <3>2
  <2>2. pc' \notin Restoring \cup Restored \cup Started
                   \cup {"s_erase1", "s_erase2", "s_reset", "s_flag"}
    BY <1>1 DEF PowerOn, CriticalIsValid, NothingToInstall, PowerLoss, Restoring, Restored,
                Started
  <2>3. RestoreInv' /\ UpdateInv' /\ ConcludeInv'
    BY <2>2 DEF RestoreInv, UpdateInv, ConcludeInv, Started
  <2> QED BY <2>1, <2>3 DEF SoundInv, Sound, SameVersion, Effective
<1>2. CASE StartUpdate \/ ReadCounter \/ ResetMetadataPage \/ RunEnds
  <2>1. /\ Quiet /\ stored' = stored /\ complete' = complete /\ location' = location
        /\ pc \in Trusted /\ UpdateReady
    BY <1>2 DEF StartUpdate, ReadCounter, ResetMetadataPage, RunEnds, Trusted, Labels, Restoring,
                Restored, UpdateInv, Started
  <2>2. stored \in Headers /\ stored.malformed \in BOOLEAN
    BY <2>1, HeaderAssumption DEF UpdateReady, ValidateHeader, TypeOK
  <2>3. TypeOK'
    BY <1>2, <2>2 DEF StartUpdate, ReadCounter, ResetMetadataPage, RunEnds, TypeOK, Labels
  <2>4. pc' \notin Restoring \cup Restored \cup {"c_backup", "c_crit"}
    BY <1>2 DEF StartUpdate, ReadCounter, ResetMetadataPage, RunEnds, Restoring, Restored
  <2>5. RestoreInv' /\ ConcludeInv'
    BY <2>4 DEF RestoreInv, ConcludeInv
  <2>6. UpdateReady' /\ (pc' \in Started => crit[inProgressF] = Zero)
    BY <1>2, <2>1 DEF StartUpdate, ReadCounter, ResetMetadataPage, RunEnds, UpdateReady,
                      ValidateHeader, UpdateInv, Started
  <2>7. UpdateInv'
    BY <2>1, <2>6 DEF UpdateInv
  <2> QED BY <2>1, <2>3, <2>5, <2>7 DEF SoundInv, Sound, SameVersion, Effective
<1>3. CASE EraseNecessarySpace \/ (\E h \in Headers : WriteHeader(h)) \/ WriteLastPage
           \/ DownloadFails \/ RequestUpdate
  <2>1. Quiet /\ TypeOK' /\ pc \in Trusted
    <3>1. Quiet /\ pc \in Trusted
      BY <1>3 DEF EraseNecessarySpace, WriteHeader, WriteLastPage, DownloadFails,
                  RequestUpdate, Labels, Trusted, Restoring, Restored
    <3>2. TypeOK'
      <4>1. CASE EraseNecessarySpace
        BY <4>1 DEF EraseNecessarySpace, TypeOK, Labels
      <4>2. CASE \E h \in Headers : WriteHeader(h)
        BY <4>2 DEF WriteHeader, TypeOK, Labels
      <4>3. CASE WriteLastPage
        BY <4>3 DEF WriteLastPage, TypeOK, Labels
      <4>4. CASE RequestUpdate
        BY <4>4 DEF RequestUpdate, TypeOK, Labels
      <4>5. CASE DownloadFails
        BY <4>5 DEF DownloadFails, TypeOK, Labels
      <4> QED BY <1>3, <4>1, <4>2, <4>3, <4>4, <4>5
    <3> QED BY <3>1, <3>2
  <2>2. pc' \notin Restoring \cup Restored \cup Started
                   \cup {"s_erase1", "s_erase2", "s_reset", "s_flag"}
    BY <1>3 DEF EraseNecessarySpace, WriteHeader, WriteLastPage, DownloadFails,
                RequestUpdate, Restoring, Restored, Started
  <2>3. RestoreInv' /\ UpdateInv' /\ ConcludeInv'
    BY <2>2 DEF RestoreInv, UpdateInv, ConcludeInv, Started
  <2> QED BY <2>1, <2>3 DEF SoundInv, Sound, SameVersion, Effective
<1>4. CASE UNCHANGED vars
  <2>1. TypeOK' /\ SoundInv' /\ RestoreInv'
    BY <1>4 DEF vars, TypeOK, SoundInv, Sound, RestoreInv, Written
  <2>2. UpdateInv' /\ ConcludeInv'
    BY <1>4 DEF vars, UpdateInv, UpdateReady, ValidateHeader, ConcludeInv, Written
  <2> QED BY <1>4, <2>1, <2>2 DEF vars, SameVersion, Effective
<1> QED BY <1>1, <1>2, <1>3, <1>4

\* Steps that write a backup page while the critical page is valid.
LEMMA BackupStep ==
    ASSUME CritInv, EraseBackup1 \/ EraseBackup2 \/ RunStep
    PROVE  CritInv' /\ SameVersion
<1> USE DEF CritInv, storage, record, ram, goto
<1>1. /\ crit' = crit /\ stored' = stored /\ complete' = complete /\ location' = location
      /\ crit[validF] = Valid /\ UpdateReady
      /\ pc' \notin Restoring \cup Restored \cup {"c_backup", "c_crit"}
      /\ (pc' \in Started => pc \in Started)
  BY DEF EraseBackup1, EraseBackup2, RunStep, SoundInv, Trusted, Labels, Restoring, Restored,
         UpdateInv, Started
<1>2. ArePages(backup')
  BY PageReplaced, ErasedIsPage, CacheAssumption DEF EraseBackup1, EraseBackup2, RunStep, TypeOK
<1>3. TypeOK'
  BY <1>1, <1>2 DEF EraseBackup1, EraseBackup2, RunStep, TypeOK, Labels
<1>4. RestoreInv' /\ ConcludeInv'
  BY <1>1 DEF RestoreInv, ConcludeInv
<1>5. UpdateInv'
  BY <1>1 DEF UpdateInv, UpdateReady, ValidateHeader
<1>6. SoundInv'
  BY <1>1 DEF SoundInv, Sound
<1>7. SameVersion
  BY <1>1 DEF SameVersion, Effective
<1> QED BY <1>3, <1>4, <1>5, <1>6, <1>7

\* startUpdate raises the flag on a valid page.
LEMMA SetInProgressStep ==
    ASSUME CritInv, SetInProgress
    PROVE  CritInv' /\ SameVersion
<1> USE DEF CritInv, storage, record, ram, goto
<1>1. /\ pc = "s_flag" /\ pc' = "start" /\ backup' = backup /\ copy' = copy /\ pos' = pos
      /\ stored' = stored /\ complete' = complete /\ location' = location
      /\ crit[validF] = Valid /\ Sound(crit) /\ UpdateReady /\ crit \in [Words -> Value]
  BY DEF SetInProgress, SoundInv, Trusted, Labels, Restoring, Restored, UpdateInv, TypeOK
<1>2. /\ crit' \in [Words -> Value] /\ crit'[inProgressF] = Zero
      /\ crit'[validF] = Valid /\ crit'[versionF] = crit[versionF]
      /\ crit'[challengeF] = crit[challengeF]
  BY <1>1, Fields, Constants DEF SetInProgress, Program, Sound
<1>3. TypeOK'
  BY <1>1, <1>2 DEF SetInProgress, TypeOK, Labels
<1>4. SoundInv'
  BY <1>1, <1>2 DEF SoundInv, Sound
<1>5. RestoreInv' /\ ConcludeInv'
  BY <1>1 DEF RestoreInv, ConcludeInv, Restoring, Restored
<1>6. UpdateInv'
  BY <1>1, <1>2 DEF UpdateInv, UpdateReady, ValidateHeader
<1>7. SameVersion
  BY <1>1, <1>2 DEF SameVersion, Effective
<1> QED BY <1>3, <1>4, <1>5, <1>6, <1>7

\* validateCriticalMetadata and the end of concludeUpdate write the page back.
LEMMA RestoreStep ==
    ASSUME CritInv, EraseInvalidCritical \/ RestoreCriticalWord \/ WriteCritical
    PROVE  CritInv' /\ SameVersion
<1> USE DEF CritInv, storage, record, ram, goto
<1>1. /\ crit[validF] # Valid /\ Sound(backup[1]) /\ backup' = backup
      /\ backup[1] \in [Words -> Value] /\ crit \in [Words -> Value]
      /\ copy \in [Words -> Value] /\ pos \in Words
  BY DEF EraseInvalidCritical, RestoreCriticalWord, WriteCritical, SoundInv, RestoreInv,
         Restoring, TypeOK
<1>2. ASSUME crit' \in [Words -> Value], crit'[validF] # Valid
      PROVE  SoundInv' /\ SameVersion
  <2>1. pc' \notin Trusted
    BY DEF EraseInvalidCritical, RestoreCriticalWord, WriteCritical, WriteCritWord, Trusted,
           Restoring, Restored
  <2> QED BY <1>1, <1>2, <2>1 DEF SoundInv, Sound, SameVersion, Effective
<1>3. CASE EraseInvalidCritical
  <2>1. /\ crit' = ErasedPage /\ copy' = [backup[1] EXCEPT ![validF] = Blank]
        /\ pos' = 0 /\ pc' = "v_write"
    BY <1>3 DEF EraseInvalidCritical
  <2>2. crit'[validF] # Valid /\ crit' \in [Words -> Value] /\ copy' \in [Words -> Value]
    BY <1>1, <2>1, Fields, Constants DEF ErasedPage
  <2>3. Written(crit', copy', pos')
    BY <2>1 DEF Written, ErasedPage, Words
  <2>4. TypeOK'
    BY <1>3, <2>1, <2>2, WordAssumption DEF EraseInvalidCritical, TypeOK, Labels, Words, validF
  <2>5. RestoreInv'
    BY <1>1, <2>1, <2>2, <2>3 DEF RestoreInv, Restoring, Restored
  <2>6. UpdateInv' /\ ConcludeInv'
    BY <2>1 DEF UpdateInv, ConcludeInv, Started
  <2> QED BY <1>2, <2>2, <2>4, <2>5, <2>6
<1>4. CASE RestoreCriticalWord \/ WriteCritical
  <2>1. /\ crit' = Program(crit, pos, copy[pos]) /\ pos' = (pos + 1) % BlockSize
        /\ copy' = copy /\ copy = [backup[1] EXCEPT ![validF] = Blank]
        /\ Written(crit, copy, pos) /\ pc \in Restoring
        /\ pc' = IF pos' = 0 THEN (IF pc = "v_write" THEN "v_valid" ELSE "c_valid") ELSE pc
    BY <1>4 DEF RestoreCriticalWord, WriteCritical, WriteCritWord, RestoreInv, Restoring
  <2>2. /\ crit' \in [Words -> Value] /\ pos' \in Words
        /\ pos' # 0 => Written(crit', copy, pos')
        /\ pos' = 0 => crit' = copy
    BY <1>1, <2>1, OneMoreWord
  <2>3. copy[validF] = Blank
    BY <1>1, <2>1, Fields
  <2>4. crit'[validF] # Valid
    BY <2>2, <2>3, Fields, Constants DEF Written
  <2>5. TypeOK'
    BY <1>4, <2>1, <2>2 DEF RestoreCriticalWord, WriteCritical, TypeOK, Labels, Restoring
  <2>6. RestoreInv'
    BY <1>1, <2>1, <2>2, <2>4 DEF RestoreInv, Restoring, Restored
  <2>7. UpdateInv' /\ ConcludeInv'
    BY <2>1 DEF UpdateInv, ConcludeInv, Started, Restoring
  <2> QED BY <1>2, <2>2, <2>4, <2>5, <2>6, <2>7
<1> QED BY <1>3, <1>4

\* The mark is written last, on a page equal to the backup.
LEMMA MarkStep ==
    ASSUME CritInv, RevalidateCritical \/ ValidateCritical
    PROVE  CritInv' /\ SameVersion
<1> USE DEF CritInv, storage, record, ram, goto
<1>1. /\ crit[validF] # Valid /\ Sound(backup[1]) /\ backup' = backup
      /\ backup[1] \in [Words -> Value] /\ crit = [backup[1] EXCEPT ![validF] = Blank]
      /\ crit' = Program(crit, validF, Valid) /\ pc' \in {"check", "app", "off"}
  BY DEF RevalidateCritical, ValidateCritical, SoundInv, RestoreInv, Restored, TypeOK
<1>2. crit' \in [Words -> Value] /\ \A w \in Words : crit'[w] = backup[1][w]
  BY <1>1, Fields, Constants DEF Program, Sound
<1>3. TypeOK'
  BY <1>1, <1>2 DEF RevalidateCritical, ValidateCritical, TypeOK, Labels
<1>4. Sound(crit')
  BY <1>1, <1>2, Fields DEF Sound
<1>5. SoundInv'
  BY <1>4 DEF SoundInv, Sound
<1>6. RestoreInv' /\ UpdateInv' /\ ConcludeInv'
  BY <1>1 DEF RestoreInv, UpdateInv, ConcludeInv, Restoring, Restored, Started
<1>7. SameVersion
  BY <1>1, <1>2, <1>4, Fields DEF SameVersion, Effective, Sound
<1> QED BY <1>3, <1>5, <1>6, <1>7

\* concludeUpdate saves the copy while the old page is still valid, ...
LEMMA SaveStep ==
    ASSUME CritInv, ConcludeBegin \/ BackupCriticalWord
    PROVE  CritInv' /\ SameVersion
<1> USE DEF CritInv, storage, record, ram, goto
<1>1. /\ crit' = crit /\ stored' = stored /\ complete' = complete /\ location' = location
      /\ crit[validF] = Valid /\ Sound(crit) /\ UpdateReady /\ crit[inProgressF] = Zero
      /\ crit \in [Words -> Value] /\ ArePages(backup)
      /\ copy \in [Words -> Value] /\ pos \in Words
  BY DEF ConcludeBegin, BackupCriticalWord, SoundInv, Trusted, Labels, Restoring, Restored,
         UpdateInv, Started, TypeOK
<1>2. /\ stored \in Headers /\ stored.signature \in Value /\ stored.versionID \in Value
  BY <1>1, Constants DEF UpdateReady, ValidateHeader, TypeOK, Versions, Challenges
<1>3. UpdateInv' /\ SoundInv' /\ SameVersion
  BY <1>1 DEF UpdateInv, UpdateReady, ValidateHeader, SoundInv, Sound, SameVersion, Effective
<1>4. CASE ConcludeBegin
  <2>1. /\ backup' = [backup EXCEPT ![1] = ErasedPage] /\ pos' = 0 /\ err' = err
        /\ pc' = IF ~err THEN "c_backup" ELSE "app"
        /\ copy' = [NewCritical EXCEPT ![inProgressF] = Blank]
    BY <1>1, <1>4, Constants DEF ConcludeBegin
  <2>2. NewCritical \in [Words -> Value]
    BY <1>1, <1>2, Fields DEF NewCritical
  <2>3. copy' \in [Words -> Value] /\ ArePages(backup') /\ backup'[1] = ErasedPage
    <3>1. copy' \in [Words -> Value]
      BY <2>1, <2>2, Constants
    <3>2. ArePages(backup') /\ backup'[1] = ErasedPage
      <4>1. 1 \in 1 .. 2 /\ ArePages(backup)
        BY <1>1
      <4>2. ArePages([backup EXCEPT ![1] = ErasedPage])
            /\ [backup EXCEPT ![1] = ErasedPage][1] = ErasedPage
        BY ONLY <4>1, PageReplaced, ErasedIsPage
      <4> QED BY <4>2, <2>1
    <3> QED BY <3>1, <3>2
  <2>4. TypeOK'
    BY <1>4, <2>1, <2>3, WordAssumption DEF ConcludeBegin, TypeOK, Labels, Words, validF
  <2>5. RestoreInv'
    BY <2>1 DEF RestoreInv, Restoring, Restored
  <2>6. Written(backup'[1], copy', pos')
    <3>1. \A w \in Words : ~(w < 0) /\ ErasedPage[w] = Blank
      BY DEF ErasedPage, Words
    <3>2. pos' = 0 /\ backup'[1] = ErasedPage
      BY <2>1, <2>3
    <3> QED BY <3>1, <3>2 DEF Written
  <2>7. ConcludeInv'
    BY <1>1, <2>1, <2>6 DEF ConcludeInv, NewCritical
  <2> QED BY <1>3, <2>4, <2>5, <2>7
<1>5. CASE BackupCriticalWord
  <2>1. /\ backup' = [backup EXCEPT ![1] = Program(backup[1], pos, copy[pos])]
        /\ pos' = (pos + 1) % BlockSize /\ copy' = copy /\ pc = "c_backup"
        /\ pc' = IF pos' = 0 THEN "c_crit" ELSE "c_backup"
        /\ Written(backup[1], copy, pos)
    BY <1>5 DEF BackupCriticalWord, ConcludeInv
  <2>2. backup[1] \in [Words -> Value]
    <3>1. backup[1] = [w \in Words |-> backup[1][w]]
      BY <1>1 DEF ArePages, IsPage
    <3>2. \A w \in Words : backup[1][w] \in Value
      BY <1>1, <2>1, Constants DEF Written
    <3> QED BY <3>1, <3>2
  <2>7. Program(backup[1], pos, copy[pos]) \in [Words -> Value]
    BY <1>1, <2>2, ProgramType
  <2>8. ArePages(backup') /\ backup'[1] = Program(backup[1], pos, copy[pos])
    <3>1. IsPage(Program(backup[1], pos, copy[pos]))
      BY <2>7 DEF IsPage
    <3>2. 1 \in 1 .. 2 /\ ArePages(backup)
      BY <1>1
    <3> DEFINE new == Program(backup[1], pos, copy[pos])
    <3> HIDE DEF new
    <3>3. ArePages([backup EXCEPT ![1] = new]) /\ [backup EXCEPT ![1] = new][1] = new
      BY <3>1, <3>2, PageReplaced DEF new
    <3> QED BY <2>1, <3>3 DEF new
  <2>3. /\ backup'[1] \in [Words -> Value] /\ pos' \in Words
        /\ pos' # 0 => Written(backup'[1], copy, pos')
        /\ pos' = 0 => backup'[1] = copy
    BY <1>1, <2>1, <2>2, <2>8, OneMoreWord
  <2>4. TypeOK'
    BY <1>1, <1>5, <2>1, <2>8, <2>3 DEF BackupCriticalWord, TypeOK, Labels
  <2>5. RestoreInv'
    BY <2>1 DEF RestoreInv, Restoring, Restored
  <2>6. ConcludeInv'
    BY <1>1, <2>1, <2>3 DEF ConcludeInv
  <2> QED BY <1>3, <2>4, <2>5, <2>6
<1> QED BY <1>4, <1>5

\* ... and the erase of the old page is the instant the version changes.
LEMMA EraseStep ==
    ASSUME CritInv, EraseCritical
    PROVE  CritInv' /\ VersionStep
<1> USE DEF CritInv, storage, record, ram, goto
<1>1. /\ pc = "c_crit" /\ pc' = "c_write" /\ crit' = ErasedPage /\ backup' = backup
      /\ pos' = pos /\ pos = 0 /\ backup[1] = copy /\ copy' = [copy EXCEPT ![validF] = Blank]
      /\ crit[validF] = Valid /\ Sound(crit) /\ UpdateReady
      /\ crit \in [Words -> Value] /\ copy \in [Words -> Value]
  BY DEF EraseCritical, ConcludeInv, SoundInv, Trusted, Labels, Restoring, Restored, UpdateInv,
         Started, TypeOK
<1>2. copy = [crit EXCEPT ![challengeF] = stored.signature,
                          ![versionF] = stored.versionID, ![inProgressF] = Blank]
  BY <1>1 DEF ConcludeInv
<1>3. /\ stored \in Headers /\ stored.signature \in Challenges /\ stored.versionID \in Versions
      /\ stored.answers = crit[challengeF] /\ stored.oldVersionID = crit[versionF]
      /\ crit[versionF] < stored.versionID /\ stored.versionID \in Nat
  BY <1>1, HeaderAssumption DEF UpdateReady, ValidateHeader, TypeOK, Versions, Challenges
<1>4. /\ copy[challengeF] = stored.signature /\ copy[versionF] = stored.versionID
      /\ copy[inProgressF] = Blank /\ copy[validF] = Valid
  BY <1>1, <1>2, Fields
<1>5. Sound(backup[1]) /\ backup[1][inProgressF] = Blank
  BY <1>1, <1>3, <1>4 DEF Sound
<1>6. crit'[validF] # Valid
  BY <1>1, Fields, Constants DEF ErasedPage
<1>7. TypeOK'
  BY <1>1, Fields, Constants DEF EraseCritical, TypeOK, Labels
<1>8. SoundInv'
  BY <1>1, <1>5, <1>6 DEF SoundInv, Sound, Trusted, Restoring
<1>9. RestoreInv'
  BY <1>1, <1>6 DEF RestoreInv, Restoring, Restored, Written, ErasedPage, Words
<1>10. UpdateInv' /\ ConcludeInv'
  BY <1>1 DEF UpdateInv, ConcludeInv, Started
<1>11. VersionSpec!Install(stored)
  <2>1. Effective = crit /\ Effective' = backup[1]
    BY <1>1, <1>6 DEF Effective
  <2>2. crit[versionF] \in Nat
    BY <1>1, HeaderAssumption DEF Sound, Versions
  <2> QED BY <1>1, <1>3, <1>4, <2>1, <2>2 DEF VersionSpec!Install
<1>12. VersionStep
  BY <1>3, <1>11 DEF VersionStep, VersionSpec!Next
<1> QED BY <1>7, <1>8, <1>9, <1>10, <1>12

LEMMA CritInvNext ==
    ASSUME CritInv, [Next]_vars
    PROVE  CritInv' /\ VersionStep
BY QuietStep, BackupStep, SetInProgressStep, RestoreStep, MarkStep, SaveStep, EraseStep
   DEF Next, Boot, Application, Idle, VersionStep

-----------------------------------------------------------------------------
LEMMA CritInvAlways == Spec => []CritInv
<1>1. CritInv /\ [Next]_vars => CritInv'
  BY CritInvNext
<1> QED BY <1>1, CritInvInit, PTL DEF Spec

\* validateCriticalMetadata never loads a torn page or cache data: whenever the
\* critical page is not valid, backupCache1 holds a finished copy of it,
\* although the same page backs up the cache during an installation.
THEOREM BackupIsCritical == Spec => []CriticalRecoverable
<1>1. CritInv => CriticalRecoverable
  BY DEF CritInv, SoundInv, Sound, CriticalRecoverable
<1> QED BY <1>1, CritInvAlways, PTL

\* An installation under way is never forgotten: updateInProgress stays set and
\* valid in flash while commands and delta run.
THEOREM StartedAlways == Spec => []StartedIsRemembered
<1>1. CritInv => StartedIsRemembered
  BY DEF CritInv, SoundInv, UpdateInv, Started, Trusted, Labels, Restoring, Restored,
         StartedIsRemembered
<1> QED BY <1>1, CritInvAlways, PTL

\* Version and challenge change together, in the one step that erases the old
\* critical page, and only by an update that answers the challenge and was made
\* for the installed version: concludeUpdate implements InstalledVersion.
THEOREM ConcludeIsAtomic == Spec => AtomicVersion
<1>1. Init => VersionSpec!Init
  BY Fields, Constants DEF Init, VersionSpec!Init, Effective, FactoryPage, ErasedPage
<1>2. CritInv /\ [Next]_vars => [VersionSpec!Next]_(VersionSpec!vars)
  BY CritInvNext DEF VersionStep, SameVersion, VersionSpec!vars
<1> QED BY <1>1, <1>2, CritInvAlways, PTL DEF Spec, AtomicVersion, VersionSpec!Spec
=============================================================================
