---------------------------- MODULE MetadataPages ----------------------------
(***************************************************************************)
(* The two update-metadata pages of Munin (updateMetadataMain and          *)
(* updateMetadataSec) and the counter kept in their bit field: getMetadata *)
(* and requestUpdate of munin/core.c, setMetadataPage, incrementCounter    *)
(* and getCurrentCounter of munin/Bytecode/execution_utils.c.              *)
(*                                                                         *)
(* One action is one flash command (erase a page, program a word), because *)
(* power may be lost between any two of them.  A word is programmed only   *)
(* when it is blank, as program_flash of the K64F driver does.  The page   *)
(* layout is the aligned one: a slot of the bit field is one word, and the *)
(* words multiplier, valid and notExpired of the footer follow the last    *)
(* slot.                                                                   *)
(***************************************************************************)
EXTENDS Integers

CONSTANTS Locations,       \* addresses an update may be stored at
          Factory,         \* the address in the factory image
          Blank,           \* an erased word of flash: all ones
          Slots,           \* USABLE_BIT_FIELD_COUNTER
          MaxCounter,      \* bound: increments made by one pass over an update
          MaxMultiplier    \* bound: overflows of the bit field

ASSUME LocationAssumption == Factory \in Locations
ASSUME BlankAssumption == Blank \notin Locations \cup Nat \cup {"VALID", "zero"}
ASSUME BoundAssumption ==
    /\ Slots \in Nat \ {0} /\ MaxMultiplier \in Nat
    /\ MaxCounter \in 1 .. Slots + 3

VARIABLES page,            \* flash: the two metadata pages
          mode,            \* what the processor runs
          pc,              \* next flash command of the operation under way
          cur,             \* setMetadataPage: currentMetadata
          loc,             \* setMetadataPage: updateLocation
          mult,            \* setMetadataPage: multiplier
          step,            \* traceCounter of the pass under way
          old,             \* permanentTraceCounter, read after startUpdate
          ff,              \* *fastForward
          dry,             \* fastForward == NULL: the pass is a dry run
          part             \* what the pass is in: runCommands or applyDeltaPatch

ram  == <<cur, loc, mult, step, old, ff, dry, part>>
vars == <<page, mode, pc, cur, loc, mult, step, old, ff, dry, part>>

Names == {"Main", "Sec"}
Other(p) == IF p = "Main" THEN "Sec" ELSE "Main"

Page == [location   : Locations \cup {Blank},
         zeroed     : [0 .. Slots - 1 -> BOOLEAN],
         multiplier : Nat \cup {Blank},
         valid      : {Blank, "VALID", "zero"},
         notExpired : {Blank, "zero"}]

MetadataPage(location, multiplier, valid, notExpired) ==
    [location |-> location, zeroed |-> [s \in 0 .. Slots - 1 |-> FALSE],
     multiplier |-> multiplier, valid |-> valid, notExpired |-> notExpired]
ErasedPage == MetadataPage(Blank, Blank, Blank, Blank)

\* programFlash on one word: only a blank word takes the new value.
Program(word, value) == IF word = Blank THEN value ELSE word

TypeOK ==
    /\ page \in [Names -> Page]
    /\ mode \in {"off", "app", "start", "update"}
    /\ pc \in {"idle", "erase", "location", "multiplier", "valid", "expire", "slot"}
    /\ cur \in Names /\ loc \in Locations /\ mult \in Nat
    /\ step \in Nat /\ old \in Nat
    /\ ff \in BOOLEAN /\ dry \in BOOLEAN
    /\ part \in {"commands", "delta"}

-----------------------------------------------------------------------------
(* Reading the pages. *)

IsMetadataValid(p) == p.valid = "VALID" /\ p.notExpired = Blank

\* The assertion of getMetadata is the invariant OneValid below.
GetMetadata == IF IsMetadataValid(page["Main"]) THEN "Main" ELSE "Sec"

\* The loop of getCurrentCounter stops at the first slot that is not zero and
\* never looks at the last one: i + WIDTH < sizeof(bitField).
LeadingZeros(bits) ==
    CHOOSE n \in 0 .. Slots - 1 :
        /\ \A s \in 0 .. n - 1 : bits[s]
        /\ n = Slots - 1 \/ ~bits[n]

\* Mutant: the count of the bit field starts at -1.
GetCurrentCounterLessOne ==
    LET m == page[GetMetadata]
    IN  m.multiplier * Slots + LeadingZeros(m.zeroed) - 1

GetCurrentCounter ==
    LET m == page[GetMetadata]
    IN  m.multiplier * Slots + LeadingZeros(m.zeroed)

-----------------------------------------------------------------------------
Init ==
    /\ page = [p \in Names |-> IF p = "Main" THEN MetadataPage(Factory, 0, "VALID", Blank)
                                             ELSE MetadataPage(Factory, 0, "zero", "zero")]
    /\ mode = "off" /\ pc = "idle"
    /\ cur = "Main" /\ loc = Factory /\ mult = 0
    /\ step = 0 /\ old = 0 /\ ff = FALSE /\ dry = FALSE
    /\ part = "commands"

(* setMetadataPage: the call, then its five flash commands. *)

CallSetMetadataPage(current, location, multiplier) ==
    /\ cur' = current /\ loc' = location /\ mult' = multiplier
    /\ pc' = "erase"
    /\ UNCHANGED <<page, old, dry, part>>

FlashStep(from, to) ==
    /\ pc = from /\ pc' = to
    /\ UNCHANGED <<mode, ram>>

\* Mutant: the page in use is erased instead of the other one.
EraseCurrent ==
    /\ FlashStep("erase", "location")
    /\ page' = [page EXCEPT ![cur] = ErasedPage]

\* Mutant: the bit field of the new page is not reset.
EraseAllButSlots ==
    /\ FlashStep("erase", "location")
    /\ page' = [page EXCEPT ![Other(cur)] = [ErasedPage EXCEPT !.zeroed = page[Other(cur)].zeroed]]

EraseNew ==
    /\ FlashStep("erase", "location")
    /\ page' = [page EXCEPT ![Other(cur)] = ErasedPage]

WriteLocation ==
    /\ FlashStep("location", "multiplier")
    /\ page' = [page EXCEPT ![Other(cur)].location = Program(@, loc)]

WriteMultiplier ==
    /\ FlashStep("multiplier", "valid")
    /\ page' = [page EXCEPT ![Other(cur)].multiplier = Program(@, mult)]

WriteValid ==
    /\ FlashStep("valid", "expire")
    /\ page' = [page EXCEPT ![Other(cur)].valid = Program(@, "VALID")]

ExpireOld ==
    /\ FlashStep("expire", "idle")
    /\ page' = [page EXCEPT ![cur].notExpired = Program(@, "zero")]

\* requestUpdate, called by the application once the update is downloaded.
RequestUpdate(location) ==
    /\ mode = "app" /\ pc = "idle"
    /\ CallSetMetadataPage(GetMetadata, location, 0)
    /\ UNCHANGED <<mode, step, ff>>

-----------------------------------------------------------------------------
(* Boot.  Whether there is an update to install, and whether it was already *)
(* started, is decided by the header and the critical metadata, which other *)
(* modules describe: here every answer is possible.                         *)

BootToApp ==
    /\ mode = "off" /\ mode' = "app"
    /\ UNCHANGED <<page, pc, ram>>

\* startUpdate when updateInProgress is not set: restart from step 0.
StartFresh ==
    /\ mode = "off" /\ mode' = "start"
    /\ CallSetMetadataPage(GetMetadata, page[GetMetadata].location, 0)
    /\ UNCHANGED <<step, ff>>

\* startUpdate when updateInProgress is set: keep the counter.
StartAgain ==
    /\ mode = "off" /\ mode' = "start"
    /\ UNCHANGED <<page, pc, ram>>

\* permanentTraceCounter = getCurrentCounter(), then the dry run begins.
BeginDryRun ==
    /\ mode = "start" /\ pc = "idle"
    /\ mode' = "update"
    /\ old' = GetCurrentCounter
    /\ step' = 0 /\ dry' = TRUE /\ ff' = FALSE /\ part' = "commands"
    /\ UNCHANGED <<page, pc, cur, loc, mult>>

\* Mutant: the real run always fast-forwards.
BeginRealRunForward ==
    /\ mode = "update" /\ pc = "idle" /\ dry /\ part = "delta"
    /\ step' = 0 /\ dry' = FALSE /\ ff' = TRUE /\ part' = "commands"
    /\ UNCHANGED <<page, mode, pc, cur, loc, mult, old>>

\* index = traceCounter = 0, then the real run begins.
BeginRealRun ==
    /\ mode = "update" /\ pc = "idle" /\ dry /\ part = "delta"
    /\ step' = 0 /\ dry' = FALSE /\ ff' = (old # 0) /\ part' = "commands"
    /\ UNCHANGED <<page, mode, pc, cur, loc, mult, old>>

\* The commands are over: applyDeltaPatch(header, index, traceCounter, old, dry)
\* starts with resuming = traceCounter < previousCounter.
BeginDelta ==
    /\ mode = "update" /\ pc = "idle" /\ part = "commands"
    /\ part' = "delta" /\ ff' = (~dry /\ step < old)
    /\ UNCHANGED <<page, mode, pc, cur, loc, mult, step, old, dry>>

\* concludeUpdate and the jump to the application.
Conclude ==
    /\ mode = "update" /\ pc = "idle" /\ mode' = "app"
    /\ UNCHANGED <<page, pc, ram>>

-----------------------------------------------------------------------------
(* incrementCounter. *)

Skipping == ~dry /\ ff

\* The counter the caller compares with: ERASE reads the counter in flash again
\* (execution.c:237), applyDeltaPatch uses the one read at boot.
OldCounter == IF part = "commands" THEN GetCurrentCounter ELSE old

IncrementFastForward ==
    /\ mode = "update" /\ pc = "idle" /\ step < MaxCounter /\ Skipping
    /\ step' = step + 1
    /\ ff' = (step' # OldCounter)
    /\ UNCHANGED <<page, mode, pc, cur, loc, mult, old, dry, part>>

Overflows(c) == (c - 1) \div Slots # c \div Slots

IncrementOverflow ==
    /\ mode = "update" /\ pc = "idle" /\ step < MaxCounter /\ ~Skipping
    /\ Overflows(step + 1)
    /\ page[GetMetadata].multiplier < MaxMultiplier
    /\ step' = step + 1
    /\ CallSetMetadataPage(GetMetadata, page[GetMetadata].location,
                           page[GetMetadata].multiplier + 1)
    /\ UNCHANGED <<mode, ff>>

IncrementSlot ==
    /\ mode = "update" /\ pc = "idle" /\ step < MaxCounter /\ ~Skipping
    /\ ~Overflows(step + 1)
    /\ step' = step + 1
    /\ cur' = GetMetadata
    /\ pc' = "slot"
    /\ UNCHANGED <<page, mode, loc, mult, old, ff, dry, part>>

\* Mutant: the index of the slot is not decremented.
ZeroNextWord(p, i) == IF i + 1 < Slots THEN [p EXCEPT !.zeroed[i + 1] = TRUE] ELSE p

\* bitField[(counter - 1) * WIDTH] = 0.  The index is not reduced modulo the
\* number of slots: past the last slot the write lands in the footer.
ZeroWord(p, i) ==
    CASE i < Slots     -> [p EXCEPT !.zeroed[i] = TRUE]
      [] i = Slots     -> [p EXCEPT !.multiplier = Program(@, 0)]
      [] i = Slots + 1 -> [p EXCEPT !.valid = Program(@, "zero")]
      [] i = Slots + 2 -> [p EXCEPT !.notExpired = Program(@, "zero")]

WriteSlot ==
    /\ FlashStep("slot", "idle")
    /\ page' = [page EXCEPT ![cur] = ZeroWord(@, step - 1)]

-----------------------------------------------------------------------------
\* Power is lost, or the device reboots: flash stays, and every variable kept in
\* RAM is written again before it is next read.
PowerLoss ==
    /\ mode # "off"
    /\ mode' = "off" /\ pc' = "idle"
    /\ UNCHANGED <<page, ram>>

Next ==
    \/ EraseNew \/ WriteLocation \/ WriteMultiplier \/ WriteValid \/ ExpireOld
    \/ \E l \in Locations : RequestUpdate(l)
    \/ BootToApp \/ StartFresh \/ StartAgain
    \/ BeginDryRun \/ BeginDelta \/ BeginRealRun \/ Conclude
    \/ IncrementFastForward \/ IncrementOverflow \/ IncrementSlot \/ WriteSlot
    \/ PowerLoss

Spec == Init /\ [][Next]_vars

-----------------------------------------------------------------------------
(* Properties. *)

\* Whatever flash command power is lost after, one of the two pages is valid:
\* the assertion in getMetadata (core.c:73) cannot fail.
OneValid == \E p \in Names : IsMetadataValid(page[p])

\* While steps are executed for real, every step already taken is in flash: a
\* power loss now would not make the next boot repeat a finished step.
NoLostIncrement ==
    mode = "update" /\ pc = "idle" /\ ~Skipping => step =< GetCurrentCounter

\* A step counted before the boot is never executed again, and no step beyond
\* the counter in flash is left out, although runCommands and applyDeltaPatch
\* compare with different counters.
FastForwardWithinCounter ==
    mode = "update" /\ ~dry => /\ ~ff => step >= old
                               /\ ff => step < GetCurrentCounter

\* The pages behave as one record that changes in a single step, although
\* changing it takes five flash commands and power may be lost after each.
Record == INSTANCE DurableRecord
            WITH location <- page[GetMetadata].location, counter <- GetCurrentCounter
RecordSpec == Record!Spec
=============================================================================
