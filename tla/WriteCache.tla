------------------------------ MODULE WriteCache ------------------------------
(***************************************************************************)
(* How the device writes copies of any length to a flash that is programmed *)
(* in units: performCopyWithCache and flushCopyCache of                    *)
(* munin/Bytecode/execution.c, writeToNAND of execution_utils.c, and the    *)
(* K64F's program_flash.                                                   *)
(*                                                                         *)
(* The end of a copy that does not fill a unit waits in writeCache for the  *)
(* next one.  The flash is what was erased before; the byte a copy has for  *)
(* address a is a itself.                                                  *)
(***************************************************************************)
EXTENDS Integers, Sequences, SequencesExt, FiniteSetsExt

CONSTANTS WRITE_GRANULARITY,       \* bytes in a unit
          ADDRESSING_GRANULARITY,  \* what a misaligned write may start at
          Size,                    \* bytes of the flash
          Gaps                     \* bytes a copy may leave out after the one before

ASSUME WriteCacheAssumption ==
    /\ WRITE_GRANULARITY \in Nat \ {0} /\ ADDRESSING_GRANULARITY \in Nat \ {0}
    /\ Size \in Nat /\ Size % WRITE_GRANULARITY = 0
    /\ Gaps \subseteq Nat

VARIABLES flash, writeCache, currentWriteCachePos, prevDest,
          asked,    \* the addresses copies were made to
          inside,   \* those of copies that began inside a unit, and of what joined them
          next,     \* the address after the last copy
          over      \* the commands have ended
cache == <<writeCache, currentWriteCachePos, prevDest>>
vars  == <<flash, cache, asked, inside, next, over>>

Erased   == -1     \* 0xff
Zero     == -2     \* writeCache at boot
Misalignment(a) == a % WRITE_GRANULARITY
Aligned(n)      == n - Misalignment(n)
Bytes(dest, len) == [i \in 1 .. len |-> dest + i - 1]
Unit(f, a) == [i \in 1 .. WRITE_GRANULARITY |-> f[a + i - 1]]
ErasedUnit == [i \in 1 .. WRITE_GRANULARITY |-> Erased]
From(bytes, n) == SubSeq(bytes, n + 1, Len(bytes))
Pad(bytes) == bytes \o SubSeq(ErasedUnit, 1, WRITE_GRANULARITY - Len(bytes))

Init ==
    /\ flash = [a \in 0 .. Size - 1 |-> Erased]
    /\ writeCache = [i \in 1 .. WRITE_GRANULARITY |-> Zero]
    /\ currentWriteCachePos = 0 /\ prevDest = 0
    /\ asked = {} /\ inside = {} /\ next = 0 /\ over = FALSE

-----------------------------------------------------------------------------
\* program_flash: unit by unit, up to the first one that is not erased.
ProgramFlash(f, address, bytes) ==
    LET units == {a \in address .. address + Len(bytes) - 1 : Misalignment(a) = 0}
        used  == {a \in units : Unit(f, a) # ErasedUnit}
    IN  [a \in DOMAIN f |->
            IF a \in address .. address + Len(bytes) - 1 /\ \A u \in used : a < u
            THEN bytes[a - address + 1] ELSE f[a]]

\* writeToNAND from an aligned address: what does not fill a unit is padded.
WriteAligned(f, address, bytes) ==
    LET n == Aligned(Len(bytes))
        whole == ProgramFlash(f, address, SubSeq(bytes, 1, n))
    IN  IF n = Len(bytes) THEN whole ELSE ProgramFlash(whole, address + n, Pad(From(bytes, n)))

\* A misaligned write programs the unit it begins in again, with 0xff in the place of
\* the new bytes.
WriteToNAND(f, address, bytes) ==
    LET mis    == Misalignment(address)
        n      == Min({WRITE_GRANULARITY - mis, Len(bytes)})
        missing == [i \in 1 .. WRITE_GRANULARITY |->
                       IF mis < i /\ i =< mis + n THEN Erased ELSE f[address - mis + i - 1]]
    IN  CASE mis = 0 -> WriteAligned(f, address, bytes)
          [] mis # 0 /\ mis % ADDRESSING_GRANULARITY # 0 -> f
          [] mis # 0 /\ mis % ADDRESSING_GRANULARITY = 0 ->
                WriteAligned(ProgramFlash(f, address - mis, missing), address + n, From(bytes, n))

-----------------------------------------------------------------------------
(* performCopyWithCache.  w holds the flash and the write cache. *)

Overwrite(buffer, at, bytes) ==
    [i \in DOMAIN buffer |-> IF at < i /\ i =< at + Len(bytes) THEN bytes[i - at] ELSE buffer[i]]

\* The aligned part goes to the flash, the end to the cache.
WriteThrough(w, dest, bytes) ==
    LET n    == Aligned(Len(bytes))
        rest == From(bytes, n)
        f    == WriteToNAND(w.flash, dest, SubSeq(bytes, 1, n))
    IN  IF rest = <<>> THEN [w EXCEPT !.flash = f]
        ELSE [flash |-> f, buffer |-> Overwrite(w.buffer, 0, rest), pos |-> Len(rest), prev |-> dest + n]

\* Another unit: the cache is written, to the new destination.
OtherUnit(w, dest, bytes) ==
    WriteThrough([w EXCEPT !.flash = WriteToNAND(@, dest, SubSeq(w.buffer, 1, w.pos)), !.pos = 0],
                 dest, bytes)

\* The same unit, further on: the cache is padded.
Padded(w, dest) ==
    IF w.prev + w.pos = dest THEN w
    ELSE [w EXCEPT !.buffer = Overwrite(@, w.pos,
                                 SubSeq(ErasedUnit, 1, WRITE_GRANULARITY - Misalignment(dest))),
                   !.pos = @ + Misalignment(dest)]

\* Mutant: the part of the copy that filled the unit is written again after it.
MutantSameUnit(w, dest, bytes) ==
    LET left == WRITE_GRANULARITY - w.pos
    IN  IF Len(bytes) < left
        THEN [w EXCEPT !.buffer = Overwrite(@, w.pos, bytes), !.pos = @ + Len(bytes)]
        ELSE WriteThrough(
               [w EXCEPT !.flash = WriteToNAND(@, w.prev, Overwrite(w.buffer, w.pos, SubSeq(bytes, 1, left))),
                         !.pos = 0], dest + left, bytes)

SameUnit(w, dest, bytes) ==
    LET left == WRITE_GRANULARITY - w.pos
        full == Overwrite(w.buffer, w.pos, SubSeq(bytes, 1, left))
    IN  IF Len(bytes) < left
        THEN [w EXCEPT !.buffer = Overwrite(@, w.pos, bytes), !.pos = @ + Len(bytes)]
        ELSE WriteThrough([w EXCEPT !.flash = WriteToNAND(@, w.prev, full), !.buffer = full, !.pos = 0],
                          dest + left, From(bytes, left))

PerformCopyWithCache(w, dest, bytes) ==
    CASE w.pos = 0 -> WriteThrough(w, dest, bytes)
      [] w.pos # 0 /\ (dest =< w.prev \/ w.prev + WRITE_GRANULARITY =< dest) ->
            OtherUnit(w, dest, bytes)
      [] w.pos # 0 /\ w.prev < dest /\ dest < w.prev + WRITE_GRANULARITY ->
            SameUnit(Padded(w, dest), dest, bytes)

\* Mutant: the padding is left out, the last unit is written as the cache holds it.
MutantFlushCopyCache(w) ==
    IF w.pos = 0 THEN w
    ELSE [w EXCEPT !.flash = WriteToNAND(@, w.prev, w.buffer), !.pos = 0]

FlushCopyCache(w) ==
    LET full == Pad(SubSeq(w.buffer, 1, w.pos))
    IN  IF w.pos = 0 THEN w
        ELSE [w EXCEPT !.flash = WriteToNAND(@, w.prev, full), !.buffer = full, !.pos = 0]

-----------------------------------------------------------------------------
Now == [flash |-> flash, buffer |-> writeCache, pos |-> currentWriteCachePos, prev |-> prevDest]
Becomes(w) == /\ flash' = w.flash /\ writeCache' = w.buffer
              /\ currentWriteCachePos' = w.pos /\ prevDest' = w.prev

\* A copy that nothing waits for begins inside a unit, or one goes on from such a copy.
BeginsInside(dest) == IF currentWriteCachePos = 0 THEN Misalignment(dest) # 0
                                                  ELSE next - 1 \in inside

\* COPY_CN, COPY_NN and the copies chained to them: anywhere when nothing waits in the
\* cache, where the last copy ended when something does.
Copy(dest, len) ==
    /\ ~over /\ dest >= next
    /\ currentWriteCachePos # 0 => dest - next \in Gaps
    /\ Becomes(PerformCopyWithCache(Now, dest, Bytes(dest, len)))
    /\ asked' = asked \cup (dest .. dest + len - 1) /\ next' = dest + len
    /\ inside' = IF BeginsInside(dest) THEN inside \cup (dest .. dest + len - 1) ELSE inside
    /\ UNCHANGED over

\* ERASE, of another block, flushes the cache first.
Erase ==
    /\ ~over /\ Becomes(FlushCopyCache(Now))
    /\ UNCHANGED <<asked, inside, next, over>>

EndOfStream == ~over /\ over' = TRUE /\ UNCHANGED <<flash, cache, asked, inside, next>>
Ended == over /\ UNCHANGED vars

Next == \/ \E dest \in 0 .. Size - 1 : \E len \in 1 .. Size - dest : Copy(dest, len)
        \/ Erase \/ EndOfStream \/ Ended
Spec == Init /\ [][Next]_vars

-----------------------------------------------------------------------------
\* The byte for address a waits in the cache.
Waits(a) == \E i \in 1 .. currentWriteCachePos : prevDest + i - 1 = a /\ writeCache[i] = a

Kept(a) == flash[a] = a \/ Waits(a)

\* However copies are cut, each byte is at its place in the flash, or waits for its
\* unit in the cache, unless its copy began inside a unit; and such a copy takes
\* nothing from the others, even from those it shares the unit with.
NothingLost == \A a \in asked \ inside : Kept(a)

\* "If misaligned, we keep the old data before our insertion point" (writeToNAND): a
\* copy may begin inside a unit.
MisalignedIsKept == \A a \in asked : Kept(a)

\* Nothing else is programmed: the padding leaves the rest of a unit erased, and no
\* stale byte of the cache is written.
NothingElse == \A a \in DOMAIN flash : flash[a] # Erased => a \in asked /\ flash[a] = a

\* The commands are executed when they end, before the delta is applied to the result.
CommandsAreWritten == over => \A a \in asked : flash[a] = a
=============================================================================
