---------------------------- MODULE ExecutionProofs ----------------------------
(***************************************************************************)
(* Proofs of the safety properties of Execution.  The interrupted device   *)
(* follows the uninterrupted run (Run): at every moment there             *)
(* is a state d of that run, the one before the operation under way, such  *)
(* that the device has d's memory, or skips and the flash holds what it    *)
(* will need when it stops skipping.                                       *)
(***************************************************************************)
EXTENDS Execution, WellFoundedInduction, TLAPS

\* A set of natural numbers that is not empty has a least element.
LEMMA LeastNatural ==
    ASSUME NEW T, T \subseteq Nat, T # {}
    PROVE  \E x \in T : \A y \in T : x =< y
<1>1. PICK x \in T : \A y \in T : ~(<<y, x>> \in OpToRel(<, Nat))
  BY NatLessThanWellFounded, WFMin, Zenon
<1>2. ASSUME NEW y \in T PROVE x =< y
  <2>1. ~(y < x)
    BY <1>1 DEF OpToRel
  <2> QED BY <2>1
<1> QED BY <1>2

\* Induction on the natural numbers, for a set of them.
LEMMA Induction ==
    ASSUME NEW S, 0 \in S, \A n \in Nat : n \in S => n + 1 \in S
    PROVE  Nat \subseteq S
<1> SUFFICES ASSUME Nat \ S # {} PROVE FALSE
  OBVIOUS
<1>1. PICK n \in Nat \ S : \A m \in Nat \ S : n =< m
  BY LeastNatural
<1>2. n # 0 /\ n - 1 \in Nat /\ n - 1 \in S
  BY <1>1
<1> QED BY <1>2, n - 1 + 1 = n

-----------------------------------------------------------------------------
(* The counter and the step. *)

\* What CounterIsStep rests on: the ERASE at which a resumed run stops skipping
\* compares the step with the counter in flash.
CounterInv ==
    /\ dry = FALSE /\ ff \in BOOLEAN /\ counter \in Nat /\ step \in Nat
    /\ pc = "commands" =>
          IF ff THEN step < counter /\ (stage = "ready" \/ (stage = "second" /\ old = counter))
                ELSE step = counter

\* incrementCounter in a resumed run: while it skips, and once it executes.
LEMMA IncrementSkips ==
    ASSUME dry = FALSE, ff = TRUE, NEW at \in Nat, step \in Nat, Increment(at)
    PROVE  /\ step' = step + 1 /\ counter' = counter /\ ff' \in BOOLEAN
           /\ (ff' => step + 1 # at) /\ (~ff' => step + 1 = at)
<1>1. ff' = (step + 1 # at)
  BY Zenon DEF Increment
<1>2. step' = step + 1 /\ counter' = counter
  BY DEF Increment
<1> QED BY <1>1, <1>2

LEMMA IncrementMarks ==
    ASSUME dry = FALSE, ff = FALSE, NEW at, Increment(at),
           step \in Nat, counter \in Nat, step = counter
    PROVE  step' = step + 1 /\ counter' = counter + 1 /\ ff' = FALSE
<1>1. ff' = FALSE
  BY Zenon DEF Increment
<1>2. step' = step + 1 /\ counter' = counter + 1
  BY DEF Increment, MarkStep
<1> QED BY <1>1, <1>2

LEMMA CounterStep == CounterInv /\ [Next]_vars => CounterInv'
<1> SUFFICES ASSUME CounterInv, [Next]_vars PROVE CounterInv'
  OBVIOUS
<1>0. /\ dry = FALSE /\ ff \in BOOLEAN /\ counter \in Nat /\ step \in Nat
      /\ pc = "commands" =>
            IF ff THEN step < counter /\ (stage = "ready" \/ (stage = "second" /\ old = counter))
                  ELSE step = counter
  BY DEF CounterInv
<1>1. CASE Boot
  <2>1. step' = 0 /\ counter' = counter /\ pc' = "commands" /\ stage' = "ready"
    BY <1>1 DEF Boot, BeginRun
  <2>2. dry' = FALSE /\ ff' = (counter # 0)
    BY <1>1, Zenon DEF Boot, BeginRun
  <2>3. CASE counter = 0
    <3>1. ff' = FALSE
      BY <2>2, <2>3
    <3> QED BY <3>1, <2>1, <2>2, <2>3, <1>0 DEF CounterInv
  <2>4. CASE counter # 0
    <3>1. ff' = TRUE
      BY <2>2, <2>4
    <3> QED BY <3>1, <2>1, <2>2, <2>4, <1>0 DEF CounterInv
  <2> QED BY <2>3, <2>4
<1>2. CASE Decode \/ EndOfStream \/ SkipCopy \/ CopyToCache \/ CopyToFlash
  <2>1. /\ UNCHANGED <<dry, ff, counter, step, stage, old>> /\ pc = "commands"
    BY <1>2 DEF Decode, EndOfStream, SkipCopy, CopyToCache, CopyToFlash, Running, exec
  <2> QED BY <2>1, <1>0 DEF CounterInv
<1>3. CASE EraseFirstIncrement
  <2>1. pc = "commands" /\ dry' = dry /\ old' = counter /\ pc' = pc /\ Increment(counter)
    BY <1>3 DEF EraseFirstIncrement, Running
  <2>2. CASE ff
    <3>1. /\ step' = step + 1 /\ counter' = counter /\ ff' \in BOOLEAN
          /\ (ff' => step + 1 # counter) /\ (~ff' => step + 1 = counter)
      BY <2>1, <2>2, <1>0, IncrementSkips
    <3>2. ff' => stage' = "second"
      BY <1>3, <2>1, <1>0 DEF EraseFirstIncrement, Skip
    <3> QED BY <2>1, <2>2, <3>1, <3>2, <1>0 DEF CounterInv
  <2>3. CASE ~ff
    <3>1. step' = step + 1 /\ counter' = counter + 1 /\ ff' = FALSE
      BY <2>1, <2>3, <1>0, IncrementMarks
    <3>2. step = counter
      BY <2>1, <2>3, <1>0
    <3>3. step' = counter' /\ counter' \in Nat
      BY <3>1, <3>2, <1>0
    <3>4. ~ff' /\ ff' \in BOOLEAN
      BY <3>1
    <3>5. dry' = FALSE
      BY <2>1, <1>0
    <3> QED BY <3>3, <3>4, <3>5 DEF CounterInv
  <2> QED BY <2>2, <2>3
<1>4. CASE BackupErase \/ BackupWord \/ EraseBlock
  <2>1. UNCHANGED <<dry, ff, counter, step, old, pc>> /\ pc = "commands"
    BY <1>4 DEF BackupErase, BackupWord, EraseBlock, Running
  <2>2. stage \notin {"ready", "second"}
    BY <1>4 DEF BackupErase, BackupWord, EraseBlock
  <2> QED BY <2>1, <2>2, <1>0 DEF CounterInv
<1>5. CASE EraseSecondIncrement
  <2>1. pc = "commands" /\ dry' = dry /\ old' = old /\ pc' = pc /\ Increment(old)
        /\ stage = "second"
    BY <1>5 DEF EraseSecondIncrement, Running
  <2>2. CASE ff
    <3>1. /\ step' = step + 1 /\ counter' = counter /\ ff' \in BOOLEAN
          /\ (ff' => step + 1 # counter) /\ (~ff' => step + 1 = counter)
      BY <2>1, <2>2, <1>0, IncrementSkips
    <3>2. ff' => stage' = "ready"
      BY <1>5, <2>1, <1>0 DEF EraseSecondIncrement, Skip
    <3> QED BY <2>1, <2>2, <3>1, <3>2, <1>0 DEF CounterInv
  <2>3. CASE ~ff
    <3>1. step' = step + 1 /\ counter' = counter + 1 /\ ff' = FALSE
      BY <2>1, <2>3, <1>0, IncrementMarks
    <3>2. step = counter
      BY <2>1, <2>3, <1>0
    <3>3. step' = counter' /\ counter' \in Nat
      BY <3>1, <3>2, <1>0
    <3>4. ~ff' /\ ff' \in BOOLEAN
      BY <3>1
    <3>5. dry' = FALSE
      BY <2>1, <1>0
    <3> QED BY <3>3, <3>4, <3>5 DEF CounterInv
  <2> QED BY <2>2, <2>3
<1>6. CASE PowerLoss
  BY <1>6, <1>0 DEF PowerLoss, exec, CounterInv
<1>7. CASE UNCHANGED vars
  BY <1>7, <1>0 DEF vars, exec, CounterInv
<1> QED BY <1>1, <1>2, <1>3, <1>4, <1>5, <1>6, <1>7 DEF Next, Execute, Terminated

LEMMA CounterStarts == Init => CounterInv
<1> SUFFICES ASSUME Init PROVE CounterInv
  OBVIOUS
<1>1. dry = FALSE /\ ff = FALSE
  BY Zenon DEF Init, InitRun
<1>2. counter = 0 /\ step = 0 /\ pc = "off"
  BY DEF Init, InitRun
<1> QED BY <1>1, <1>2 DEF CounterInv

\* In every update, whatever the device reads and wherever power is lost, the
\* step under way is the counter in flash, and lower while the run skips.
THEOREM StepIsCounted == Spec => []CounterIsStep
<1>1. CounterInv => CounterIsStep
  BY DEF CounterInv, CounterIsStep
<1> QED BY <1>1, CounterStarts, CounterStep, PTL DEF Spec

-----------------------------------------------------------------------------
(* What the device and the uninterrupted run are made of. *)

Memories == Blocks \cup {CACHE_BUF}
IsMemory(m) == m = [b \in Memories |-> m[b]]
IsPage(p) == p = [w \in Words |-> p[w]]

\* The operations the interpreter executes.
Commands == [command : STRING, main : Address, secondary : Address, length : Nat]
Operations ==
    [command : {"ERASE", "COPY"}, main : Address, secondary : Address, length : Nat]

LEMMA CacheIsNoBlock == CACHE_BUF \notin Blocks /\ CACHE_BUF \in Memories /\ CACHE_BUF \in Int
BY GeometryAssumption DEF CACHE_BUF, Memories

LEMMA AdvanceType ==
    ASSUME NEW a \in Address, NEW n \in Nat PROVE Advance(a, n) \in Address
<1>1. a[1] \in Int /\ a[2] + n \in Int
  BY DEF Address
<1>2. /\ (a[2] + n) \div BlockSize \in Int /\ (a[2] + n) % BlockSize \in Int
  BY <1>1, GeometryAssumption
<1>3. <<a[1], a[2] + n>>[1] = a[1] /\ <<a[1], a[2] + n>>[2] = a[2] + n
  OBVIOUS
<1> QED BY <1>1, <1>2, <1>3 DEF Advance, Normal, Address

LEMMA CommandFields ==
    ASSUME NEW c \in Commands
    PROVE  c.main \in Address /\ c.secondary \in Address /\ c.length \in Nat /\ c.main[1] \in Int
BY DEF Commands, Address

LEMMA MoveIsMemory ==
    ASSUME NEW m, IsMemory(m), NEW from, NEW len, NEW to
    PROVE  /\ IsMemory(Move(m, from, len, to))
           /\ \A b \in Memories : b # to[1] => Move(m, from, len, to)[b] = m[b]
           /\ IsPage(m[CACHE_BUF]) => IsPage(Move(m, from, len, to)[CACHE_BUF])
<1> DEFINE page == [w \in Words |-> IF w \in to[2] .. to[2] + len - 1
                         THEN Read(m, <<from[1], from[2] + w - to[2]>>) ELSE m[to[1]][w]]
<1>1. Move(m, from, len, to) = [m EXCEPT ![to[1]] = page]
  BY Zenon DEF Move
<1>2. IsPage(page)
  BY Zenon DEF IsPage
<1> HIDE DEF page
<1> QED BY <1>1, <1>2, CacheIsNoBlock DEF IsMemory

-----------------------------------------------------------------------------
(* CopyRun, a copy to the flash. *)

\* The word after the first n, from the state c of the copy.
CopyWord(c, op, n) ==
    LET to == Advance(op.secondary, n)
    IN  IF c.on /\ Read(c.mem, to) = Blank
        THEN [mem |-> Move(c.mem, Advance(op.main, n), 1, to), on |-> TRUE]
        ELSE [mem |-> c.mem, on |-> FALSE]

\* c solves the recursion that defines CopyRun up to the n-th word.
Copies(c, memory, op, n) ==
    c = [i \in 0 .. n |-> IF i = 0 THEN [mem |-> memory, on |-> TRUE]
                          ELSE CopyWord(c[i - 1], op, i - 1)]

LEMMA CopiesExist ==
    ASSUME NEW memory, NEW op, NEW n \in Nat
    PROVE  \E c : Copies(c, memory, op, n)
<1> DEFINE S == {k \in Nat : \E c : Copies(c, memory, op, k)}
<1>1. 0 \in S
  <2>1. Copies([i \in 0 .. 0 |-> [mem |-> memory, on |-> TRUE]], memory, op, 0)
    BY DEF Copies
  <2> QED BY <2>1
<1>2. ASSUME NEW k \in Nat, k \in S PROVE k + 1 \in S
  <2>1. PICK c : Copies(c, memory, op, k)
    BY <1>2
  <2> DEFINE e == [i \in 0 .. k + 1 |-> IF i = k + 1 THEN CopyWord(c[k], op, k) ELSE c[i]]
  <2>2. \A i \in 0 .. k + 1 : e[i] = IF i = 0 THEN [mem |-> memory, on |-> TRUE]
                                     ELSE CopyWord(e[i - 1], op, i - 1)
    <3>1. ASSUME NEW i \in 1 .. k PROVE e[i] = CopyWord(e[i - 1], op, i - 1)
      <4>1. i \in 0 .. k + 1 /\ i # k + 1 /\ i - 1 \in 0 .. k + 1 /\ i - 1 # k + 1 /\ i # 0
            /\ i \in 0 .. k
        OBVIOUS
      <4>2. e[i] = c[i] /\ e[i - 1] = c[i - 1]
        BY <4>1
      <4>3. c[i] = CopyWord(c[i - 1], op, i - 1)
        BY <4>1, <2>1, Zenon DEF Copies
      <4> QED BY <4>2, <4>3
    <3>2. e[k + 1] = CopyWord(e[k], op, k)
      OBVIOUS
    <3>3. e[0] = [mem |-> memory, on |-> TRUE]
      BY <2>1 DEF Copies
    <3> HIDE DEF e
    <3> QED BY <3>1, <3>2, <3>3
  <2>3. e = [i \in 0 .. k + 1 |-> e[i]]
    OBVIOUS
  <2>4. Copies(e, memory, op, k + 1)
    <3> HIDE DEF e
    <3> QED BY <2>2, <2>3 DEF Copies
  <2> QED BY <2>4
<1>3. Nat \subseteq S
  <2> HIDE DEF S
  <2> QED BY <1>1, <1>2, Induction
<1> QED BY <1>3

\* The copy, word by word.
LEMMA CopyRunStep ==
    ASSUME NEW memory, NEW op, op.length \in Nat
    PROVE  /\ CopyRun(memory, op)[0] = [mem |-> memory, on |-> TRUE]
           /\ \A n \in 0 .. op.length - 1 :
                 CopyRun(memory, op)[n + 1] = CopyWord(CopyRun(memory, op)[n], op, n)
<1> DEFINE r == CopyRun(memory, op)
<1>1. r = CHOOSE c : Copies(c, memory, op, op.length)
  BY Zenon DEF CopyRun, Copies, CopyWord
<1>2. Copies(r, memory, op, op.length)
  BY <1>1, CopiesExist, Zenon
<1> HIDE DEF r
<1>3. r[0] = [mem |-> memory, on |-> TRUE]
  BY <1>2 DEF Copies
<1>4. ASSUME NEW n \in 0 .. op.length - 1 PROVE r[n + 1] = CopyWord(r[n], op, n)
  <2>1. n + 1 \in 0 .. op.length /\ n + 1 # 0 /\ n + 1 - 1 = n
    OBVIOUS
  <2>2. \A i \in 0 .. op.length : i # 0 => r[i] = CopyWord(r[i - 1], op, i - 1)
    BY <1>2, Zenon DEF Copies
  <2>3. r[n + 1] = CopyWord(r[n + 1 - 1], op, n + 1 - 1)
    BY <2>1, <2>2
  <2> QED BY <2>1, <2>3
<1> QED BY <1>3, <1>4 DEF r

\* A copy that gave up writes nothing more.
LEMMA CopyRunStops ==
    ASSUME NEW memory, NEW op, op.length \in Nat,
           NEW n \in 0 .. op.length, ~CopyRun(memory, op)[n].on
    PROVE  CopyRun(memory, op)[op.length].mem = CopyRun(memory, op)[n].mem
<1> DEFINE r == CopyRun(memory, op)
           S == {k \in Nat : n =< k /\ k =< op.length => ~r[k].on /\ r[k].mem = r[n].mem}
<1>1. 0 \in S
  OBVIOUS
<1>2. ASSUME NEW k \in Nat, k \in S PROVE k + 1 \in S
  <2> SUFFICES ASSUME n =< k + 1, k + 1 =< op.length
               PROVE  ~r[k + 1].on /\ r[k + 1].mem = r[n].mem
    OBVIOUS
  <2>1. CASE n = k + 1
    BY <2>1
  <2>2. CASE n =< k
    <3>1. ~r[k].on /\ r[k].mem = r[n].mem
      BY <2>2, <1>2
    <3>2. r[k + 1] = CopyWord(r[k], op, k)
      BY CopyRunStep, k \in 0 .. op.length - 1
    <3> HIDE DEF r
    <3>3. CopyWord(r[k], op, k) = [mem |-> r[k].mem, on |-> FALSE]
      BY <3>1, Zenon DEF CopyWord
    <3> QED BY <3>1, <3>2, <3>3
  <2> QED BY <2>1, <2>2
<1>3. op.length \in S
  <2> HIDE DEF S
  <2> QED BY <1>1, <1>2, Induction
<1> QED BY <1>3

\* It changes the block it writes, and nothing else.
LEMMA CopyRunChanges ==
    ASSUME NEW memory, IsMemory(memory), NEW op, op.length \in Nat, NEW block \in Blocks,
           \A n \in 0 .. op.length - 1 : Advance(op.secondary, n)[1] = block,
           NEW n \in 0 .. op.length
    PROVE  /\ IsMemory(CopyRun(memory, op)[n].mem)
           /\ \A b \in Memories : b # block => CopyRun(memory, op)[n].mem[b] = memory[b]
<1> DEFINE r == CopyRun(memory, op)
           Same(k) == /\ IsMemory(r[k].mem)
                      /\ \A b \in Memories : b # block => r[k].mem[b] = memory[b]
           S == {k \in Nat : k =< op.length => Same(k)}
<1>1. 0 \in S
  <2>0. r[0] = [mem |-> memory, on |-> TRUE]
    BY CopyRunStep, Zenon
  <2>1. r[0].mem = memory
    <3> HIDE DEF r
    <3> QED BY <2>0
  <2> QED BY <2>1, Zenon
<1>2. ASSUME NEW k \in Nat, k \in S PROVE k + 1 \in S
  <2> SUFFICES ASSUME k + 1 =< op.length PROVE Same(k + 1)
    OBVIOUS
  <2>1. Same(k) /\ Advance(op.secondary, k)[1] = block
    BY <1>2
  <2>2. r[k + 1] = CopyWord(r[k], op, k)
    BY CopyRunStep, k \in 0 .. op.length - 1
  <2> HIDE DEF r
  <2>3. \/ r[k + 1].mem = Move(r[k].mem, Advance(op.main, k), 1, Advance(op.secondary, k))
        \/ r[k + 1].mem = r[k].mem
    BY <2>2 DEF CopyWord
  <2> QED BY <2>1, <2>3, MoveIsMemory
<1>3. Nat \subseteq S
  <2> HIDE DEF S
  <2> QED BY <1>1, <1>2, Induction
<1> QED BY <1>3

-----------------------------------------------------------------------------
(* Apply, one operation of the uninterrupted run. *)

LEMMA DeviceFields ==
    ASSUME NEW d, NEW memory, NEW erases, NEW saves, NEW at, NEW ok,
           d = Device(memory, erases, saves, at, ok)
    PROVE  /\ d.mem = memory /\ d.erases = erases /\ d.saves = saves /\ d.chain = at
           /\ d.ok = ok
BY DEF Device

LEMMA ApplyErase ==
    ASSUME NEW d, d.erases \in Nat, NEW op, op.command = "ERASE"
    PROVE  /\ Apply(d, op).mem = [d.mem EXCEPT ![op.main[1]] = ErasedPage]
           /\ Apply(d, op).erases = d.erases + 1
           /\ \A k \in 1 .. d.erases : Apply(d, op).saves[k] = d.saves[k]
           /\ Apply(d, op).saves[d.erases + 1] = [mem |-> d.mem, block |-> op.main[1]]
           /\ Apply(d, op).chain = d.chain
<1> DEFINE e == Apply(d, op)
           erased == [d.mem EXCEPT ![op.main[1]] = ErasedPage]
           saves == [k \in 1 .. d.erases + 1 |-> IF k =< d.erases THEN d.saves[k]
                                                 ELSE [mem |-> d.mem, block |-> op.main[1]]]
           ok == d.ok /\ op.main[1] \in Blocks
<1>1. e = Device(erased, d.erases + 1, saves, d.chain, ok)
  BY Zenon DEF Apply
<1>2. /\ e.mem = erased /\ e.erases = d.erases + 1 /\ e.saves = saves /\ e.chain = d.chain
  <2> HIDE DEF e, erased, saves, ok
  <2> QED BY <1>1, DeviceFields
<1>4. /\ \A k \in 1 .. d.erases : saves[k] = d.saves[k]
      /\ saves[d.erases + 1] = [mem |-> d.mem, block |-> op.main[1]]
  OBVIOUS
<1> HIDE DEF saves, e
<1>5. /\ \A k \in 1 .. d.erases : e.saves[k] = d.saves[k]
      /\ e.saves[d.erases + 1] = [mem |-> d.mem, block |-> op.main[1]]
  BY <1>2, <1>4
<1> QED BY <1>2, <1>5 DEF e

LEMMA ApplyEraseOk ==
    ASSUME NEW d, NEW op, op.command = "ERASE", Apply(d, op).ok
    PROVE  d.ok /\ op.main[1] \in Blocks
<1> DEFINE e == Apply(d, op)
           erased == [d.mem EXCEPT ![op.main[1]] = ErasedPage]
           saves == [k \in 1 .. d.erases + 1 |-> IF k =< d.erases THEN d.saves[k]
                                                 ELSE [mem |-> d.mem, block |-> op.main[1]]]
           ok == d.ok /\ op.main[1] \in Blocks
<1>1. e = Device(erased, d.erases + 1, saves, d.chain, ok)
  BY Zenon DEF Apply
<1>2. e.ok = ok
  <2> HIDE DEF e, erased, saves, ok
  <2> QED BY <1>1, DeviceFields
<1> HIDE DEF e
<1> QED BY <1>2, Zenon DEF e

LEMMA ApplyCopy ==
    ASSUME NEW d, NEW op, op.command = "COPY"
    PROVE  /\ Apply(d, op).erases = d.erases /\ Apply(d, op).saves = d.saves
           /\ Apply(d, op).chain = Advance(op.secondary, op.length)
           /\ op.secondary[1] = CACHE_BUF =>
                 /\ Apply(d, op).mem = Move(d.mem, op.main, op.length, op.secondary)
                 /\ Apply(d, op).ok => d.ok
           /\ op.secondary[1] # CACHE_BUF =>
                 /\ Apply(d, op).mem = CopyRun(d.mem, op)[op.length].mem
                 /\ Apply(d, op).ok => d.ok /\ Confined(d, op)
<1> DEFINE e == Apply(d, op)
           next == Advance(op.secondary, op.length)
<1>0. op.command # "ERASE"
  OBVIOUS
<1>1. CASE op.secondary[1] = CACHE_BUF
  <2> DEFINE memory == Move(d.mem, op.main, op.length, op.secondary)
  <2>1. e = Device(memory, d.erases, d.saves, next, d.ok)
    BY <1>0, <1>1, Zenon DEF Apply
  <2>2. /\ e.mem = memory /\ e.erases = d.erases /\ e.saves = d.saves /\ e.chain = next
        /\ e.ok = d.ok
    <3> HIDE DEF e, memory, next
    <3> QED BY <2>1, DeviceFields
  <2> QED BY <1>1, <2>2
<1>2. CASE op.secondary[1] # CACHE_BUF
  <2> DEFINE memory == CopyRun(d.mem, op)[op.length].mem
             ok == d.ok /\ Confined(d, op)
  <2>1. e = Device(memory, d.erases, d.saves, next, ok)
    BY <1>0, <1>2, Zenon DEF Apply
  <2>2. /\ e.mem = memory /\ e.erases = d.erases /\ e.saves = d.saves /\ e.chain = next
        /\ e.ok = ok
    <3> HIDE DEF e, memory, next, ok
    <3> QED BY <2>1, DeviceFields
  <2>3. e.ok => d.ok /\ Confined(d, op)
    <3> HIDE DEF e
    <3> QED BY <2>2, Zenon
  <2> QED BY <1>2, <2>2, <2>3
<1> QED BY <1>1, <1>2

\* What the device has done so far, it has done at the end.
Begins(d, e) ==
    /\ d.erases \in Nat /\ e.erases \in Nat /\ d.erases =< e.erases
    /\ \A k \in 1 .. d.erases : e.saves[k] = d.saves[k]

LEMMA BeginsTransitive ==
    ASSUME NEW d, NEW e, NEW f, Begins(d, e), Begins(e, f) PROVE Begins(d, f)
BY DEF Begins

LEMMA ApplyBegins ==
    ASSUME NEW d, d.erases \in Nat, NEW op \in Operations
    PROVE  Begins(d, Apply(d, op))
<1>1. CASE op.command = "ERASE"
  <2> DEFINE e == Apply(d, op)
  <2>0. d.erases \in Nat
    OBVIOUS
  <2>1. e.erases = d.erases + 1
    BY <2>0, <1>1, ApplyErase
  <2>2. \A k \in 1 .. d.erases : e.saves[k] = d.saves[k]
    <3> HIDE DEF e
    <3>1. /\ e.mem = [d.mem EXCEPT ![op.main[1]] = ErasedPage]
          /\ e.erases = d.erases + 1
          /\ \A k \in 1 .. d.erases : e.saves[k] = d.saves[k]
          /\ e.saves[d.erases + 1] = [mem |-> d.mem, block |-> op.main[1]]
          /\ e.chain = d.chain
      <4> USE DEF e
      <4> QED BY <2>0, <1>1, ApplyErase, Zenon
    <3> QED BY <3>1
  <2> HIDE DEF e
  <2>3. Begins(d, e)
    BY <2>0, <2>1, <2>2 DEF Begins
  <2> QED BY <2>3 DEF e
<1>2. CASE op.command = "COPY"
  BY <1>2, ApplyCopy DEF Begins
<1> QED BY <1>1, <1>2 DEF Operations

\* Between two ERASEs the flash changes in the erased block only.
Settled(d) ==
    IF d.erases = 0 THEN \A b \in Blocks : d.mem[b] = OldImage[b]
    ELSE /\ d.saves[d.erases].block \in Blocks
         /\ \A b \in Blocks :
                b # d.saves[d.erases].block => d.mem[b] = d.saves[d.erases].mem[b]

Good(d) ==
    /\ d.erases \in Nat /\ d.chain \in Address
    /\ IsMemory(d.mem) /\ IsPage(d.mem[CACHE_BUF])
    /\ Settled(d)

LEMMA OperationFields ==
    ASSUME NEW op \in Operations
    PROVE  /\ op.command \in {"ERASE", "COPY"} /\ op.main \in Address /\ op.secondary \in Address
           /\ op.length \in Nat /\ op.main[1] \in Int
BY DEF Operations, Address

\* A copy to the flash, after n of its words.
LEMMA CopyConfined ==
    ASSUME NEW d, Good(d), NEW op \in Operations, Confined(d, op), NEW n \in 0 .. op.length
    PROVE  /\ d.erases > 0 /\ d.saves[d.erases].block \in Blocks
           /\ IsMemory(CopyRun(d.mem, op)[n].mem)
           /\ \A b \in Memories : b # d.saves[d.erases].block =>
                                      CopyRun(d.mem, op)[n].mem[b] = d.mem[b]
<1>1. d.erases > 0 /\ d.saves[d.erases].block \in Blocks /\ IsMemory(d.mem)
  BY DEF Good, Settled, Confined
<1>2. \A i \in 0 .. op.length - 1 : Advance(op.secondary, i)[1] = d.saves[d.erases].block
  BY DEF Confined
<1>3. op.length \in Nat
  BY OperationFields
<1> QED BY <1>1, <1>2, <1>3, CopyRunChanges

LEMMA ApplyGood ==
    ASSUME NEW d, Good(d), NEW op \in Operations, Apply(d, op).ok
    PROVE  Good(Apply(d, op))
<1> DEFINE e == Apply(d, op)
<1>0. /\ d.erases \in Nat /\ d.chain \in Address
      /\ IsMemory(d.mem) /\ IsPage(d.mem[CACHE_BUF]) /\ Settled(d)
  BY DEF Good
<1>1. CASE op.command = "ERASE"
  <2>1. /\ e.mem = [d.mem EXCEPT ![op.main[1]] = ErasedPage] /\ e.erases = d.erases + 1
        /\ e.saves[d.erases + 1] = [mem |-> d.mem, block |-> op.main[1]]
        /\ e.chain = d.chain /\ op.main[1] \in Blocks
    BY <1>0, <1>1, ApplyErase, ApplyEraseOk
  <2> HIDE DEF e
  <2>2. e.erases # 0 /\ e.erases \in Nat
    BY <2>1, <1>0
  <2>3. e.saves[e.erases] = [mem |-> d.mem, block |-> op.main[1]]
    BY <2>1
  <2>4. \A b \in Memories : b # op.main[1] => e.mem[b] = d.mem[b]
    BY <2>1, <1>0 DEF IsMemory
  <2>5. IsMemory(e.mem) /\ IsPage(e.mem[CACHE_BUF])
    BY <2>1, <2>4, <1>0, CacheIsNoBlock DEF IsMemory
  <2>6. Settled(e)
    BY <2>1, <2>2, <2>3, <2>4 DEF Settled, Memories
  <2> QED BY <2>1, <2>2, <2>5, <2>6, <1>0 DEF Good, e
<1>2. CASE op.command = "COPY"
  <2>1. e.erases = d.erases /\ e.saves = d.saves /\ e.chain = Advance(op.secondary, op.length)
    BY <1>2, ApplyCopy
  <2>2. e.chain \in Address
    BY <2>1, OperationFields, AdvanceType
  <2>3. CASE op.secondary[1] = CACHE_BUF
    <3>1. e.mem = Move(d.mem, op.main, op.length, op.secondary)
      BY <1>2, <2>3, ApplyCopy
    <3> HIDE DEF e
    <3>2. IsMemory(e.mem) /\ IsPage(e.mem[CACHE_BUF])
      BY <3>1, <1>0, MoveIsMemory
    <3>3. \A b \in Blocks : e.mem[b] = d.mem[b]
      BY <3>1, <2>3, <1>0, MoveIsMemory, CacheIsNoBlock DEF Memories
    <3>4. Settled(e)
      BY <2>1, <3>3, <1>0 DEF Settled
    <3> QED BY <2>1, <2>2, <3>2, <3>4, <1>0 DEF Good, e
  <2>4. CASE op.secondary[1] # CACHE_BUF
    <3>1. e.mem = CopyRun(d.mem, op)[op.length].mem /\ Confined(d, op)
      BY <1>2, <2>4, ApplyCopy
    <3>2. op.length \in 0 .. op.length
      BY OperationFields
    <3>3. /\ d.erases > 0 /\ d.saves[d.erases].block \in Blocks /\ IsMemory(e.mem)
          /\ \A b \in Memories : b # d.saves[d.erases].block => e.mem[b] = d.mem[b]
      BY <3>1, <3>2, CopyConfined
    <3> HIDE DEF e
    <3>4. IsPage(e.mem[CACHE_BUF])
      BY <3>3, <1>0, CacheIsNoBlock
    <3>5. Settled(e)
      BY <2>1, <3>3, <1>0 DEF Settled, Memories
    <3> QED BY <2>1, <2>2, <3>3, <3>4, <3>5, <1>0 DEF Good, e
  <2> QED BY <2>3, <2>4
<1> QED BY <1>1, <1>2, OperationFields

-----------------------------------------------------------------------------
(* ApplyAll and Run. *)

LEMMA SeqParts ==
    ASSUME NEW S, NEW s \in Seq(S), s # <<>>
    PROVE  /\ Head(s) \in S /\ Tail(s) \in Seq(S) /\ Head(s) = s[1]
           /\ Len(s) \in Nat \ {0} /\ Len(Tail(s)) = Len(s) - 1
           /\ \A i \in 1 .. Len(s) - 1 : Tail(s)[i] = s[i + 1]
OBVIOUS

\* The operations are applied in order.
LEMMA ApplyAllStep ==
    ASSUME NEW d, NEW ops \in Seq(Operations), ops # <<>>, Len(ops) =< 2
    PROVE  ApplyAll(d, ops) = ApplyAll(Apply(d, Head(ops)), Tail(ops))
<1>0. /\ Head(ops) = ops[1] /\ Len(ops) \in Nat \ {0} /\ Len(Tail(ops)) = Len(ops) - 1
      /\ \A i \in 1 .. Len(ops) - 1 : Tail(ops)[i] = ops[i + 1]
  BY SeqParts
<1>1. CASE Len(ops) = 1
  <2>1. Len(Tail(ops)) = 0
    BY <1>0, <1>1
  <2> QED BY <1>0, <1>1, <2>1 DEF ApplyAll
<1>2. CASE Len(ops) = 2
  <2>1. Len(Tail(ops)) = 1 /\ Tail(ops)[1] = ops[2]
    BY <1>0, <1>2
  <2> QED BY <1>0, <1>2, <2>1 DEF ApplyAll
<1> QED BY <1>0, <1>1, <1>2

LEMMA ApplyAllNone == ASSUME NEW d PROVE ApplyAll(d, <<>>) = d
BY DEF ApplyAll

LEMMA UpToTwo == ASSUME NEW n \in Nat, n =< 2 PROVE n = 0 \/ n = 1 \/ n = 2
OBVIOUS

LEMMA ApplyAllBegins ==
    ASSUME NEW d, d.erases \in Nat, NEW ops \in Seq(Operations), Len(ops) =< 2
    PROVE  Begins(d, ApplyAll(d, ops))
<1>0. Len(ops) \in Nat /\ \A i \in 1 .. Len(ops) : ops[i] \in Operations
  OBVIOUS
<1>1. CASE Len(ops) = 0
  BY <1>1 DEF ApplyAll, Begins
<1>2. CASE Len(ops) = 1
  <2>1. ApplyAll(d, ops) = Apply(d, ops[1])
    BY <1>2 DEF ApplyAll
  <2> QED BY <1>0, <1>2, <2>1, ApplyBegins
<1>3. CASE Len(ops) = 2
  <2>1. ApplyAll(d, ops) = Apply(Apply(d, ops[1]), ops[2])
    BY <1>3 DEF ApplyAll
  <2>2. Begins(d, Apply(d, ops[1]))
    BY <1>0, <1>3, ApplyBegins
  <2>3. Apply(d, ops[1]).erases \in Nat
    BY <2>2 DEF Begins
  <2>4. Begins(Apply(d, ops[1]), Apply(Apply(d, ops[1]), ops[2]))
    BY <1>0, <1>3, <2>3, ApplyBegins
  <2> QED BY <2>1, <2>2, <2>4, BeginsTransitive
<1>4. Len(ops) = 0 \/ Len(ops) = 1 \/ Len(ops) = 2
  BY <1>0, UpToTwo
<1> QED BY <1>1, <1>2, <1>3, <1>4

\* A run that can be repeated is one at every step.
LEMMA ApplyAllOk ==
    ASSUME NEW d, NEW ops \in Seq(Operations), Len(ops) =< 2, ApplyAll(d, ops).ok
    PROVE  d.ok
<1>0. Len(ops) \in Nat /\ \A i \in 1 .. Len(ops) : ops[i] \in Operations
  OBVIOUS
<1>1. ASSUME NEW e, NEW op \in Operations, Apply(e, op).ok PROVE e.ok
  <2>1. op.command = "ERASE" \/ op.command = "COPY"
    BY OperationFields
  <2> QED BY <1>1, <2>1, ApplyEraseOk, ApplyCopy
<1>2. CASE Len(ops) = 0
  BY <1>2 DEF ApplyAll
<1>3. CASE Len(ops) = 1
  <2>1. Apply(d, ops[1]).ok
    BY <1>3 DEF ApplyAll
  <2> QED BY <1>0, <1>1, <1>3, <2>1
<1>4. CASE Len(ops) = 2
  <2>1. Apply(Apply(d, ops[1]), ops[2]).ok
    BY <1>4 DEF ApplyAll
  <2> QED BY <1>0, <1>1, <1>4, <2>1
<1>5. Len(ops) = 0 \/ Len(ops) = 1 \/ Len(ops) = 2
  BY <1>0, UpToTwo
<1> QED BY <1>2, <1>3, <1>4, <1>5

LEMMA ExpandType ==
    ASSUME NEW c \in Commands, NEW at \in Address
    PROVE  Expand(c, at) \in Seq(Operations) /\ Len(Expand(c, at)) =< 2
<1> DEFINE b == c.main[1]
           start == <<b, 0>>
           cache == <<CACHE_BUF, 0>>
<1>0. c.main \in Address /\ c.secondary \in Address /\ c.length \in Nat /\ b \in Int
  BY CommandFields
<1>1. /\ start \in Address /\ cache \in Address /\ NoAddress \in Address
      /\ BlockSize \in Nat /\ 0 \in Nat
  BY <1>0, CacheIsNoBlock, GeometryAssumption DEF Address, NoAddress
<1>2. ASSUME NEW from \in Address, NEW len \in Nat, NEW to \in Address
      PROVE  Copy(from, len, to) \in Operations
  BY DEF Copy, Command, Operations
<1>3. Erase(b) \in Operations
  BY <1>1 DEF Erase, Command, Operations
<1>4. c.command \in {"ERASE", "COPY"} => c \in Operations
  BY DEF Commands, Operations
<1>5. \/ Expand(c, at) = <<>>
      \/ \E op \in Operations : Expand(c, at) = <<op>>
      \/ \E op1, op2 \in Operations : Expand(c, at) = <<op1, op2>>
  <2>1. CASE c.command = "FLUSH_AND_PARTIAL_COMMIT"
    <3>1. Expand(c, at) = <<Erase(b), Copy(cache, c.length, start)>>
      BY <2>1 DEF Expand
    <3> QED BY <3>1, <1>0, <1>1, <1>2, <1>3
  <2>2. CASE c.command = "LOAD_AND_FLUSH"
    <3>1. Expand(c, at) = <<Copy(start, BlockSize, cache), Erase(b)>>
      BY <2>2 DEF Expand
    <3> QED BY <3>1, <1>0, <1>1, <1>2, <1>3
  <2>3. CASE c.command = "COMMIT"
    <3>1. Expand(c, at) = <<Copy(cache, BlockSize, start)>>
      BY <2>3 DEF Expand
    <3> QED BY <3>1, <1>0, <1>1, <1>2
  <2>4. CASE c.command = "CHAINED_COPY"
    <3>1. Expand(c, at) = <<Copy(c.main, c.length, at)>>
      BY <2>4 DEF Expand
    <3> QED BY <3>1, <1>0, <1>2
  <2>5. CASE c.command \in {"ERASE", "COPY"}
    <3>1. Expand(c, at) = <<c>>
      BY <2>5 DEF Expand
    <3> QED BY <3>1, <1>4, <2>5
  <2>6. CASE c.command \notin {"FLUSH_AND_PARTIAL_COMMIT", "LOAD_AND_FLUSH", "COMMIT",
                               "CHAINED_COPY", "ERASE", "COPY"}
    <3>1. Expand(c, at) = <<>>
      BY <2>6 DEF Expand
    <3> QED BY <3>1
  <2> QED BY <2>1, <2>2, <2>3, <2>4, <2>5, <2>6
<1>6. ASSUME NEW e \in Seq(Operations), Len(e) =< 2, Expand(c, at) = e
      PROVE  Expand(c, at) \in Seq(Operations) /\ Len(Expand(c, at)) =< 2
  BY <1>6
<1>7. /\ <<>> \in Seq(Operations) /\ Len(<<>>) =< 2
      /\ \A op \in Operations : <<op>> \in Seq(Operations) /\ Len(<<op>>) =< 2
      /\ \A op1, op2 \in Operations : <<op1, op2>> \in Seq(Operations) /\ Len(<<op1, op2>>) =< 2
  OBVIOUS
<1> QED BY <1>5, <1>6, <1>7, Zenon

\* One command of the uninterrupted run.
RunCommand(d, c) == ApplyAll(Skipped(d, c), Expand(c, d.chain))
PoweredOn == Device(AtPowerOn, 0, <<>>, NoAddress, TRUE)

\* d solves the recursion that defines Run up to the n-th command.
Runs(d, p, n) ==
    d = [i \in 0 .. n |-> IF i = 0 THEN PoweredOn ELSE RunCommand(d[i - 1], p[i])]

LEMMA RunsExist ==
    ASSUME NEW p, NEW n \in Nat PROVE \E d : Runs(d, p, n)
<1> DEFINE S == {k \in Nat : \E d : Runs(d, p, k)}
<1>1. 0 \in S
  <2>1. Runs([i \in 0 .. 0 |-> PoweredOn], p, 0)
    BY DEF Runs
  <2> QED BY <2>1
<1>2. ASSUME NEW k \in Nat, k \in S PROVE k + 1 \in S
  <2>1. PICK d : Runs(d, p, k)
    BY <1>2
  <2> DEFINE e == [i \in 0 .. k + 1 |-> IF i = k + 1 THEN RunCommand(d[k], p[k + 1]) ELSE d[i]]
  <2>2. \A i \in 0 .. k + 1 : e[i] = IF i = 0 THEN PoweredOn ELSE RunCommand(e[i - 1], p[i])
    <3>1. ASSUME NEW i \in 1 .. k PROVE e[i] = RunCommand(e[i - 1], p[i])
      <4>1. i \in 0 .. k + 1 /\ i # k + 1 /\ i - 1 \in 0 .. k + 1 /\ i - 1 # k + 1 /\ i # 0
            /\ i \in 0 .. k
        OBVIOUS
      <4>2. e[i] = d[i] /\ e[i - 1] = d[i - 1]
        BY <4>1
      <4>3. d[i] = RunCommand(d[i - 1], p[i])
        BY <4>1, <2>1, Zenon DEF Runs
      <4> QED BY <4>2, <4>3
    <3>2. e[k + 1] = RunCommand(e[k], p[k + 1])
      OBVIOUS
    <3>3. e[0] = PoweredOn
      BY <2>1 DEF Runs
    <3> HIDE DEF e
    <3> QED BY <3>1, <3>2, <3>3
  <2>3. e = [i \in 0 .. k + 1 |-> e[i]]
    OBVIOUS
  <2>4. Runs(e, p, k + 1)
    <3> HIDE DEF e
    <3> QED BY <2>2, <2>3 DEF Runs
  <2> QED BY <2>4
<1>3. Nat \subseteq S
  <2> HIDE DEF S
  <2> QED BY <1>1, <1>2, Induction
<1> QED BY <1>3

\* The run, command by command.
LEMMA RunStep ==
    ASSUME NEW p, Len(p) \in Nat
    PROVE  /\ Run(p)[0] = PoweredOn
           /\ \A i \in 1 .. Len(p) : Run(p)[i] = RunCommand(Run(p)[i - 1], p[i])
<1> DEFINE r == Run(p)
<1>1. r = CHOOSE d : Runs(d, p, Len(p))
  BY Zenon DEF Run, Runs, RunCommand, PoweredOn
<1>2. Runs(r, p, Len(p))
  BY <1>1, RunsExist, Zenon
<1> HIDE DEF r
<1>3. r[0] = PoweredOn
  BY <1>2 DEF Runs
<1>4. ASSUME NEW i \in 1 .. Len(p) PROVE r[i] = RunCommand(r[i - 1], p[i])
  <2>1. i \in 0 .. Len(p) /\ i # 0
    OBVIOUS
  <2>2. \A j \in 0 .. Len(p) : j # 0 => r[j] = RunCommand(r[j - 1], p[j])
    BY <1>2, Zenon DEF Runs
  <2> QED BY <2>1, <2>2
<1> QED BY <1>3, <1>4 DEF r

LEMMA ProgramFields ==
    ASSUME NEW p \in Programs
    PROVE  Len(p) \in Nat /\ \A i \in 1 .. Len(p) : p[i] \in Commands
<1>1. p \in Seq(Commands)
  BY ProgramsAssumption DEF Commands
<1> HIDE DEF Commands
<1> QED BY <1>1

\* A chain is an address, and skipping along it changes nothing else.
LEMMA SkippedFields ==
    ASSUME NEW d, d.chain \in Address, NEW c \in Commands
    PROVE  /\ Skipped(d, c).mem = d.mem /\ Skipped(d, c).erases = d.erases
           /\ Skipped(d, c).saves = d.saves
           /\ Skipped(d, c).chain \in Address
           /\ Skipped(d, c).chain = IF c.command = "CHAINED_COPY_SKIP"
                                    THEN Advance(d.chain, c.length) ELSE d.chain
<1>1. CASE c.command = "CHAINED_COPY_SKIP"
  <2>1. Skipped(d, c) = Device(d.mem, d.erases, d.saves, Advance(d.chain, c.length), d.ok)
    BY <1>1, Zenon DEF Skipped
  <2>2. /\ Skipped(d, c).mem = d.mem /\ Skipped(d, c).erases = d.erases
        /\ Skipped(d, c).saves = d.saves /\ Skipped(d, c).chain = Advance(d.chain, c.length)
    BY <2>1, DeviceFields
  <2>3. Advance(d.chain, c.length) \in Address
    BY CommandFields, AdvanceType
  <2> QED BY <1>1, <2>2, <2>3
<1>2. CASE c.command # "CHAINED_COPY_SKIP"
  <2>1. Skipped(d, c) = d
    BY <1>2 DEF Skipped
  <2> QED BY <1>2, <2>1
<1> QED BY <1>1, <1>2

LEMMA ChainType ==
    ASSUME NEW d, d.erases \in Nat, d.chain \in Address, NEW op \in Operations
    PROVE  Apply(d, op).chain \in Address
<1>1. CASE op.command = "ERASE"
  <2>1. Apply(d, op).chain = d.chain
    BY <1>1, ApplyErase
  <2> QED BY <2>1
<1>2. CASE op.command = "COPY"
  <2>1. Apply(d, op).chain = Advance(op.secondary, op.length)
    BY <1>2, ApplyCopy
  <2> QED BY <2>1, OperationFields, AdvanceType
<1> QED BY <1>1, <1>2, OperationFields

LEMMA ApplyAllChain ==
    ASSUME NEW d, d.erases \in Nat, d.chain \in Address, NEW ops \in Seq(Operations), Len(ops) =< 2
    PROVE  ApplyAll(d, ops).chain \in Address
<1>0. Len(ops) \in Nat /\ \A i \in 1 .. Len(ops) : ops[i] \in Operations
  OBVIOUS
<1>1. CASE Len(ops) = 0
  BY <1>1 DEF ApplyAll
<1>2. CASE Len(ops) = 1
  <2>1. ApplyAll(d, ops) = Apply(d, ops[1])
    BY <1>2 DEF ApplyAll
  <2> QED BY <1>0, <1>2, <2>1, ChainType
<1>3. CASE Len(ops) = 2
  <2>1. ApplyAll(d, ops) = Apply(Apply(d, ops[1]), ops[2])
    BY <1>3 DEF ApplyAll
  <2>2. Begins(d, Apply(d, ops[1])) /\ Apply(d, ops[1]).chain \in Address
    BY <1>0, <1>3, ApplyBegins, ChainType
  <2>3. Apply(d, ops[1]).erases \in Nat
    BY <2>2 DEF Begins
  <2> QED BY <1>0, <1>3, <2>1, <2>2, <2>3, ChainType
<1>4. Len(ops) = 0 \/ Len(ops) = 1 \/ Len(ops) = 2
  BY <1>0, UpToTwo
<1> QED BY <1>1, <1>2, <1>3, <1>4

LEMMA PoweredOnFields ==
    /\ PoweredOn.mem = AtPowerOn /\ PoweredOn.erases = 0
    /\ PoweredOn.chain = NoAddress /\ NoAddress \in Address
<1> DEFINE saves == <<>>
           ok == TRUE
<1>1. PoweredOn = Device(AtPowerOn, 0, saves, NoAddress, ok)
  BY DEF PoweredOn
<1>2. PoweredOn.mem = AtPowerOn /\ PoweredOn.erases = 0 /\ PoweredOn.chain = NoAddress
  <2> HIDE DEF PoweredOn, AtPowerOn, NoAddress, saves, ok
  <2> QED BY <1>1, DeviceFields
<1>3. NoAddress \in Address
  BY DEF NoAddress, Address
<1> QED BY <1>2, <1>3

\* What the run has done after a command it has done at the end.
LEMMA RunBegins ==
    ASSUME NEW p \in Programs, NEW i \in 0 .. Len(p)
    PROVE  Begins(Run(p)[i], Final(p)) /\ Run(p)[i].chain \in Address
<1>0. Len(p) \in Nat /\ \A k \in 1 .. Len(p) : p[k] \in Commands
  BY ProgramFields
<1> DEFINE r == Run(p)
           Typed(d) == d.erases \in Nat /\ d.chain \in Address
           S == {k \in Nat : k =< Len(p) =>
                    Typed(r[k]) /\ \A j \in 0 .. k : Begins(r[j], r[k])}
<1>1. ASSUME NEW d, Typed(d), NEW c \in Commands
      PROVE  Begins(d, RunCommand(d, c)) /\ Typed(RunCommand(d, c))
  <2>1. Typed(Skipped(d, c)) /\ Begins(d, Skipped(d, c))
    BY <1>1, SkippedFields DEF Begins
  <2>2. Expand(c, d.chain) \in Seq(Operations) /\ Len(Expand(c, d.chain)) =< 2
    BY <1>1, ExpandType
  <2>3. Begins(Skipped(d, c), RunCommand(d, c)) /\ RunCommand(d, c).chain \in Address
    BY <2>1, <2>2, ApplyAllBegins, ApplyAllChain DEF RunCommand
  <2>4. RunCommand(d, c).erases \in Nat
    BY <2>3 DEF Begins
  <2> QED BY <2>1, <2>3, <2>4, BeginsTransitive
<1>2. 0 \in S
  <2>1. r[0] = PoweredOn
    BY <1>0, RunStep
  <2>2. PoweredOn.erases = 0 /\ PoweredOn.chain = NoAddress /\ NoAddress \in Address
    BY PoweredOnFields
  <2>4. Typed(r[0])
    BY <2>1, <2>2
  <2>5. Begins(r[0], r[0])
    BY <2>4 DEF Begins
  <2> QED BY <2>4, <2>5
<1>3. ASSUME NEW k \in Nat, k \in S PROVE k + 1 \in S
  <2> SUFFICES ASSUME k + 1 =< Len(p)
               PROVE  Typed(r[k + 1]) /\ \A j \in 0 .. k + 1 : Begins(r[j], r[k + 1])
    OBVIOUS
  <2>1. Typed(r[k]) /\ \A j \in 0 .. k : Begins(r[j], r[k])
    BY <1>0, <1>3
  <2>2. k + 1 \in 1 .. Len(p) /\ k + 1 - 1 = k
    BY <1>0
  <2>3. r[k + 1] = RunCommand(r[k], p[k + 1]) /\ p[k + 1] \in Commands
    BY <1>0, <2>2, RunStep
  <2> HIDE DEF r
  <2>4. Begins(r[k], r[k + 1]) /\ Typed(r[k + 1])
    BY <1>1, <2>1, <2>3
  <2>5. Begins(r[k + 1], r[k + 1])
    BY <2>4 DEF Begins
  <2>6. ASSUME NEW j \in 0 .. k PROVE Begins(r[j], r[k + 1])
    BY <2>1, <2>4, BeginsTransitive
  <2> QED BY <2>4, <2>5, <2>6
<1>4. Nat \subseteq S
  <2> HIDE DEF S
  <2> QED BY <1>2, <1>3, Induction
<1>5. Len(p) \in S /\ i \in S /\ i =< Len(p)
  BY <1>0, <1>4
<1> QED BY <1>0, <1>5 DEF Final

-----------------------------------------------------------------------------
(* The invariant. *)

Stages == {"ready", "b_erase", "b_write", "second", "erase"}

TypeOK ==
    /\ IsMemory(mem) /\ IsPage(mem[CACHE_BUF])
    /\ backup = [b \in 1 .. 2 |-> backup[b]] /\ \A b \in 1 .. 2 : IsPage(backup[b])
    /\ prog \in Programs
    /\ pc \in {"off", "commands", "done"} /\ ip \in 1 .. Len(prog) + 1
    /\ todo \in Seq(Operations) /\ Len(todo) =< 2 /\ chain \in Address
    /\ stage \in Stages /\ pos \in Nat

\* What a reset finds: after 2k steps the cache as it was at the k-th ERASE is
\* in the backup, and so are the blocks that this ERASE does not erase.
FoundAfter(k) ==
    LET saved == Final(prog).saves[k]
    IN  IF k = 0 THEN \A b \in Blocks : mem[b] = OldImage[b]
        ELSE /\ backup[RestorePage(counter)] = saved.mem[CACHE_BUF]
             /\ \A b \in Blocks : b # saved.block => mem[b] = saved.mem[b]
FlashInv ==
    /\ counter % 2 = 1 => pc = "commands" /\ ~ff
    /\ \A k \in Nat : counter = 2 * k => k =< Final(prog).erases /\ FoundAfter(k)

\* A resumed run skips with the cache that the reset found; a run that is over has
\* the memory of the uninterrupted one, and counted two steps for each ERASE.
ResumeInv ==
    /\ pc = "off" => mem[CACHE_BUF] = [w \in Words |-> Junk]
    /\ pc = "commands" /\ ff => mem[CACHE_BUF] = backup[RestorePage(counter)]
    /\ pc = "done" => mem = Final(prog).mem /\ step = 2 * Final(prog).erases

NextIs(name) == todo # <<>> /\ Head(todo).command = name
Counted == CASE stage = "ready" -> 0 [] stage = "erase" -> 2 [] OTHER -> 1
CopyUnderWay == stage = "ready" /\ pos # 0

\* Where the uninterrupted run is when the device is here: d is its state
\* before the operation under way.
PlaceInv(d) ==
    /\ Good(d) /\ ApplyAll(d, todo) = Run(prog)[ip - 1]
    /\ step = 2 * d.erases + Counted
    /\ stage # "ready" => NextIs("ERASE")
    /\ pos # 0 => stage = "b_write" \/ (stage = "ready" /\ NextIs("COPY") /\ Target[1] # CACHE_BUF)
    /\ chain = d.chain \/ CopyUnderWay
    /\ ff => pos = 0 /\ stage \in {"ready", "second"}

\* The device has what that run has.
MemoryInv(d) ==
    ~ff =>
        /\ CopyUnderWay =>
              /\ pos < Head(todo).length
              /\ CopyRun(d.mem, Head(todo))[pos].mem = mem
              /\ CopyRun(d.mem, Head(todo))[pos].on
        /\ stage # "erase" /\ ~CopyUnderWay => mem = d.mem
        /\ stage = "b_write" =>
              /\ pos < BlockSize
              /\ \A w \in 0 .. pos - 1 : backup[BackupPage(step)][w] = mem[CACHE_BUF][w]
        /\ stage = "second" => backup[BackupPage(step)] = mem[CACHE_BUF]
        /\ stage = "erase" =>
              \A b \in Memories : b # Head(todo).main[1] => mem[b] = d.mem[b]

RunInv == pc = "commands" => \E d : PlaceInv(d) /\ MemoryInv(d)

ExecutionInv == CounterInv /\ TypeOK /\ FlashInv /\ ResumeInv /\ RunInv

\* What the properties hold under: power is not lost between the two increments
\* of an ERASE, and an update writes no flash but the block it erased last.
Hypotheses == ~LossDuringBackup /\ \A p \in Programs : Replayable(p)

-----------------------------------------------------------------------------
(* Types, and facts about the counter. *)

LEMMA Parity ==
    ASSUME NEW n \in Nat
    PROVE  /\ (2 * n) % 2 = 0 /\ (2 * n + 1) % 2 = 1
           /\ BackupPage(2 * n + 1) = RestorePage(2 * n + 2)
<1>1. (2 * n) % 2 = 0 /\ (2 * n + 1) % 2 = 1
  OBVIOUS
<1>2. (2 * n + 1) \div 2 = n /\ (2 * n + 2) \div 2 = n + 1
  OBVIOUS
<1>3. n % 2 = 1 <=> (n + 1) % 2 # 1
  OBVIOUS
<1> QED BY <1>1, <1>2, <1>3 DEF BackupPage, RestorePage, Bit1

LEMMA EvenOrOdd ==
    ASSUME NEW n \in Nat PROVE n % 2 = 1 \/ \E k \in Nat : n = 2 * k
<1>1. n % 2 = 1 \/ n % 2 = 0
  OBVIOUS
<1>2. CASE n % 2 = 0
  <2>1. n = 2 * (n \div 2) /\ n \div 2 \in Nat
    BY <1>2
  <2> QED BY <2>1
<1> QED BY <1>1, <1>2

LEMMA Pages ==
    ASSUME NEW c \in Nat PROVE BackupPage(c) \in 1 .. 2 /\ RestorePage(c) \in 1 .. 2
BY DEF BackupPage, RestorePage

LEMMA TypesStart == ASSUME Init PROVE TypeOK
<1>1. mem = [b \in Memories |-> IF b = CACHE_BUF THEN [w \in Words |-> Junk] ELSE OldImage[b]]
  BY DEF Init, Memories
<1>2. IsMemory(mem) /\ IsPage(mem[CACHE_BUF])
  BY <1>1, CacheIsNoBlock DEF IsMemory, IsPage
<1>3. backup = [b \in 1 .. 2 |-> backup[b]] /\ \A b \in 1 .. 2 : IsPage(backup[b])
  BY DEF Init, IsPage, ErasedPage
<1>4. prog \in Programs /\ pc = "off" /\ ip = 1 /\ todo = <<>> /\ stage = "ready" /\ pos = 0
      /\ chain = NoAddress
  BY DEF Init, InitRun
<1>5. NoAddress \in Address /\ ip \in 1 .. Len(prog) + 1
  BY <1>4, ProgramFields DEF NoAddress, Address
<1>6. todo \in Seq(Operations) /\ Len(todo) =< 2
  BY <1>4
<1> QED BY <1>2, <1>3, <1>4, <1>5, <1>6 DEF TypeOK, Stages

\* Types are kept by every step.
LEMMA TypesStep == ASSUME CounterInv, TypeOK, [Next]_vars PROVE TypeOK'
<1>0. /\ IsMemory(mem) /\ IsPage(mem[CACHE_BUF])
      /\ backup = [b \in 1 .. 2 |-> backup[b]] /\ \A b \in 1 .. 2 : IsPage(backup[b])
      /\ prog \in Programs
      /\ pc \in {"off", "commands", "done"} /\ ip \in 1 .. Len(prog) + 1
      /\ todo \in Seq(Operations) /\ Len(todo) =< 2 /\ chain \in Address
      /\ stage \in Stages /\ pos \in Nat
  BY DEF TypeOK
<1>00. counter \in Nat /\ step \in Nat /\ Len(prog) \in Nat
  BY <1>0, ProgramFields DEF CounterInv
<1> DEFINE MemoryOK == IsMemory(mem) /\ IsPage(mem[CACHE_BUF])
           BackupOK == backup = [b \in 1 .. 2 |-> backup[b]] /\ \A b \in 1 .. 2 : IsPage(backup[b])
           RunOK == /\ prog \in Programs
                    /\ pc \in {"off", "commands", "done"} /\ ip \in 1 .. Len(prog) + 1
                    /\ todo \in Seq(Operations) /\ Len(todo) =< 2 /\ chain \in Address
                    /\ stage \in Stages /\ pos \in Nat
<1>a. ASSUME todo # <<>>
      PROVE  /\ Head(todo) \in Operations /\ Tail(todo) \in Seq(Operations)
             /\ Len(Tail(todo)) =< 2 /\ NextChain \in Address /\ Target \in Address
  <2>1. Head(todo) \in Operations /\ Tail(todo) \in Seq(Operations) /\ Len(Tail(todo)) =< 2
    BY <1>a, <1>0, SeqParts
  <2>2. NextChain \in Address /\ Target \in Address
    BY <2>1, OperationFields, AdvanceType DEF NextChain, Target
  <2> QED BY <2>1, <2>2
<1>1. ASSUME MemoryOK', BackupOK', RunOK' PROVE TypeOK'
  BY <1>1 DEF TypeOK
<1>2. CASE Boot
  <2>1. MemoryOK'
    <3>1. mem' = mem \/ mem' = [mem EXCEPT ![CACHE_BUF] = backup[RestorePage(counter)]]
      BY <1>2 DEF Boot, BeginRun
    <3>2. IsPage(backup[RestorePage(counter)])
      BY <1>0, <1>00, Pages
    <3> QED BY <3>1, <3>2, <1>0, CacheIsNoBlock DEF IsMemory
  <2>2. BackupOK'
    BY <1>2, <1>0 DEF Boot, BeginRun, IsPage
  <2>3. /\ prog' = prog /\ pc' = "commands" /\ ip' = 1 /\ todo' = <<>> /\ chain' = NoAddress
        /\ stage' = "ready" /\ pos' = 0
    BY <1>2 DEF Boot, BeginRun, fixed
  <2>4. NoAddress \in Address /\ <<>> \in Seq(Operations) /\ Len(<<>>) =< 2
    BY PoweredOnFields
  <2>5. RunOK'
    BY <2>3, <2>4, <1>0, <1>00 DEF Stages
  <2> QED BY <2>1, <2>2, <2>5, <1>1
<1>3. CASE Decode
  <2>1. MemoryOK' /\ BackupOK'
    BY <1>3, <1>0 DEF Decode, IsMemory, IsPage
  <2>2. /\ prog' = prog /\ pc' = pc /\ ip' = ip + 1 /\ todo' = Expand(prog[ip], chain)
        /\ stage' = stage /\ pos' = pos /\ ip =< Len(prog)
        /\ chain' = IF prog[ip].command = "CHAINED_COPY_SKIP"
                    THEN Advance(chain, prog[ip].length) ELSE chain
    BY <1>3 DEF Decode, fixed
  <2>3. prog[ip] \in Commands
    BY <2>2, <1>0, <1>00, ProgramFields
  <2>4. todo' \in Seq(Operations) /\ Len(todo') =< 2
    BY <2>2, <2>3, <1>0, ExpandType
  <2>5. chain' \in Address
    BY <2>2, <2>3, <1>0, CommandFields, AdvanceType
  <2>6. RunOK'
    BY <2>2, <2>4, <2>5, <1>0, <1>00
  <2> QED BY <2>1, <2>6, <1>1
<1>4. CASE EndOfStream
  <2>1. MemoryOK' /\ BackupOK'
    BY <1>4, <1>0 DEF EndOfStream, IsMemory, IsPage
  <2>2. RunOK'
    BY <1>4, <1>0 DEF EndOfStream, fixed, exec
  <2> QED BY <2>1, <2>2, <1>1
<1>5. CASE SkipCopy \/ CopyToCache \/ CopyToFlash
  <2>1. MemoryOK'
    <3>1. mem' = mem \/ \E from, len, to : mem' = Move(mem, from, len, to)
      BY <1>5 DEF SkipCopy, CopyToCache, CopyToFlash
    <3> QED BY <3>1, <1>0, MoveIsMemory DEF IsMemory, IsPage
  <2>2. BackupOK'
    BY <1>5, <1>0 DEF SkipCopy, CopyToCache, CopyToFlash, IsPage
  <2>3. /\ prog' = prog /\ pc' = pc /\ ip' = ip /\ stage' = stage /\ chain' = NextChain
        /\ todo # <<>> /\ (todo' = todo \/ todo' = Tail(todo))
        /\ (pos' = pos \/ pos' = 0 \/ pos' = pos + 1)
    BY <1>5 DEF SkipCopy, CopyToCache, CopyToFlash, Running, fixed
  <2>4. RunOK'
    BY <2>3, <1>a, <1>0
  <2> QED BY <2>1, <2>2, <2>4, <1>1
<1>6. CASE EraseFirstIncrement \/ EraseSecondIncrement
  <2>1. MemoryOK' /\ BackupOK'
    BY <1>6, <1>0 DEF EraseFirstIncrement, EraseSecondIncrement, IsMemory, IsPage
  <2>2. /\ prog' = prog /\ pc' = pc /\ ip' = ip /\ stage' \in Stages /\ chain' = chain
        /\ todo # <<>> /\ (todo' = todo \/ todo' = Tail(todo)) /\ pos' = pos
    BY <1>6 DEF EraseFirstIncrement, EraseSecondIncrement, Running, fixed, Stages
  <2>3. RunOK'
    BY <2>2, <1>a, <1>0
  <2> QED BY <2>1, <2>3, <1>1
<1>7. CASE BackupErase
  <2>1. MemoryOK'
    BY <1>7, <1>0 DEF BackupErase, IsMemory, IsPage
  <2>2. BackupOK'
    <3>1. backup' = [backup EXCEPT ![BackupPage(step)] = ErasedPage]
      BY <1>7 DEF BackupErase
    <3>2. IsPage(ErasedPage)
      BY DEF IsPage, ErasedPage
    <3> QED BY <3>1, <3>2, <1>0
  <2>3. RunOK'
    BY <1>7, <1>0 DEF BackupErase, fixed, Stages
  <2> QED BY <2>1, <2>2, <2>3, <1>1
<1>8. CASE BackupWord
  <2>1. MemoryOK'
    BY <1>8, <1>0 DEF BackupWord, IsMemory, IsPage
  <2>2. BackupOK'
    <3>1. backup' = [backup EXCEPT ![BackupPage(step)] =
                        [backup[BackupPage(step)] EXCEPT ![pos] = mem[CACHE_BUF][pos]]]
      BY <1>8 DEF BackupWord
    <3>2. IsPage([backup[BackupPage(step)] EXCEPT ![pos] = mem[CACHE_BUF][pos]])
      BY <1>0, <1>00, Pages DEF IsPage
    <3> QED BY <3>1, <3>2, <1>0
  <2>3. pos' \in Nat
    <3>1. pos' = (pos + 1) % BlockSize
      BY <1>8 DEF BackupWord
    <3> QED BY <3>1, <1>0, GeometryAssumption
  <2>4. RunOK'
    BY <1>8, <2>3, <1>0 DEF BackupWord, fixed, Stages
  <2> QED BY <2>1, <2>2, <2>4, <1>1
<1>9. CASE EraseBlock
  <2>1. MemoryOK'
    <3>1. mem' = [mem EXCEPT ![Head(todo).main[1]] = ErasedPage]
      BY <1>9 DEF EraseBlock
    <3>2. IsPage(ErasedPage)
      BY DEF IsPage, ErasedPage
    <3> QED BY <3>1, <3>2, <1>0, CacheIsNoBlock DEF IsMemory
  <2>2. BackupOK'
    BY <1>9, <1>0 DEF EraseBlock, IsPage
  <2>3. /\ prog' = prog /\ pc' = pc /\ ip' = ip /\ stage' = "ready" /\ chain' = chain
        /\ todo # <<>> /\ todo' = Tail(todo) /\ pos' = pos
    BY <1>9 DEF EraseBlock, Running, fixed
  <2>4. RunOK'
    BY <2>3, <1>a, <1>0 DEF Stages
  <2> QED BY <2>1, <2>2, <2>4, <1>1
<1>10. CASE PowerLoss
  <2>1. MemoryOK'
    <3>1. mem' = [mem EXCEPT ![CACHE_BUF] = [w \in Words |-> Junk]]
      BY <1>10 DEF PowerLoss, LoseRAM
    <3> QED BY <3>1, <1>0, CacheIsNoBlock DEF IsMemory, IsPage
  <2>2. BackupOK'
    BY <1>10, <1>0 DEF PowerLoss, IsPage
  <2>3. RunOK'
    BY <1>10, <1>0 DEF PowerLoss, fixed, exec
  <2> QED BY <2>1, <2>2, <2>3, <1>1
<1>11. CASE UNCHANGED vars
  BY <1>11, <1>0 DEF vars, exec, fixed, TypeOK, IsMemory, IsPage
<1> QED BY <1>2, <1>3, <1>4, <1>5, <1>6, <1>7, <1>8, <1>9, <1>10, <1>11
       DEF Next, Execute, Terminated

-----------------------------------------------------------------------------
(* The steps, for the rest of the invariant. *)

LEMMA FinalErases == ASSUME NEW p \in Programs PROVE Final(p).erases \in Nat
<1>1. 0 \in 0 .. Len(p)
  BY ProgramFields
<1>2. Begins(Run(p)[0], Final(p))
  BY <1>1, RunBegins
<1> QED BY <1>2 DEF Begins

\* What the device has done the uninterrupted run does, and so it does with
\* the operation under way.
LEMMA OperationUnderWay ==
    ASSUME Hypotheses, TypeOK, NEW d, Good(d), ApplyAll(d, todo) = Run(prog)[ip - 1]
    PROVE  /\ Begins(d, Final(prog))
           /\ todo # <<>> =>
                 /\ Head(todo) \in Operations
                 /\ ApplyAll(Apply(d, Head(todo)), Tail(todo)) = Run(prog)[ip - 1]
                 /\ Good(Apply(d, Head(todo))) /\ Begins(d, Apply(d, Head(todo)))
                 /\ Begins(Apply(d, Head(todo)), Final(prog))
                 /\ Head(todo).command = "ERASE" => Head(todo).main[1] \in Blocks
                 /\ Head(todo).command = "COPY" /\ Target[1] # CACHE_BUF => Confined(d, Head(todo))
<1>0. /\ prog \in Programs /\ ip \in 1 .. Len(prog) + 1 /\ todo \in Seq(Operations)
      /\ Len(todo) =< 2 /\ d.erases \in Nat
  BY DEF TypeOK, Good
<1>1. ip - 1 \in 0 .. Len(prog)
  BY <1>0, ProgramFields
<1>2. Run(prog)[ip - 1].ok
  BY <1>0, <1>1 DEF Hypotheses, Replayable
<1>3. Begins(Run(prog)[ip - 1], Final(prog))
  BY <1>0, <1>1, RunBegins
<1>4. Begins(d, Run(prog)[ip - 1])
  BY <1>0, ApplyAllBegins
<1>5. ASSUME todo # <<>>
      PROVE  /\ Head(todo) \in Operations
             /\ ApplyAll(Apply(d, Head(todo)), Tail(todo)) = Run(prog)[ip - 1]
             /\ Good(Apply(d, Head(todo))) /\ Begins(d, Apply(d, Head(todo)))
             /\ Begins(Apply(d, Head(todo)), Final(prog))
             /\ Head(todo).command = "ERASE" => Head(todo).main[1] \in Blocks
             /\ Head(todo).command = "COPY" /\ Target[1] # CACHE_BUF => Confined(d, Head(todo))
  <2>1. Head(todo) \in Operations /\ Tail(todo) \in Seq(Operations) /\ Len(Tail(todo)) =< 2
    BY <1>0, <1>5, SeqParts
  <2>2. ApplyAll(Apply(d, Head(todo)), Tail(todo)) = Run(prog)[ip - 1]
    BY <1>0, <1>5, ApplyAllStep
  <2>3. Apply(d, Head(todo)).ok
    BY <1>2, <2>1, <2>2, ApplyAllOk
  <2>4. Good(Apply(d, Head(todo)))
    BY <2>1, <2>3, ApplyGood
  <2>5. Begins(d, Apply(d, Head(todo)))
    BY <1>0, <2>1, ApplyBegins
  <2>6. Apply(d, Head(todo)).erases \in Nat
    BY <2>5 DEF Begins
  <2>7. Begins(Apply(d, Head(todo)), Run(prog)[ip - 1])
    BY <2>1, <2>2, <2>6, ApplyAllBegins
  <2>8. Begins(Apply(d, Head(todo)), Final(prog))
    BY <1>3, <2>7, BeginsTransitive
  <2>9. Head(todo).command = "ERASE" => Head(todo).main[1] \in Blocks
    BY <2>3, ApplyEraseOk
  <2>10. Head(todo).command = "COPY" /\ Target[1] # CACHE_BUF => Confined(d, Head(todo))
    BY <2>3, ApplyCopy DEF Target
  <2> QED BY <2>1, <2>2, <2>4, <2>5, <2>8, <2>9, <2>10
<1> QED BY <1>3, <1>4, <1>5, BeginsTransitive

\* What a reset finds is kept by a step that changes, of the flash, the block of
\* the last ERASE only.
LEMMA FlashKept ==
    ASSUME FlashInv, UNCHANGED <<backup, counter, prog>>,
           counter % 2 = 1 => pc' = "commands" /\ ~ff',
           counter = 0 => \A b \in Blocks : mem'[b] = mem[b],
           \A k \in Nat \ {0} : counter = 2 * k =>
               \A b \in Blocks : b # Final(prog).saves[k].block => mem'[b] = mem[b]
    PROVE  FlashInv'
<1> SUFFICES ASSUME NEW k \in Nat, counter = 2 * k
             PROVE  k =< Final(prog).erases /\ FoundAfter(k)'
  BY DEF FlashInv
<1>1. k =< Final(prog).erases /\ FoundAfter(k)
  BY DEF FlashInv
<1>2. CASE k = 0
  BY <1>1, <1>2 DEF FoundAfter
<1>3. CASE k # 0
  BY <1>1, <1>3 DEF FoundAfter
<1> QED BY <1>1, <1>2, <1>3

\* While the counter is odd nothing can be found.
LEMMA FlashOdd ==
    ASSUME counter' \in Nat, counter' % 2 = 1, pc' = "commands", ~ff' PROVE FlashInv'
<1> SUFFICES ASSUME NEW k \in Nat, counter' = 2 * k PROVE FALSE
  BY DEF FlashInv
<1> QED BY Parity

LEMMA InvariantStarts ==
    ASSUME Init PROVE FlashInv /\ ResumeInv /\ RunInv
<1>1. counter = 0 /\ pc = "off" /\ prog \in Programs
  BY DEF Init
<1>2. mem = [b \in Memories |-> IF b = CACHE_BUF THEN [w \in Words |-> Junk] ELSE OldImage[b]]
  BY DEF Init, Memories
<1>3. \A b \in Blocks : mem[b] = OldImage[b]
  BY <1>2, CacheIsNoBlock DEF Memories
<1>4. mem[CACHE_BUF] = [w \in Words |-> Junk]
  BY <1>2, CacheIsNoBlock
<1>5. FlashInv
  <2> SUFFICES ASSUME NEW k \in Nat, counter = 2 * k
               PROVE  k =< Final(prog).erases /\ FoundAfter(k)
    BY <1>1 DEF FlashInv
  <2>1. k = 0
    BY <1>1
  <2> QED BY <1>1, <1>3, <2>1, FinalErases DEF FoundAfter
<1> QED BY <1>1, <1>4, <1>5 DEF ResumeInv, RunInv

\* The uninterrupted run before the first command.
LEMMA RunStarts ==
    ASSUME NEW p \in Programs
    PROVE  /\ Good(PoweredOn) /\ PoweredOn.mem = AtPowerOn /\ PoweredOn.erases = 0
           /\ PoweredOn.chain = NoAddress /\ NoAddress \in Address
           /\ ApplyAll(PoweredOn, <<>>) = Run(p)[0]
           /\ IsMemory(AtPowerOn) /\ IsPage(AtPowerOn[CACHE_BUF])
           /\ \A b \in Blocks : AtPowerOn[b] = OldImage[b]
<1>1. PoweredOn.mem = AtPowerOn /\ PoweredOn.erases = 0 /\ PoweredOn.chain = NoAddress
      /\ NoAddress \in Address
  BY PoweredOnFields
<1>2. IsMemory(AtPowerOn) /\ IsPage(AtPowerOn[CACHE_BUF])
      /\ \A b \in Blocks : AtPowerOn[b] = OldImage[b]
  BY CacheIsNoBlock DEF AtPowerOn, IsMemory, IsPage, Memories
<1>3. Good(PoweredOn)
  BY <1>1, <1>2 DEF Good, Settled
<1>4. Run(p)[0] = PoweredOn
  BY ProgramFields, RunStep
<1>5. ApplyAll(PoweredOn, <<>>) = Run(p)[0]
  BY <1>4, ApplyAllNone
<1> QED BY <1>1, <1>2, <1>3, <1>5

\* A run that begins on a flash that no run has touched (runCommands called by
\* bootloaderPerformUpdate after the dry run).
LEMMA FreshRun ==
    ASSUME prog' \in Programs, pc' = "commands", dry' = FALSE, ff' = FALSE, step' = 0,
           counter' = 0, ip' = 1, todo' = <<>>, stage' = "ready", pos' = 0,
           chain' = NoAddress, mem' = AtPowerOn,
           (backup = [b \in 1 .. 2 |-> backup[b]] /\ \A b \in 1 .. 2 : IsPage(backup[b]))'
    PROVE  ExecutionInv'
<1>1. /\ Good(PoweredOn) /\ PoweredOn.mem = AtPowerOn /\ PoweredOn.erases = 0
      /\ PoweredOn.chain = NoAddress /\ NoAddress \in Address
      /\ ApplyAll(PoweredOn, <<>>) = Run(prog')[0]
      /\ IsMemory(AtPowerOn) /\ IsPage(AtPowerOn[CACHE_BUF])
      /\ \A b \in Blocks : AtPowerOn[b] = OldImage[b]
  BY RunStarts
<1>2. CounterInv'
  BY DEF CounterInv
<1>3. TypeOK'
  <2>1. 1 \in 1 .. Len(prog') + 1
    BY ProgramFields
  <2>2. <<>> \in Seq(Operations) /\ Len(<<>>) =< 2
    OBVIOUS
  <2> QED BY <1>1, <2>1, <2>2 DEF TypeOK, Stages
<1>4. FlashInv'
  <2>1. \A k \in Nat : 0 = 2 * k => k = 0
    OBVIOUS
  <2>2. 0 =< Final(prog').erases
    BY FinalErases
  <2>3. FoundAfter(0)'
    BY <1>1 DEF FoundAfter
  <2> QED BY <2>1, <2>2, <2>3 DEF FlashInv
<1>5. ResumeInv'
  BY DEF ResumeInv
<1>6. PlaceInv(PoweredOn)'
  <2> HIDE DEF PoweredOn
  <2> QED BY <1>1 DEF PlaceInv, Counted
<1>7. MemoryInv(PoweredOn)'
  BY <1>1 DEF MemoryInv, CopyUnderWay
<1>8. RunInv'
  BY <1>6, <1>7 DEF RunInv
<1> QED BY <1>2, <1>3, <1>4, <1>5, <1>8 DEF ExecutionInv

\* The processor starts: the uninterrupted run has not done anything yet.
LEMMA BootStep ==
    ASSUME ExecutionInv, Boot PROVE FlashInv' /\ ResumeInv' /\ RunInv'
<1>0. /\ counter \in Nat /\ FlashInv /\ IsMemory(mem) /\ pc = "off"
      /\ mem[CACHE_BUF] = [w \in Words |-> Junk] /\ prog \in Programs
  BY DEF ExecutionInv, CounterInv, TypeOK, ResumeInv, Boot
<1>1. /\ UNCHANGED <<backup, counter, prog>> /\ pc' = "commands" /\ ip' = 1 /\ todo' = <<>>
      /\ stage' = "ready" /\ pos' = 0 /\ chain' = NoAddress /\ step' = 0
      /\ mem' = IF ff' THEN [mem EXCEPT ![CACHE_BUF] = backup[RestorePage(counter)]] ELSE mem
  BY DEF Boot, BeginRun, fixed
<1>2. ff' <=> counter # 0
  BY Zenon DEF Boot, BeginRun
<1>3. counter % 2 # 1
  BY <1>0 DEF FlashInv
<1>4. \A b \in Blocks : mem'[b] = mem[b]
  BY <1>0, <1>1, CacheIsNoBlock DEF IsMemory
<1>5. FlashInv'
  BY <1>0, <1>1, <1>3, <1>4, FlashKept
<1>6. ResumeInv'
  BY <1>0, <1>1, CacheIsNoBlock DEF ResumeInv, IsMemory
<1>7. PlaceInv(PoweredOn)'
  <2>1. Good(PoweredOn) /\ PoweredOn.erases = 0 /\ PoweredOn.chain = NoAddress
        /\ ApplyAll(PoweredOn, todo') = Run(prog')[ip' - 1]
    BY <1>0, <1>1, RunStarts
  <2> HIDE DEF PoweredOn
  <2> QED BY <1>1, <2>1 DEF PlaceInv, Counted
<1>8. MemoryInv(PoweredOn)'
  <2> SUFFICES ASSUME ~ff' PROVE mem' = PoweredOn.mem
    BY <1>1 DEF MemoryInv, CopyUnderWay
  <2>1. mem' = mem /\ \A b \in Blocks : mem[b] = OldImage[b]
    BY <1>0, <1>1, <1>2 DEF FlashInv, FoundAfter
  <2>2. mem' = AtPowerOn
    BY <1>0, <2>1 DEF AtPowerOn, IsMemory, Memories
  <2> QED BY <2>2, PoweredOnFields
<1> QED BY <1>5, <1>6, <1>7, <1>8 DEF RunInv

\* The next command: the uninterrupted run goes to it, too.
LEMMA DecodeStep ==
    ASSUME ExecutionInv, Decode PROVE FlashInv' /\ ResumeInv' /\ RunInv'
<1>0. /\ TypeOK /\ FlashInv /\ ResumeInv /\ RunInv /\ pc = "commands" /\ todo = <<>>
      /\ ip =< Len(prog) /\ ip \in 1 .. Len(prog) + 1 /\ prog \in Programs
  BY DEF ExecutionInv, TypeOK, Decode
<1>1. /\ UNCHANGED <<mem, backup, counter, prog, pc, stage, pos, step>>
      /\ ip' = ip + 1 /\ todo' = Expand(prog[ip], chain)
      /\ chain' = IF prog[ip].command = "CHAINED_COPY_SKIP"
                  THEN Advance(chain, prog[ip].length) ELSE chain
  BY DEF Decode, fixed
<1>2. ff' = ff
  BY DEF Decode
<1>3. FlashInv'
  BY <1>0, <1>1, <1>2, FlashKept DEF FlashInv
<1>4. ResumeInv'
  BY <1>0, <1>1, <1>2 DEF ResumeInv
<1>5. PICK d : PlaceInv(d) /\ MemoryInv(d)
  BY <1>0 DEF RunInv
<1>6. stage = "ready" /\ pos = 0 /\ chain = d.chain /\ Good(d) /\ step = 2 * d.erases
      /\ d = Run(prog)[ip - 1]
  <2>1. stage = "ready" /\ pos = 0
    BY <1>0, <1>5 DEF PlaceInv, NextIs
  <2>2. chain = d.chain /\ Good(d) /\ step = 2 * d.erases
    BY <2>1, <1>5 DEF PlaceInv, CopyUnderWay, Counted, Good
  <2>3. d = Run(prog)[ip - 1]
    BY <1>0, <1>5, ApplyAllNone DEF PlaceInv
  <2> QED BY <2>1, <2>2, <2>3
<1> PICK e : e = Skipped(d, prog[ip])
  OBVIOUS
<1>7. prog[ip] \in Commands /\ ip \in 1 .. Len(prog) /\ Len(prog) \in Nat
  BY <1>0, ProgramFields
<1>8. /\ e.mem = d.mem /\ e.erases = d.erases /\ e.saves = d.saves
      /\ e.chain = chain' /\ e.chain \in Address
  BY <1>1, <1>6, <1>7, SkippedFields DEF Good
<1>9. ApplyAll(e, todo') = Run(prog')[ip' - 1]
  <2>1. Run(prog)[ip] = RunCommand(d, prog[ip])
    BY <1>6, <1>7, RunStep
  <2>2. ip' - 1 = ip
    BY <1>1, <1>7
  <2> QED BY <2>1, <2>2, <1>1, <1>6 DEF RunCommand
<1>10. Good(e)
  <2>1. Good(d)
    BY <1>6
  <2> QED BY ONLY <2>1, <1>8 DEF Good, Settled
<1>11. PlaceInv(e)'
  BY <1>1, <1>6, <1>8, <1>9, <1>10 DEF PlaceInv, CopyUnderWay, Counted, Good
<1>12. MemoryInv(e)'
  BY <1>1, <1>2, <1>5, <1>6, <1>8 DEF MemoryInv, CopyUnderWay
<1> QED BY <1>3, <1>4, <1>11, <1>12 DEF RunInv

\* The end of the commands, which a run that skips does not reach: the ERASE at
\* which the counter stood when power was lost is one of them.
LEMMA EndStep ==
    ASSUME Hypotheses, ExecutionInv, EndOfStream PROVE FlashInv' /\ ResumeInv' /\ RunInv'
<1>0. /\ TypeOK /\ FlashInv /\ ResumeInv /\ RunInv /\ pc = "commands" /\ todo = <<>>
      /\ ip > Len(prog) /\ ip \in 1 .. Len(prog) + 1 /\ prog \in Programs
      /\ counter \in Nat /\ step \in Nat
  BY DEF ExecutionInv, CounterInv, TypeOK, EndOfStream
<1>1. UNCHANGED <<mem, backup, counter, prog, step>> /\ pc' = "done"
  BY DEF EndOfStream, fixed, exec
<1>5. PICK d : PlaceInv(d) /\ MemoryInv(d)
  BY <1>0 DEF RunInv
<1>6. stage = "ready" /\ pos = 0 /\ Good(d) /\ step = 2 * d.erases /\ d = Run(prog)[ip - 1]
  <2>1. stage = "ready" /\ pos = 0
    BY <1>0, <1>5 DEF PlaceInv, NextIs
  <2>2. Good(d) /\ step = 2 * d.erases
    BY <2>1, <1>5 DEF PlaceInv, Counted, Good
  <2>3. d = Run(prog)[ip - 1]
    BY <1>0, <1>5, ApplyAllNone DEF PlaceInv
  <2> QED BY <2>1, <2>2, <2>3
<1>7. ip - 1 = Len(prog)
  BY <1>0, ProgramFields
<1>8. d = Final(prog)
  BY <1>6, <1>7 DEF Final
<1>9. ~ff
  <2> SUFFICES ASSUME ff PROVE FALSE
    OBVIOUS
  <2>1. step < counter
    BY DEF ExecutionInv, CounterInv, EndOfStream
  <2>2. counter % 2 # 1
    BY <1>0 DEF FlashInv
  <2>3. PICK k \in Nat : counter = 2 * k
    BY <1>0, <2>2, EvenOrOdd
  <2>4. k =< Final(prog).erases
    BY <1>0, <2>3 DEF FlashInv
  <2> QED BY <1>0, <1>6, <1>8, <2>1, <2>3, <2>4, FinalErases
<1>10. step = counter
  BY <1>9 DEF ExecutionInv, CounterInv, EndOfStream
<1>11. counter % 2 # 1
  BY <1>6, <1>10, Parity DEF Good
<1>12. FlashInv'
  BY <1>0, <1>1, <1>11, FlashKept
<1>13. mem = Final(prog).mem
  BY <1>5, <1>6, <1>8, <1>9 DEF MemoryInv, CopyUnderWay
<1> QED BY <1>1, <1>6, <1>8, <1>12, <1>13 DEF ResumeInv, RunInv

\* A copy: what the three ways of executing it have in common.
LEMMA CopyUnder ==
    ASSUME Hypotheses, ExecutionInv, Running("COPY"), NEW d, PlaceInv(d)
    PROVE  /\ pc = "commands" /\ stage = "ready" /\ Good(d) /\ step = 2 * d.erases
           /\ Head(todo) \in Operations /\ Head(todo).command = "COPY"
           /\ Good(Apply(d, Head(todo))) /\ Apply(d, Head(todo)).erases = d.erases
           /\ ApplyAll(Apply(d, Head(todo)), Tail(todo)) = Run(prog)[ip - 1]
           /\ Apply(d, Head(todo)).chain = NextChain
           /\ Begins(d, Final(prog))
           /\ ~ff => step = counter
<1>0. TypeOK /\ pc = "commands" /\ todo # <<>> /\ Head(todo).command = "COPY"
  BY DEF ExecutionInv, Running
<1>1. stage = "ready" /\ Good(d) /\ ApplyAll(d, todo) = Run(prog)[ip - 1]
  BY <1>0 DEF PlaceInv, NextIs
<1>2. step = 2 * d.erases
  BY <1>1 DEF PlaceInv, Counted, Good
<1>3. /\ Head(todo) \in Operations /\ Good(Apply(d, Head(todo)))
      /\ ApplyAll(Apply(d, Head(todo)), Tail(todo)) = Run(prog)[ip - 1]
      /\ Begins(d, Final(prog))
  BY <1>0, <1>1, OperationUnderWay
<1>4. Apply(d, Head(todo)).erases = d.erases /\ Apply(d, Head(todo)).chain = NextChain
  BY <1>0, ApplyCopy DEF NextChain, Target
<1>5. ~ff => step = counter
  BY <1>0 DEF ExecutionInv, CounterInv
<1> QED BY <1>0, <1>1, <1>2, <1>3, <1>4, <1>5

\* A copy that is over.
LEMMA CopyDone ==
    ASSUME Hypotheses, ExecutionInv, Running("COPY"), NEW d, PlaceInv(d),
           UNCHANGED <<prog, ip, stage, step>>, ff' = ff,
           todo' = Tail(todo), chain' = NextChain, pos' = 0,
           NEW e, e = Apply(d, Head(todo))
    PROVE  PlaceInv(e)'
<1>1. /\ stage = "ready" /\ step = 2 * d.erases /\ Good(e) /\ e.erases = d.erases
      /\ ApplyAll(e, Tail(todo)) = Run(prog)[ip - 1] /\ e.chain = NextChain /\ Good(d)
  BY CopyUnder
<1>2. stage' = "ready" /\ step' = 2 * e.erases + 0
  BY <1>1 DEF Good
<1> QED BY <1>1, <1>2 DEF PlaceInv, CopyUnderWay, Counted

\* A run that skips does not look at the memory.
LEMMA SkipCopyStep ==
    ASSUME Hypotheses, ExecutionInv, SkipCopy PROVE FlashInv' /\ ResumeInv' /\ RunInv'
<1>0. Running("COPY") /\ pc = "commands" /\ TypeOK /\ FlashInv /\ ResumeInv /\ RunInv
  BY DEF SkipCopy, Running, ExecutionInv
<1>1. /\ UNCHANGED <<mem, backup, counter, prog, pc, ip, stage, pos, step>>
      /\ chain' = NextChain /\ todo' = Tail(todo)
  BY DEF SkipCopy, fixed
<1>2. ff' = ff /\ ff
  BY DEF SkipCopy, Skip, ExecutionInv, CounterInv
<1>3. FlashInv'
  BY <1>0, <1>1, <1>2, FlashKept DEF FlashInv
<1>4. ResumeInv'
  BY <1>0, <1>1, <1>2 DEF ResumeInv
<1>5. PICK d : PlaceInv(d) /\ MemoryInv(d)
  BY <1>0 DEF RunInv
<1>6. pos' = 0
  BY <1>1, <1>2, <1>5 DEF PlaceInv
<1> PICK e : e = Apply(d, Head(todo))
  OBVIOUS
<1>7. PlaceInv(e)'
  BY <1>0, <1>1, <1>2, <1>5, <1>6, CopyDone
<1>8. MemoryInv(e)'
  BY <1>2 DEF MemoryInv
<1> QED BY <1>3, <1>4, <1>7, <1>8 DEF RunInv

LEMMA CopyToCacheStep ==
    ASSUME Hypotheses, ExecutionInv, CopyToCache PROVE FlashInv' /\ ResumeInv' /\ RunInv'
<1>0. /\ Running("COPY") /\ pc = "commands" /\ TypeOK /\ FlashInv /\ ResumeInv /\ RunInv
      /\ Target[1] = CACHE_BUF /\ IsMemory(mem)
  BY DEF CopyToCache, Running, ExecutionInv, TypeOK
<1>1. /\ UNCHANGED <<backup, counter, prog, pc, ip, stage, pos, step>>
      /\ chain' = NextChain /\ todo' = Tail(todo)
      /\ mem' = Move(mem, Head(todo).main, Head(todo).length, Target)
  BY DEF CopyToCache, fixed
<1>2. ff' = ff /\ ~ff
  BY DEF CopyToCache, Skip, ExecutionInv, CounterInv
<1>3. \A b \in Blocks : mem'[b] = mem[b]
  BY <1>0, <1>1, MoveIsMemory, CacheIsNoBlock DEF Memories
<1>4. FlashInv'
  BY <1>0, <1>1, <1>2, <1>3, FlashKept DEF FlashInv
<1>5. ResumeInv'
  BY <1>0, <1>1, <1>2 DEF ResumeInv
<1>6. PICK d : PlaceInv(d) /\ MemoryInv(d)
  BY <1>0 DEF RunInv
<1>7. pos' = 0 /\ stage = "ready"
  BY <1>0, <1>1, <1>6, CopyUnder DEF PlaceInv
<1> PICK e : e = Apply(d, Head(todo))
  OBVIOUS
<1>8. PlaceInv(e)'
  BY <1>0, <1>1, <1>2, <1>6, <1>7, CopyDone
<1>9. MemoryInv(e)'
  <2>1. mem = d.mem
    BY <1>1, <1>2, <1>6, <1>7 DEF MemoryInv, CopyUnderWay
  <2>2. e.mem = mem'
    BY <1>0, <1>1, <2>1, ApplyCopy DEF Running, Target
  <2> QED BY <1>1, <1>7, <2>2 DEF MemoryInv, CopyUnderWay
<1> QED BY <1>4, <1>5, <1>8, <1>9 DEF RunInv

\* One word of a copy to the flash, in the block that was erased last.
LEMMA CopyToFlashStep ==
    ASSUME Hypotheses, ExecutionInv, CopyToFlash PROVE FlashInv' /\ ResumeInv' /\ RunInv'
<1> DEFINE op == Head(todo)
           to == Advance(Target, pos)
           blank == Read(mem, to) = Blank
           last == pos = op.length - 1
<1>0. /\ Running("COPY") /\ pc = "commands" /\ TypeOK /\ FlashInv /\ ResumeInv /\ RunInv
      /\ Target[1] # CACHE_BUF /\ IsMemory(mem) /\ pos \in Nat /\ op.command = "COPY"
      /\ prog \in Programs
  BY DEF CopyToFlash, Running, ExecutionInv, TypeOK
<1>1. /\ UNCHANGED <<backup, counter, prog, pc, ip, stage, step>> /\ chain' = NextChain
      /\ mem' = IF blank THEN Move(mem, Advance(op.main, pos), 1, to) ELSE mem
      /\ pos' = IF last \/ ~blank THEN 0 ELSE pos + 1
      /\ todo' = IF last \/ ~blank THEN Tail(todo) ELSE todo
  BY DEF CopyToFlash, fixed
<1>2. ff' = ff /\ ~ff
  BY DEF CopyToFlash, Skip, ExecutionInv, CounterInv
<1>3. PICK d : PlaceInv(d) /\ MemoryInv(d)
  BY <1>0 DEF RunInv
<1>4. /\ stage = "ready" /\ Good(d) /\ d.erases \in Nat /\ step = 2 * d.erases /\ step = counter
      /\ op \in Operations /\ op.length \in Nat /\ Begins(d, Final(prog))
      /\ ApplyAll(d, todo) = Run(prog)[ip - 1] /\ todo # <<>>
  BY <1>0, <1>2, <1>3, CopyUnder, OperationFields DEF Good, PlaceInv, Running
<1>5. Confined(d, op)
  BY <1>0, <1>4, OperationUnderWay
<1> DEFINE r == CopyRun(d.mem, op)
<1>6. pos \in 0 .. op.length - 1 /\ r[pos].mem = mem /\ r[pos].on
  <2>1. CASE pos = 0
    <3>1. r[0] = [mem |-> d.mem, on |-> TRUE]
      BY <1>4, CopyRunStep
    <3>2. mem = d.mem
      BY <1>2, <1>3, <1>4, <2>1 DEF MemoryInv, CopyUnderWay
    <3>3. op.length > 0
      BY <1>5 DEF Confined
    <3> HIDE DEF r, op
    <3> QED BY <2>1, <3>1, <3>2, <3>3, <1>4
  <2>2. CASE pos # 0
    <3>1. pos < op.length /\ r[pos].mem = mem /\ r[pos].on
      BY <1>2, <1>3, <1>4, <2>2 DEF MemoryInv, CopyUnderWay
    <3> HIDE DEF r, op
    <3> QED BY <3>1, <1>0, <1>4
  <2> QED BY <2>1, <2>2
<1>7. r[pos + 1] = CopyWord(r[pos], op, pos)
  <2>1. pos \in 0 .. op.length - 1 /\ op.length \in Nat
    BY <1>4, <1>6
  <2> HIDE DEF op
  <2> QED BY <2>1, CopyRunStep
<1>8. /\ pos + 1 \in 0 .. op.length /\ r[pos + 1].mem = mem'
      /\ blank => r[pos + 1].on
      /\ ~blank => ~r[pos + 1].on
  <2>1. pos + 1 \in 0 .. op.length
    BY <1>0, <1>4, <1>6
  <2>2. CASE blank
    <3>1. CopyWord(r[pos], op, pos) = [mem |-> mem', on |-> TRUE]
      <4> HIDE DEF r, op
      <4> QED BY <1>1, <1>6, <2>2, Zenon DEF CopyWord, Target, op
    <3>2. r[pos + 1] = [mem |-> mem', on |-> TRUE]
      BY <1>7, <3>1
    <3> HIDE DEF r
    <3> QED BY <2>1, <2>2, <3>2
  <2>3. CASE ~blank
    <3>1. CopyWord(r[pos], op, pos) = [mem |-> mem', on |-> FALSE]
      <4> HIDE DEF r, op
      <4> QED BY <1>1, <1>6, <2>3, Zenon DEF CopyWord, Target, op
    <3>2. r[pos + 1] = [mem |-> mem', on |-> FALSE]
      BY <1>7, <3>1
    <3> HIDE DEF r
    <3> QED BY <2>1, <2>3, <3>2
  <2> QED BY <2>2, <2>3
<1>9. /\ d.erases > 0 /\ d.saves[d.erases].block \in Blocks
      /\ \A b \in Memories : b # d.saves[d.erases].block => mem[b] = d.mem[b]
      /\ \A b \in Memories : b # d.saves[d.erases].block => mem'[b] = d.mem[b]
  <2>1. pos \in 0 .. op.length
    BY <1>4, <1>6
  <2>2. /\ d.erases > 0 /\ d.saves[d.erases].block \in Blocks
        /\ \A b \in Memories : b # d.saves[d.erases].block => r[pos].mem[b] = d.mem[b]
    BY <1>4, <1>5, <2>1, CopyConfined
  <2>3. \A b \in Memories : b # d.saves[d.erases].block => r[pos + 1].mem[b] = d.mem[b]
    BY <1>4, <1>5, <1>8, CopyConfined
  <2> HIDE DEF r
  <2> QED BY <2>2, <2>3, <1>6, <1>8
<1>10. FlashInv'
  <2>1. counter % 2 # 1 /\ counter # 0
    BY <1>4, <1>9, Parity
  <2>2. ASSUME NEW k \in Nat \ {0}, counter = 2 * k,
               NEW b \in Blocks, b # Final(prog).saves[k].block
        PROVE  mem'[b] = mem[b]
    <3>1. k = d.erases /\ k \in 1 .. d.erases
      BY <1>4, <2>2
    <3>2. Final(prog).saves[k] = d.saves[k]
      BY <1>4, <3>1 DEF Begins
    <3>3. b \in Memories
      BY DEF Memories
    <3> QED BY <1>9, <2>2, <3>1, <3>2, <3>3
  <2> QED BY <1>0, <1>1, <2>1, <2>2, FlashKept
<1>11. ResumeInv'
  BY <1>0, <1>1, <1>2 DEF ResumeInv
<1>12. CASE last \/ ~blank
  <2>1. todo' = Tail(todo) /\ pos' = 0
    BY <1>1, <1>12
  <2> PICK e : e = Apply(d, op)
    OBVIOUS
  <2>2. PlaceInv(e)'
    BY <1>0, <1>1, <1>2, <1>3, <2>1, CopyDone
  <2>3. mem' = e.mem
    <3>1. e.mem = r[op.length].mem
      BY <1>0, ApplyCopy DEF Target
    <3>2. CASE last
      <4>1. pos + 1 = op.length
        BY <3>2, <1>4
      <4> QED BY <4>1, <3>1, <1>8
    <3>3. CASE ~blank
      <4>1. r[op.length].mem = r[pos + 1].mem
        BY <1>4, <1>8, <3>3, CopyRunStops
      <4> QED BY <4>1, <3>1, <1>8
    <3> QED BY <1>12, <3>2, <3>3
  <2>4. MemoryInv(e)'
    BY <1>1, <1>4, <2>1, <2>3 DEF MemoryInv, CopyUnderWay
  <2> QED BY <1>10, <1>11, <2>2, <2>4 DEF RunInv
<1>13. CASE ~last /\ blank
  <2>1. todo' = todo /\ pos' = pos + 1 /\ pos' # 0 /\ stage' = "ready"
    BY <1>0, <1>1, <1>4, <1>13
  <2>2. PlaceInv(d)'
    <3>1. step' = 2 * d.erases + 0
      BY <1>1, <1>4
    <3>2. NextIs("COPY")' /\ Target'[1] # CACHE_BUF
      BY <2>1, <1>0, <1>4 DEF NextIs, Target
    <3>3. Counted' = 0 /\ CopyUnderWay'
      BY <2>1 DEF Counted, CopyUnderWay
    <3> QED BY <2>1, <3>1, <3>2, <3>3, <1>1, <1>2, <1>4 DEF PlaceInv
  <2>3. MemoryInv(d)'
    <3>1. pos' < op.length
      BY <2>1, <1>4, <1>6, <1>13
    <3>2. CopyRun(d.mem, Head(todo'))[pos'].mem = mem' /\ CopyRun(d.mem, Head(todo'))[pos'].on
      BY <2>1, <1>8, <1>13
    <3> QED BY <2>1, <3>1, <3>2 DEF MemoryInv, CopyUnderWay
  <2> QED BY <1>10, <1>11, <2>2, <2>3 DEF RunInv
<1> QED BY <1>12, <1>13

\* An ERASE: what its steps have in common.
LEMMA EraseUnder ==
    ASSUME Hypotheses, ExecutionInv, Running("ERASE"), NEW d, PlaceInv(d)
    PROVE  /\ pc = "commands" /\ todo # <<>> /\ Good(d) /\ d.erases \in Nat /\ NextIs("ERASE")
           /\ step = 2 * d.erases + Counted
           /\ Head(todo) \in Operations /\ Head(todo).main[1] \in Blocks
           /\ ApplyAll(d, todo) = Run(prog)[ip - 1]
           /\ ~ff => step = counter
           /\ ff => step < counter
           /\ pos # 0 => stage = "b_write"
           /\ chain = d.chain
           /\ counter \in Nat /\ step \in Nat
<1>0. TypeOK /\ pc = "commands" /\ todo # <<>> /\ Head(todo).command = "ERASE"
  BY DEF ExecutionInv, Running
<1>1. Good(d) /\ ApplyAll(d, todo) = Run(prog)[ip - 1] /\ step = 2 * d.erases + Counted
  BY DEF PlaceInv
<1>2. pos # 0 => stage = "b_write"
  BY <1>0 DEF PlaceInv, NextIs
<1>3. chain = d.chain
  BY <1>2 DEF PlaceInv, CopyUnderWay
<1>4. Head(todo) \in Operations /\ Head(todo).main[1] \in Blocks
  BY <1>0, <1>1, OperationUnderWay
<1>5. (~ff => step = counter) /\ (ff => step < counter) /\ counter \in Nat /\ step \in Nat
  BY <1>0 DEF ExecutionInv, CounterInv
<1> QED BY <1>0, <1>1, <1>2, <1>3, <1>4, <1>5 DEF NextIs, Good

LEMMA EraseFirstStep ==
    ASSUME Hypotheses, ExecutionInv, EraseFirstIncrement
    PROVE  FlashInv' /\ ResumeInv' /\ RunInv'
<1>0. /\ Running("ERASE") /\ pc = "commands" /\ stage = "ready" /\ FlashInv /\ ResumeInv
      /\ RunInv /\ dry = FALSE
  BY DEF EraseFirstIncrement, Running, ExecutionInv, CounterInv
<1>1. /\ UNCHANGED <<mem, backup, prog, pc, ip, todo, pos, chain, dry>> /\ Increment(counter)
      /\ stage' = IF Skip(ff') THEN "second" ELSE "b_erase"
  BY DEF EraseFirstIncrement, fixed
<1>2. PICK d : PlaceInv(d) /\ MemoryInv(d)
  BY <1>0 DEF RunInv
<1>3. /\ Good(d) /\ d.erases \in Nat /\ NextIs("ERASE") /\ step = 2 * d.erases
      /\ ApplyAll(d, todo) = Run(prog)[ip - 1] /\ pos = 0 /\ chain = d.chain
      /\ counter \in Nat /\ step \in Nat /\ (~ff => step = counter) /\ (ff => step < counter)
  BY <1>0, <1>2, EraseUnder DEF Counted
<1>4. CASE ff
  <2>1. step' = step + 1 /\ counter' = counter /\ (~ff' => step + 1 = counter)
    BY <1>0, <1>1, <1>3, <1>4, IncrementSkips
  <2>2. counter % 2 # 1
    BY <1>0, <1>4 DEF FlashInv
  <2>3. ff'
    <3>1. step + 1 # counter
      BY <1>3, <2>2, Parity
    <3> QED BY <2>1, <3>1
  <2>4. stage' = "second"
    BY <1>0, <1>1, <2>3 DEF Skip
  <2>5. FlashInv'
    BY <1>0, <1>1, <2>1, <2>2, FlashKept
  <2>6. ResumeInv'
    BY <1>0, <1>1, <1>4, <2>1 DEF ResumeInv
  <2>7. step' = 2 * d.erases + Counted'
    BY <1>3, <2>1, <2>4 DEF Counted
  <2>8. PlaceInv(d)'
    BY <1>1, <1>3, <2>3, <2>4, <2>7 DEF PlaceInv, NextIs, CopyUnderWay
  <2>9. MemoryInv(d)'
    BY <2>3 DEF MemoryInv
  <2> QED BY <2>5, <2>6, <2>8, <2>9 DEF RunInv
<1>5. CASE ~ff
  <2>1. step' = step + 1 /\ counter' = counter + 1 /\ ff' = FALSE
    BY <1>0, <1>1, <1>3, <1>5, IncrementMarks DEF ExecutionInv, CounterInv
  <2>2. counter' % 2 = 1 /\ counter' \in Nat
    BY <1>3, <1>5, <2>1, Parity
  <2>3. stage' = "b_erase"
    BY <1>0, <1>1, <2>1 DEF Skip
  <2>4. FlashInv'
    BY <1>0, <1>1, <2>1, <2>2, FlashOdd
  <2>5. ResumeInv'
    BY <1>0, <1>1, <2>1 DEF ResumeInv
  <2>6. step' = 2 * d.erases + Counted'
    BY <1>3, <2>1, <2>3 DEF Counted
  <2>7. PlaceInv(d)'
    BY <1>1, <1>3, <2>1, <2>3, <2>6 DEF PlaceInv, NextIs, CopyUnderWay
  <2>8. mem = d.mem
    BY <1>0, <1>2, <1>3, <1>5 DEF MemoryInv, CopyUnderWay
  <2>9. MemoryInv(d)'
    BY <1>1, <2>3, <2>8 DEF MemoryInv, CopyUnderWay
  <2> QED BY <2>4, <2>5, <2>7, <2>9 DEF RunInv
<1> QED BY <1>4, <1>5

\* While the cache is saved the counter is odd.
LEMMA BackupUnder ==
    ASSUME Hypotheses, ExecutionInv, Running("ERASE"), stage \in {"b_erase", "b_write"},
           NEW d, PlaceInv(d)
    PROVE  /\ ~ff /\ counter \in Nat /\ counter % 2 = 1 /\ step \in Nat
           /\ step = 2 * d.erases + 1 /\ d.erases \in Nat
<1>1. ~ff
  BY DEF PlaceInv
<1>2. /\ step = 2 * d.erases + 1 /\ d.erases \in Nat /\ step = counter
      /\ counter \in Nat /\ step \in Nat
  BY <1>1, EraseUnder DEF Counted
<1> QED BY <1>1, <1>2, Parity

LEMMA BackupEraseStep ==
    ASSUME Hypotheses, ExecutionInv, BackupErase PROVE FlashInv' /\ ResumeInv' /\ RunInv'
<1>0. /\ Running("ERASE") /\ pc = "commands" /\ stage = "b_erase" /\ ResumeInv /\ RunInv
  BY DEF BackupErase, Running, ExecutionInv
<1>1. /\ UNCHANGED <<mem, counter, prog, pc, ip, todo, pos, chain, step>> /\ stage' = "b_write"
  BY DEF BackupErase, fixed
<1>2. PICK d : PlaceInv(d) /\ MemoryInv(d)
  BY <1>0 DEF RunInv
<1>3. /\ Good(d) /\ d.erases \in Nat /\ NextIs("ERASE")
      /\ ApplyAll(d, todo) = Run(prog)[ip - 1] /\ pos = 0 /\ chain = d.chain
  BY <1>0, <1>2, EraseUnder
<1>4. ~ff /\ counter \in Nat /\ counter % 2 = 1 /\ step = 2 * d.erases + 1
  BY <1>0, <1>2, BackupUnder
<1>5. ~ff'
  BY <1>4 DEF BackupErase
<1>6. FlashInv'
  BY <1>0, <1>1, <1>4, <1>5, FlashOdd
<1>7. ResumeInv'
  BY <1>0, <1>1, <1>5 DEF ResumeInv
<1>8. PlaceInv(d)'
  <2>1. step' = 2 * d.erases + Counted'
    BY <1>1, <1>4 DEF Counted
  <2> QED BY <1>1, <1>3, <1>5, <2>1 DEF PlaceInv, NextIs, CopyUnderWay
<1>9. MemoryInv(d)'
  <2>1. mem = d.mem
    BY <1>0, <1>2, <1>3, <1>4 DEF MemoryInv, CopyUnderWay
  <2>2. pos' < BlockSize /\ \A w \in 0 .. pos' - 1 : FALSE
    BY <1>1, <1>3, GeometryAssumption
  <2> QED BY <1>1, <2>1, <2>2 DEF MemoryInv, CopyUnderWay
<1> QED BY <1>6, <1>7, <1>8, <1>9 DEF RunInv

LEMMA BackupWordStep ==
    ASSUME Hypotheses, ExecutionInv, BackupWord PROVE FlashInv' /\ ResumeInv' /\ RunInv'
<1>0. /\ Running("ERASE") /\ pc = "commands" /\ stage = "b_write" /\ ResumeInv /\ RunInv
      /\ TypeOK /\ pos \in Nat
  BY DEF BackupWord, Running, ExecutionInv, TypeOK
<1> DEFINE page == BackupPage(step)
<1>1. /\ UNCHANGED <<mem, counter, prog, pc, ip, todo, chain, step>>
      /\ backup' = [backup EXCEPT ![page] = [backup[page] EXCEPT ![pos] = mem[CACHE_BUF][pos]]]
      /\ pos' = (pos + 1) % BlockSize
      /\ stage' = IF pos' = 0 THEN "second" ELSE stage
  BY DEF BackupWord, fixed
<1>2. PICK d : PlaceInv(d) /\ MemoryInv(d)
  BY <1>0 DEF RunInv
<1>3. /\ Good(d) /\ d.erases \in Nat /\ NextIs("ERASE")
      /\ ApplyAll(d, todo) = Run(prog)[ip - 1] /\ chain = d.chain
  BY <1>0, <1>2, EraseUnder
<1>4. ~ff /\ counter \in Nat /\ counter % 2 = 1 /\ step = 2 * d.erases + 1 /\ step \in Nat
  BY <1>0, <1>2, BackupUnder
<1>5. ~ff'
  BY <1>4 DEF BackupWord
<1>6. FlashInv'
  BY <1>0, <1>1, <1>4, <1>5, FlashOdd
<1>7. ResumeInv'
  BY <1>0, <1>1, <1>5 DEF ResumeInv
<1>8. PlaceInv(d)'
  <2>1. stage' = "second" \/ stage' = "b_write"
    BY <1>0, <1>1
  <2>2. step' = 2 * d.erases + Counted'
    BY <1>1, <1>4, <2>1 DEF Counted
  <2>3. pos' # 0 => stage' = "b_write"
    BY <1>0, <1>1
  <2> QED BY <1>1, <1>3, <1>5, <2>1, <2>2, <2>3 DEF PlaceInv, NextIs, CopyUnderWay
<1>9. MemoryInv(d)'
  <2>1. mem = d.mem /\ pos < BlockSize
        /\ \A w \in 0 .. pos - 1 : backup[page][w] = mem[CACHE_BUF][w]
    BY <1>0, <1>2, <1>4 DEF MemoryInv, CopyUnderWay
  <2>2. page \in 1 .. 2 /\ IsPage(backup[page]) /\ backup = [b \in 1 .. 2 |-> backup[b]]
        /\ IsPage(mem[CACHE_BUF])
    BY <1>0, <1>4, Pages DEF TypeOK
  <2>3. pos \in Words
    BY <1>0, <2>1, GeometryAssumption DEF Words
  <2> HIDE DEF page
  <2>4. backup'[page] = [backup[page] EXCEPT ![pos] = mem[CACHE_BUF][pos]]
    BY <1>1, <2>2
  <2>5. /\ backup'[page] = [w \in Words |-> backup'[page][w]]
        /\ \A w \in 0 .. pos : backup'[page][w] = mem[CACHE_BUF][w]
    <3>1. backup'[page] = [w \in Words |-> backup'[page][w]]
      BY <2>2, <2>4 DEF IsPage
    <3>2. ASSUME NEW w \in 0 .. pos PROVE backup'[page][w] = mem[CACHE_BUF][w]
      <4>1. w \in Words
        BY <2>1, <1>0, GeometryAssumption DEF Words
      <4>2. CASE w = pos
        BY <2>2, <2>3, <2>4, <4>2 DEF IsPage
      <4>3. CASE w # pos
        <5>1. w \in 0 .. pos - 1
          BY <1>0, <4>3
        <5>2. backup[page][w] = mem[CACHE_BUF][w]
          BY <2>1, <5>1
        <5> QED BY <2>2, <2>4, <4>1, <4>3, <5>2 DEF IsPage
      <4> QED BY <4>2, <4>3
    <3> QED BY <3>1, <3>2
  <2>6. CASE pos + 1 = BlockSize
    <3>1. pos' = 0 /\ stage' = "second"
      BY <1>0, <1>1, <2>6, GeometryAssumption
    <3>2. \A w \in Words : backup'[page][w] = mem[CACHE_BUF][w]
      <4>1. Words = 0 .. pos
        BY <2>6, <1>0, GeometryAssumption DEF Words
      <4> QED BY <2>5, <4>1
    <3>3. backup'[page] = mem[CACHE_BUF]
      BY <3>2, <2>2, <2>5 DEF IsPage
    <3> QED BY <1>1, <2>1, <3>1, <3>3 DEF MemoryInv, CopyUnderWay, page
  <2>7. CASE pos + 1 # BlockSize
    <3>1. pos + 1 < BlockSize
      BY <1>0, <2>1, <2>7, GeometryAssumption
    <3>2. pos' = pos + 1 /\ pos' # 0
      BY <1>0, <1>1, <3>1, GeometryAssumption
    <3>3. stage' = "b_write" /\ pos' < BlockSize
      BY <1>0, <1>1, <3>1, <3>2
    <3>4. \A w \in 0 .. pos' - 1 : backup'[page][w] = mem[CACHE_BUF][w]
      BY <1>0, <2>5, <3>2
    <3> QED BY <1>1, <2>1, <3>3, <3>4 DEF MemoryInv, CopyUnderWay, page
  <2> QED BY <2>6, <2>7
<1> QED BY <1>6, <1>7, <1>8, <1>9 DEF RunInv

\* The second increment makes the save the one a reset would find, or ends the
\* fast-forward at the ERASE whose save the reset found.
LEMMA EraseSecondStep ==
    ASSUME Hypotheses, ExecutionInv, EraseSecondIncrement
    PROVE  FlashInv' /\ ResumeInv' /\ RunInv'
<1> DEFINE op == Head(todo)
<1>0. /\ Running("ERASE") /\ pc = "commands" /\ stage = "second" /\ FlashInv /\ ResumeInv
      /\ RunInv /\ dry = FALSE /\ TypeOK /\ IsMemory(mem) /\ prog \in Programs
      /\ (ff => old = counter) /\ op.command = "ERASE"
  BY DEF EraseSecondIncrement, Running, ExecutionInv, CounterInv, TypeOK
<1>1. /\ UNCHANGED <<mem, backup, prog, pc, ip, pos, chain, dry>> /\ Increment(old)
      /\ IF Skip(ff') THEN stage' = "ready" /\ todo' = Tail(todo)
                      ELSE stage' = "erase" /\ todo' = todo
  BY DEF EraseSecondIncrement, fixed
<1>2. PICK d : PlaceInv(d) /\ MemoryInv(d)
  BY <1>0 DEF RunInv
<1>3. /\ Good(d) /\ d.erases \in Nat /\ NextIs("ERASE") /\ step = 2 * d.erases + 1
      /\ ApplyAll(d, todo) = Run(prog)[ip - 1] /\ pos = 0 /\ chain = d.chain
      /\ counter \in Nat /\ step \in Nat /\ (~ff => step = counter) /\ (ff => step < counter)
      /\ op \in Operations /\ op.main[1] \in Blocks /\ todo # <<>>
  BY <1>0, <1>2, EraseUnder DEF Counted
<1> PICK e : e = Apply(d, op)
  OBVIOUS
<1>4. /\ Good(e) /\ ApplyAll(e, Tail(todo)) = Run(prog)[ip - 1] /\ Begins(e, Final(prog))
      /\ e.erases = d.erases + 1 /\ e.chain = d.chain
      /\ e.saves[e.erases] = [mem |-> d.mem, block |-> op.main[1]]
  <2>1. Good(e) /\ ApplyAll(e, Tail(todo)) = Run(prog)[ip - 1] /\ Begins(e, Final(prog))
    BY <1>0, <1>3, OperationUnderWay
  <2>2. /\ e.erases = d.erases + 1 /\ e.chain = d.chain
        /\ e.saves[d.erases + 1] = [mem |-> d.mem, block |-> op.main[1]]
    BY <1>0, <1>3, ApplyErase
  <2> QED BY <2>1, <2>2
<1>5. e.erases \in Nat \ {0} /\ e.erases =< Final(prog).erases
      /\ Final(prog).saves[e.erases] = [mem |-> d.mem, block |-> op.main[1]]
  <2>1. e.erases \in 1 .. e.erases
    BY <1>3, <1>4
  <2> QED BY <2>1, <1>3, <1>4 DEF Begins
<1>6. CASE ff /\ ff'
  <2>1. step' = step + 1 /\ counter' = counter
    BY <1>0, <1>1, <1>3, <1>6, IncrementSkips
  <2>2. stage' = "ready" /\ todo' = Tail(todo)
    BY <1>0, <1>1, <1>6 DEF Skip
  <2>3. FlashInv'
    BY <1>0, <1>1, <1>6, <2>1, FlashKept DEF FlashInv
  <2>4. ResumeInv'
    BY <1>0, <1>1, <1>6, <2>1 DEF ResumeInv
  <2>5. step' = 2 * e.erases + Counted'
    <3>1. Counted' = 0
      BY ONLY <2>2 DEF Counted
    <3>2. step = 2 * d.erases + 1 /\ d.erases \in Nat /\ e.erases = d.erases + 1
      BY <1>3, <1>4
    <3> QED BY ONLY <2>1, <3>1, <3>2
  <2>6. PlaceInv(e)'
    BY <1>1, <1>3, <1>4, <1>6, <2>2, <2>5 DEF PlaceInv, CopyUnderWay
  <2>7. MemoryInv(e)'
    BY <1>6 DEF MemoryInv
  <2> QED BY <2>3, <2>4, <2>6, <2>7 DEF RunInv
<1>7. ASSUME ~ff', step' = step + 1, counter' = step + 1,
             \A b \in Memories : b # op.main[1] => mem[b] = d.mem[b]
      PROVE  ResumeInv' /\ RunInv'
  <2>1. stage' = "erase" /\ todo' = todo
    BY <1>0, <1>1, <1>7 DEF Skip
  <2>2. ResumeInv'
    BY <1>0, <1>1, <1>7 DEF ResumeInv
  <2>3. step' = 2 * d.erases + Counted'
    BY <1>3, <1>7, <2>1 DEF Counted
  <2>4. PlaceInv(d)'
    BY <1>1, <1>3, <1>7, <2>1, <2>3 DEF PlaceInv, NextIs, CopyUnderWay
  <2>5. MemoryInv(d)'
    BY <1>1, <1>7, <2>1 DEF MemoryInv, CopyUnderWay
  <2> QED BY <2>2, <2>4, <2>5 DEF RunInv
<1>8. CASE ff /\ ~ff'
  <2>1. step' = step + 1 /\ counter' = counter /\ step + 1 = counter
    BY <1>0, <1>1, <1>3, <1>8, IncrementSkips
  <2>2. counter = 2 * e.erases /\ counter % 2 # 1
    <3>1. counter = 2 * e.erases /\ e.erases \in Nat
      <4>1. step = 2 * d.erases + 1 /\ d.erases \in Nat
        BY <1>3
      <4>2. e.erases = d.erases + 1
        BY <1>4
      <4> QED BY ONLY <4>1, <4>2, <2>1
    <3> QED BY ONLY <3>1
  <2>3. FlashInv'
    BY <1>0, <1>1, <2>1, <2>2, FlashKept
  <2>4. ASSUME NEW b \in Memories, b # op.main[1] PROVE mem[b] = d.mem[b]
    <3>1. FoundAfter(e.erases)
      BY <1>0, <1>5, <2>2 DEF FlashInv
    <3>2. /\ backup[RestorePage(counter)] = d.mem[CACHE_BUF]
          /\ \A c \in Blocks : c # op.main[1] => mem[c] = d.mem[c]
      BY <1>5, <3>1 DEF FoundAfter
    <3>3. mem[CACHE_BUF] = d.mem[CACHE_BUF]
      BY <1>0, <1>8, <3>2 DEF ResumeInv
    <3> QED BY <2>4, <3>2, <3>3 DEF Memories
  <2>5. ResumeInv' /\ RunInv'
    BY <1>7, <1>8, <2>1, <2>4
  <2> QED BY <2>3, <2>5
<1>9. CASE ~ff
  <2>1. step' = step + 1 /\ counter' = counter + 1 /\ ff' = FALSE
    BY <1>0, <1>1, <1>3, <1>9, IncrementMarks DEF ExecutionInv, CounterInv
  <2>2. counter' = 2 * e.erases /\ counter' % 2 # 1 /\ counter' = step + 1
        /\ RestorePage(counter') = BackupPage(step)
    <3>1. counter' = 2 * e.erases /\ counter' = step + 1 /\ counter' = 2 * d.erases + 2
      BY <1>3, <1>4, <1>9, <2>1
    <3>2. counter' % 2 # 1
      BY <3>1, <1>5, Parity
    <3>3. RestorePage(counter') = BackupPage(step)
      BY <3>1, <1>3, Parity
    <3> QED BY <3>1, <3>2, <3>3
  <2>3. mem = d.mem /\ backup[BackupPage(step)] = mem[CACHE_BUF]
    BY <1>0, <1>2, <1>9 DEF MemoryInv, CopyUnderWay
  <2>4. FlashInv'
    <3>1. ASSUME NEW k \in Nat, counter' = 2 * k
          PROVE  k =< Final(prog').erases /\ FoundAfter(k)'
      <4>1. k = e.erases /\ k # 0
        BY <1>5, <2>2, <3>1
      <4>2. /\ backup'[RestorePage(counter')] = d.mem[CACHE_BUF]
            /\ \A b \in Blocks : mem'[b] = d.mem[b]
        BY <1>1, <2>2, <2>3
      <4>3. prog' = prog /\ e.erases =< Final(prog).erases
        BY <1>1, <1>5
      <4>4. Final(prog).saves[e.erases] = [mem |-> d.mem, block |-> op.main[1]]
        BY <1>5
      <4> QED BY <4>1, <4>2, <4>3, <4>4 DEF FoundAfter
    <3> QED BY <2>2, <3>1 DEF FlashInv
  <2>5. ResumeInv' /\ RunInv'
    BY <1>7, <2>1, <2>2, <2>3
  <2> QED BY <2>4, <2>5
<1> QED BY <1>6, <1>8, <1>9

\* The block is erased, which neither the backup nor a reset needs any more.
LEMMA EraseBlockStep ==
    ASSUME Hypotheses, ExecutionInv, EraseBlock PROVE FlashInv' /\ ResumeInv' /\ RunInv'
<1> DEFINE op == Head(todo)
<1>0. /\ Running("ERASE") /\ pc = "commands" /\ stage = "erase" /\ FlashInv /\ ResumeInv
      /\ RunInv /\ TypeOK /\ IsMemory(mem) /\ prog \in Programs /\ op.command = "ERASE"
  BY DEF EraseBlock, Running, ExecutionInv, TypeOK
<1>1. /\ UNCHANGED <<backup, counter, prog, pc, ip, pos, chain, step>>
      /\ stage' = "ready" /\ todo' = Tail(todo)
      /\ mem' = [mem EXCEPT ![op.main[1]] = ErasedPage]
  BY DEF EraseBlock, fixed
<1>2. PICK d : PlaceInv(d) /\ MemoryInv(d)
  BY <1>0 DEF RunInv
<1>3. ~ff /\ ~ff'
  <2>1. ~ff
    BY <1>0, <1>2 DEF PlaceInv
  <2> QED BY <2>1 DEF EraseBlock
<1>4. /\ Good(d) /\ d.erases \in Nat /\ step = 2 * d.erases + 2 /\ step = counter
      /\ ApplyAll(d, todo) = Run(prog)[ip - 1] /\ pos = 0 /\ chain = d.chain
      /\ counter \in Nat /\ op \in Operations /\ op.main[1] \in Blocks /\ todo # <<>>
  BY <1>0, <1>2, <1>3, EraseUnder DEF Counted
<1> PICK e : e = Apply(d, op)
  OBVIOUS
<1>5. /\ Good(e) /\ ApplyAll(e, Tail(todo)) = Run(prog)[ip - 1] /\ Begins(e, Final(prog))
      /\ e.erases = d.erases + 1 /\ e.chain = d.chain
      /\ e.saves[e.erases] = [mem |-> d.mem, block |-> op.main[1]]
      /\ e.mem = [d.mem EXCEPT ![op.main[1]] = ErasedPage]
  <2>1. Good(e) /\ ApplyAll(e, Tail(todo)) = Run(prog)[ip - 1] /\ Begins(e, Final(prog))
    BY <1>0, <1>4, OperationUnderWay
  <2>2. /\ e.erases = d.erases + 1 /\ e.chain = d.chain
        /\ e.saves[d.erases + 1] = [mem |-> d.mem, block |-> op.main[1]]
        /\ e.mem = [d.mem EXCEPT ![op.main[1]] = ErasedPage]
    BY <1>0, <1>4, ApplyErase
  <2> QED BY <2>1, <2>2
<1>6. Final(prog).saves[e.erases] = [mem |-> d.mem, block |-> op.main[1]]
  <2>1. e.erases \in 1 .. e.erases
    BY <1>4, <1>5
  <2> QED BY <2>1, <1>5 DEF Begins
<1>7. FlashInv'
  <2>1. counter = 2 * e.erases /\ counter # 0 /\ counter % 2 # 1
    <3>1. counter = 2 * e.erases /\ counter # 0
      BY <1>4, <1>5 DEF Good
    <3>2. e.erases \in Nat
      BY <1>5 DEF Good
    <3> QED BY ONLY <3>1, <3>2
  <2>2. ASSUME NEW k \in Nat \ {0}, counter = 2 * k,
               NEW b \in Blocks, b # Final(prog).saves[k].block
        PROVE  mem'[b] = mem[b]
    <3>1. k = e.erases
      <4>1. e.erases \in Nat
        BY <1>5 DEF Good
      <4> QED BY ONLY <4>1, <2>1, <2>2
    <3>2. b # op.main[1]
      BY <1>6, <2>2, <3>1
    <3> QED BY <1>0, <1>1, <3>2 DEF IsMemory, Memories
  <2> QED BY <1>0, <1>1, <2>1, <2>2, FlashKept
<1>8. ResumeInv'
  BY <1>0, <1>1, <1>3 DEF ResumeInv
<1>9. mem' = e.mem
  <2>1. IsMemory(d.mem) /\ \A b \in Memories : b # op.main[1] => mem[b] = d.mem[b]
    BY <1>0, <1>2, <1>3 DEF MemoryInv, PlaceInv, Good
  <2> QED BY <2>1, <1>0, <1>1, <1>5 DEF IsMemory
<1>10. PlaceInv(e)'
  <2>1. step' = 2 * e.erases + Counted'
    BY <1>1, <1>4, <1>5 DEF Counted
  <2> QED BY <1>1, <1>3, <1>4, <1>5, <2>1 DEF PlaceInv, CopyUnderWay
<1>11. MemoryInv(e)'
  BY <1>1, <1>4, <1>9 DEF MemoryInv, CopyUnderWay
<1> QED BY <1>7, <1>8, <1>10, <1>11 DEF RunInv

\* Power is lost: the cache is gone.
LEMMA PowerLossStep ==
    ASSUME Hypotheses, ExecutionInv, PowerLoss PROVE FlashInv' /\ ResumeInv' /\ RunInv'
<1>0. FlashInv /\ IsMemory(mem) /\ counter \in Nat
  BY DEF ExecutionInv, TypeOK, CounterInv
<1>1. /\ UNCHANGED <<backup, counter, prog>> /\ pc' = "off" /\ counter % 2 = 0
      /\ mem' = [mem EXCEPT ![CACHE_BUF] = [w \in Words |-> Junk]]
  BY DEF PowerLoss, LoseRAM, Hypotheses, fixed
<1>2. /\ \A b \in Blocks : mem'[b] = mem[b]
      /\ mem'[CACHE_BUF] = [w \in Words |-> Junk]
  BY <1>0, <1>1, CacheIsNoBlock DEF IsMemory, Memories
<1>3. FlashInv'
  BY <1>0, <1>1, <1>2, FlashKept
<1> QED BY <1>1, <1>2, <1>3 DEF ResumeInv, RunInv

-----------------------------------------------------------------------------
(* The theorems. *)

LEMMA InvariantStep ==
    ASSUME Hypotheses, ExecutionInv, [Next]_vars PROVE ExecutionInv'
<1>1. CounterInv' /\ TypeOK'
  BY CounterStep, TypesStep DEF ExecutionInv
<1>2. FlashInv' /\ ResumeInv' /\ RunInv'
  <2>1. CASE UNCHANGED vars
    <3>1. FlashInv /\ ResumeInv /\ RunInv
      BY DEF ExecutionInv
    <3> QED BY <2>1, <3>1
            DEF vars, exec, fixed, FlashInv, FoundAfter, ResumeInv, RunInv, PlaceInv, MemoryInv,
                NextIs, Counted, CopyUnderWay, Target
  <2> QED BY <2>1, BootStep, DecodeStep, EndStep, SkipCopyStep, CopyToCacheStep, CopyToFlashStep,
             EraseFirstStep, BackupEraseStep, BackupWordStep, EraseSecondStep, EraseBlockStep,
             PowerLossStep DEF Next, Execute, Terminated
<1> QED BY <1>1, <1>2 DEF ExecutionInv

LEMMA InvariantAlways == ASSUME Hypotheses PROVE Spec => []ExecutionInv
<1>1. Init => ExecutionInv
  BY CounterStarts, TypesStart, InvariantStarts DEF ExecutionInv
<1>2. ExecutionInv /\ [Next]_vars => ExecutionInv'
  BY InvariantStep
<1> QED BY <1>1, <1>2, PTL DEF Spec

\* For every update that Hugin's virtual machine agrees with, and any number of
\* power losses: when the commands are over the flash is what that machine
\* computed (runCommands against virtualMachine).
THEOREM UpdateSurvivesPowerLoss ==
    ASSUME Hypotheses, \A p \in Programs : AgreesWithVM(p)
    PROVE  Spec => []ImageInstalled
<1>1. ExecutionInv => ImageInstalled
  <2> SUFFICES ASSUME ExecutionInv, pc = "done", NEW b \in Blocks
               PROVE  mem[b] = VMFlash(prog, OldImage)[b]
    BY DEF ImageInstalled
  <2>1. mem = Final(prog).mem /\ prog \in Programs
    BY DEF ExecutionInv, ResumeInv, TypeOK
  <2>2. Final(prog).mem[b] = VMFlash(prog, OldImage)[b]
    BY <2>1 DEF AgreesWithVM
  <2> QED BY <2>1, <2>2
<1> QED BY <1>1, InvariantAlways, PTL

\* Under the same hypotheses the page that restoreCache would read holds the
\* cache as it was at the ERASE the counter stands at.
THEOREM BackupSurvives ==
    ASSUME Hypotheses, \A p \in Programs : AgreesWithVM(p)
    PROVE  Spec => []BackupIsIntact
<1>1. ExecutionInv => BackupIsIntact
  <2> SUFFICES ASSUME ExecutionInv, counter % 2 = 0, counter > 0, NEW w \in Words,
                      CacheAtErase(prog, OldImage, counter \div 2)[w] # Blank
               PROVE  backup[RestorePage(counter)][w] =
                          CacheAtErase(prog, OldImage, counter \div 2)[w]
    BY DEF BackupIsIntact
  <2>0. counter \in Nat /\ FlashInv /\ prog \in Programs
    BY DEF ExecutionInv, CounterInv, TypeOK
  <2>1. counter \div 2 \in Nat /\ counter = 2 * (counter \div 2) /\ counter \div 2 # 0
    BY <2>0
  <2> PICK k \in Nat : k = counter \div 2
    BY <2>1
  <2>2. k =< Final(prog).erases /\ FoundAfter(k) /\ k # 0
    BY <2>0, <2>1 DEF FlashInv
  <2>3. k \in 1 .. Final(prog).erases
    BY <2>0, <2>2, FinalErases
  <2>4. backup[RestorePage(counter)] = Final(prog).saves[k].mem[CACHE_BUF]
    BY <2>2 DEF FoundAfter
  <2>5. Final(prog).saves[k].mem[CACHE_BUF][w] = CacheAtErase(prog, OldImage, k)[w]
    BY <2>0, <2>3 DEF AgreesWithVM
  <2> QED BY <2>4, <2>5
<1> QED BY <1>1, InvariantAlways, PTL
=================================================================================
