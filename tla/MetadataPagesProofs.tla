------------------------- MODULE MetadataPagesProofs -------------------------
(***************************************************************************)
(* Proofs about MetadataPages, for every number of slots and of locations. *)
(* One page is always valid, as long as a pass counts at most two steps    *)
(* past the bit field.  The two pages implement DurableRecord, and lose no *)
(* step, as long as an update fits in the bit field (MaxCounter < Slots:   *)
(* no overflow).                                                           *)
(***************************************************************************)
EXTENDS MetadataPages, WellFoundedInduction, TLAPS

\* A set of natural numbers that is not empty has a least element.
LEMMA LeastNatural ==
    ASSUME NEW T, T \subseteq Nat, T # {}
    PROVE  \E x \in T : \A y \in T : x =< y
<1>1. PICK x \in T : \A y \in T : ~ (<<y, x>> \in OpToRel(<, Nat))
  BY NatLessThanWellFounded, WFMin, Zenon
<1>2. ASSUME NEW y \in T PROVE x =< y
  <2>1. ~(y < x)
    BY <1>1 DEF OpToRel
  <2> QED BY <2>1
<1> QED BY <1>2

\* LeadingZeros is well defined: it counts the slots before the first one that
\* is not zero, the last one left aside.
LEMMA LeadingZerosType ==
    ASSUME NEW bits \in [0 .. Slots - 1 -> BOOLEAN]
    PROVE  /\ LeadingZeros(bits) \in 0 .. Slots - 1
           /\ \A s \in 0 .. LeadingZeros(bits) - 1 : bits[s]
           /\ LeadingZeros(bits) = Slots - 1 \/ ~bits[LeadingZeros(bits)]
<1> DEFINE T == {n \in 0 .. Slots - 1 : n = Slots - 1 \/ ~bits[n]}
<1>1. T \subseteq Nat /\ T # {}
  BY BoundAssumption
<1>2. PICK n \in T : \A m \in T : n =< m
  BY <1>1, LeastNatural, Zenon
<1>3. /\ n \in 0 .. Slots - 1
      /\ \A s \in 0 .. n - 1 : bits[s]
      /\ n = Slots - 1 \/ ~bits[n]
  BY <1>2, BoundAssumption
<1> QED BY <1>3, Zenon DEF LeadingZeros

-----------------------------------------------------------------------------
(* The inductive invariant.  TypeOK and OneValid are not inductive: whether  *)
(* the page that is left is valid depends on where setMetadataPage is.       *)

\* A page that carries the valid mark was entirely written before it.
Complete(p) == p.location \in Locations /\ p.multiplier \in Nat

CompleteIfValid == \A p \in Names : page[p].valid = "VALID" => Complete(page[p])

\* Until the new page carries its mark the old one is valid; then the new one is.
SetMetadataPageInv ==
    /\ pc \in {"erase", "location", "multiplier", "valid", "slot"} => IsMetadataValid(page[cur])
    /\ pc \in {"location", "multiplier", "valid"} =>
           page[Other(cur)].valid = Blank /\ page[Other(cur)].notExpired = Blank
    /\ pc \in {"multiplier", "valid"} => page[Other(cur)].location \in Locations
    /\ pc = "valid" => page[Other(cur)].multiplier \in Nat
    /\ pc = "expire" => IsMetadataValid(page[Other(cur)])

\* incrementCounter never marks a step beyond the bound.
StepInv == step =< MaxCounter /\ (pc = "slot" => step > 0)

PagesInv == TypeOK /\ OneValid /\ CompleteIfValid /\ SetMetadataPageInv /\ StepInv

LEMMA PagesInvInit == Init => PagesInv
<1> SUFFICES ASSUME Init PROVE PagesInv
  OBVIOUS
<1> USE DEF Init, MetadataPage, Names
<1>1. TypeOK
  BY LocationAssumption, BoundAssumption DEF TypeOK, Page
<1>2. OneValid
  BY DEF OneValid, IsMetadataValid
<1>3. CompleteIfValid
  BY LocationAssumption DEF CompleteIfValid, Complete
<1>4. SetMetadataPageInv /\ StepInv
  BY BoundAssumption DEF SetMetadataPageInv, StepInv
<1> QED BY <1>1, <1>2, <1>3, <1>4 DEF PagesInv

\* The page getMetadata returns is valid and complete, and the counter read
\* from it is a number.
LEMMA CurrentPage ==
    ASSUME TypeOK, OneValid, CompleteIfValid
    PROVE  /\ GetMetadata \in Names
           /\ IsMetadataValid(page[GetMetadata])
           /\ Complete(page[GetMetadata])
           /\ GetCurrentCounter \in Nat
<1>1. GetMetadata \in Names /\ IsMetadataValid(page[GetMetadata])
  BY DEF GetMetadata, OneValid, Names
<1>2. Complete(page[GetMetadata])
  BY <1>1 DEF CompleteIfValid, IsMetadataValid
<1>3. page[GetMetadata].zeroed \in [0 .. Slots - 1 -> BOOLEAN]
  BY <1>1 DEF TypeOK, Page
<1>4. LeadingZeros(page[GetMetadata].zeroed) \in Nat
  BY <1>3, LeadingZerosType
<1>5. GetCurrentCounter \in Nat
  BY <1>2, <1>4, BoundAssumption DEF GetCurrentCounter, Complete
<1> QED BY <1>1, <1>2, <1>5

-----------------------------------------------------------------------------
(* Every step preserves the invariant, as long as a pass makes at most       *)
(* Slots + 2 increments: one more would zero notExpired.                     *)

\* A step that writes no flash and calls nothing.
LEMMA QuietStep ==
    ASSUME PagesInv, page' = page, pc' = pc, cur' = cur, loc' = loc, mult' = mult,
           mode' \in {"off", "app", "start", "update"}, old' \in Nat, ff' \in BOOLEAN,
           dry' \in BOOLEAN, part' \in {"commands", "delta"},
           step' \in Nat, step' =< MaxCounter, pc = "slot" => step' = step
    PROVE  PagesInv'
<1>1. TypeOK'
  BY DEF PagesInv, TypeOK
<1>2. OneValid' /\ CompleteIfValid'
  BY DEF PagesInv, OneValid, CompleteIfValid
<1>3. SetMetadataPageInv'
  BY DEF PagesInv, SetMetadataPageInv, Other
<1>4. StepInv'
  BY DEF PagesInv, StepInv
<1> QED BY <1>1, <1>2, <1>3, <1>4 DEF PagesInv

\* A call of setMetadataPage for the current page.
LEMMA CallStep ==
    ASSUME PagesInv, NEW location \in Locations, NEW multiplier \in Nat,
           CallSetMetadataPage(GetMetadata, location, multiplier),
           mode' \in {"off", "app", "start", "update"}, ff' \in BOOLEAN,
           step' \in Nat, step' =< MaxCounter
    PROVE  PagesInv'
<1>1. GetMetadata \in Names /\ IsMetadataValid(page[GetMetadata])
  BY CurrentPage DEF PagesInv
<1>2. TypeOK'
  BY <1>1 DEF PagesInv, TypeOK, CallSetMetadataPage
<1>3. OneValid' /\ CompleteIfValid'
  BY DEF PagesInv, OneValid, CompleteIfValid, CallSetMetadataPage
<1>4. SetMetadataPageInv' /\ StepInv'
  BY <1>1 DEF SetMetadataPageInv, StepInv, CallSetMetadataPage
<1> QED BY <1>2, <1>3, <1>4 DEF PagesInv

LEMMA FlashSteps ==
    ASSUME PagesInv, MaxCounter =< Slots + 2,
           EraseNew \/ WriteLocation \/ WriteMultiplier \/ WriteValid \/ ExpireOld \/ WriteSlot
    PROVE  PagesInv'
<1> USE DEF PagesInv, FlashStep, ram
<1>0. Names = {"Main", "Sec"} /\ cur \in Names /\ Other(cur) \in Names /\ Other(cur) # cur
      /\ \A p \in Names : p = cur \/ p = Other(cur)
  BY DEF TypeOK, Names, Other
<1>a. page \in [Names -> Page] /\ cur' = cur /\ step' = step
  BY DEF TypeOK, EraseNew, WriteLocation, WriteMultiplier, WriteValid, ExpireOld, WriteSlot
<1>1. CASE EraseNew
  <2>1. ErasedPage \in Page
    BY BlankAssumption DEF Page, ErasedPage, MetadataPage
  <2>2. page' = [page EXCEPT ![Other(cur)] = ErasedPage] /\ pc = "erase" /\ pc' = "location"
    BY <1>1 DEF EraseNew
  <2>3. TypeOK'
    BY <1>1, <1>0, <2>1, <2>2 DEF TypeOK, EraseNew
  <2>4. page'[cur] = page[cur] /\ page'[Other(cur)] = ErasedPage
    BY <1>0, <1>a, <2>2
  <2>5. ErasedPage.valid = Blank /\ ErasedPage.notExpired = Blank
    BY DEF ErasedPage, MetadataPage
  <2>6. IsMetadataValid(page[cur])
    BY <2>2 DEF SetMetadataPageInv
  <2>7. OneValid'
    BY <2>4, <2>6, <1>0 DEF OneValid
  <2>8. CompleteIfValid'
    BY <2>4, <2>5, <1>0, BlankAssumption DEF CompleteIfValid
  <2>9. SetMetadataPageInv' /\ StepInv'
    BY <2>2, <2>4, <2>5, <2>6, <1>a DEF SetMetadataPageInv, StepInv, Other
  <2> QED BY <2>3, <2>7, <2>8, <2>9
<1>2. CASE WriteLocation
  <2> DEFINE new == [page[Other(cur)] EXCEPT !.location = Program(@, loc)]
  <2>1. page' = [page EXCEPT ![Other(cur)] = new] /\ pc = "location" /\ pc' = "multiplier"
    BY <1>2 DEF WriteLocation
  <2>2. new \in Page /\ new.location \in Locations
        /\ new.valid = Blank /\ new.notExpired = Blank
    BY <1>0, <1>a, <2>1 DEF Page, Program, TypeOK, SetMetadataPageInv
  <2> HIDE DEF new
  <2>3. page'[cur] = page[cur] /\ page'[Other(cur)] = new
    BY <1>0, <1>a, <2>1
  <2>4. IsMetadataValid(page[cur])
    BY <2>1 DEF SetMetadataPageInv
  <2>5. TypeOK'
    BY <1>2, <1>0, <2>1, <2>2 DEF TypeOK, WriteLocation
  <2>6. OneValid' /\ CompleteIfValid'
    BY <2>2, <2>3, <2>4, <1>0, BlankAssumption DEF OneValid, CompleteIfValid
  <2>7. SetMetadataPageInv' /\ StepInv'
    BY <2>1, <2>2, <2>3, <2>4, <1>a DEF SetMetadataPageInv, StepInv, Other
  <2> QED BY <2>5, <2>6, <2>7
<1>3. CASE WriteMultiplier
  <2> DEFINE new == [page[Other(cur)] EXCEPT !.multiplier = Program(@, mult)]
  <2>1. page' = [page EXCEPT ![Other(cur)] = new] /\ pc = "multiplier" /\ pc' = "valid"
    BY <1>3 DEF WriteMultiplier
  <2>2. new \in Page /\ new.location \in Locations /\ new.multiplier \in Nat
        /\ new.valid = Blank /\ new.notExpired = Blank
    BY <1>0, <1>a, <2>1 DEF Page, Program, TypeOK, SetMetadataPageInv
  <2> HIDE DEF new
  <2>3. page'[cur] = page[cur] /\ page'[Other(cur)] = new
    BY <1>0, <1>a, <2>1
  <2>4. IsMetadataValid(page[cur])
    BY <2>1 DEF SetMetadataPageInv
  <2>5. TypeOK'
    BY <1>3, <1>0, <2>1, <2>2 DEF TypeOK, WriteMultiplier
  <2>6. OneValid' /\ CompleteIfValid'
    BY <2>2, <2>3, <2>4, <1>0, BlankAssumption DEF OneValid, CompleteIfValid
  <2>7. SetMetadataPageInv' /\ StepInv'
    BY <2>1, <2>2, <2>3, <2>4, <1>a DEF SetMetadataPageInv, StepInv, Other
  <2> QED BY <2>5, <2>6, <2>7
<1>4. CASE WriteValid
  <2> DEFINE new == [page[Other(cur)] EXCEPT !.valid = Program(@, "VALID")]
  <2>1. page' = [page EXCEPT ![Other(cur)] = new] /\ pc = "valid" /\ pc' = "expire"
    BY <1>4 DEF WriteValid
  <2>2. new \in Page /\ Complete(new) /\ IsMetadataValid(new)
    BY <1>0, <1>a, <2>1 DEF Page, Program, SetMetadataPageInv, Complete, IsMetadataValid
  <2> HIDE DEF new
  <2>3. page'[cur] = page[cur] /\ page'[Other(cur)] = new
    BY <1>0, <1>a, <2>1
  <2>5. TypeOK'
    BY <1>4, <1>0, <2>1, <2>2 DEF TypeOK, WriteValid
  <2>6. OneValid'
    BY <2>2, <2>3, <1>0 DEF OneValid
  <2>7. CompleteIfValid'
    BY <2>2, <2>3, <1>0 DEF CompleteIfValid
  <2>8. SetMetadataPageInv' /\ StepInv'
    BY <2>1, <2>2, <2>3, <1>a DEF SetMetadataPageInv, StepInv, Other
  <2> QED BY <2>5, <2>6, <2>7, <2>8
<1>5. CASE ExpireOld
  <2> DEFINE new == [page[cur] EXCEPT !.notExpired = Program(@, "zero")]
  <2>1. page' = [page EXCEPT ![cur] = new] /\ pc = "expire" /\ pc' = "idle"
    BY <1>5 DEF ExpireOld
  <2>2. new \in Page /\ (new.valid = "VALID" => Complete(new))
    BY <1>0, <1>a DEF Page, Program, CompleteIfValid, Complete
  <2> HIDE DEF new
  <2>3. page'[Other(cur)] = page[Other(cur)] /\ page'[cur] = new
    BY <1>0, <1>a, <2>1
  <2>4. IsMetadataValid(page[Other(cur)])
    BY <2>1 DEF SetMetadataPageInv
  <2>5. TypeOK'
    BY <1>5, <1>0, <2>1, <2>2 DEF TypeOK, ExpireOld
  <2>6. OneValid'
    BY <2>3, <2>4, <1>0 DEF OneValid
  <2>7. CompleteIfValid'
    BY <2>2, <2>3, <1>0 DEF CompleteIfValid
  <2>8. SetMetadataPageInv' /\ StepInv'
    BY <2>1, <1>a DEF SetMetadataPageInv, StepInv
  <2> QED BY <2>5, <2>6, <2>7, <2>8
<1>6. CASE WriteSlot
  <2> DEFINE new == ZeroWord(page[cur], step - 1)
  <2>1. page' = [page EXCEPT ![cur] = new] /\ pc = "slot" /\ pc' = "idle"
    BY <1>6 DEF WriteSlot
  <2>2. step - 1 \in 0 .. Slots + 1
    BY <2>1, BoundAssumption DEF StepInv, TypeOK
  <2>3. page[cur] \in Page /\ IsMetadataValid(page[cur]) /\ Complete(page[cur])
    BY <1>0, <1>a, <2>1 DEF SetMetadataPageInv, CompleteIfValid, IsMetadataValid
  <2>4. new \in Page /\ IsMetadataValid(new) /\ Complete(new)
    <3>1. CASE step - 1 < Slots
      <4>1. new = [page[cur] EXCEPT !.zeroed[step - 1] = TRUE]
        BY <3>1, <2>2, BoundAssumption DEF ZeroWord
      <4>2. new = [page[cur] EXCEPT !.zeroed = [page[cur].zeroed EXCEPT ![step - 1] = TRUE]]
        BY <4>1
      <4>3. [page[cur].zeroed EXCEPT ![step - 1] = TRUE] \in [0 .. Slots - 1 -> BOOLEAN]
        BY <2>3 DEF Page
      <4> QED BY <4>2, <4>3, <2>3 DEF Page, IsMetadataValid, Complete
    <3>2. CASE step - 1 = Slots
      <4>1. new = [page[cur] EXCEPT !.multiplier = Program(@, 0)]
        BY <3>2, BoundAssumption DEF ZeroWord
      <4> QED BY <4>1, <2>3, BlankAssumption DEF Page, Program, IsMetadataValid, Complete
    <3>3. CASE step - 1 = Slots + 1
      <4>1. new = [page[cur] EXCEPT !.valid = Program(@, "zero")]
        BY <3>3, BoundAssumption DEF ZeroWord
      <4> QED BY <4>1, <2>3, BlankAssumption DEF Page, Program, IsMetadataValid, Complete
    <3> QED BY <3>1, <3>2, <3>3, <2>2, BoundAssumption
  <2> HIDE DEF new
  <2>5. page'[Other(cur)] = page[Other(cur)] /\ page'[cur] = new
    BY <1>0, <1>a, <2>1
  <2>6. TypeOK'
    BY <1>6, <1>0, <2>1, <2>4 DEF TypeOK, WriteSlot
  <2>7. OneValid'
    BY <2>4, <2>5, <1>0 DEF OneValid
  <2>8. CompleteIfValid'
    BY <2>4, <2>5, <1>0 DEF CompleteIfValid
  <2>9. SetMetadataPageInv' /\ StepInv'
    BY <2>1, <1>a DEF SetMetadataPageInv, StepInv
  <2> QED BY <2>6, <2>7, <2>8, <2>9
<1> QED BY <1>1, <1>2, <1>3, <1>4, <1>5, <1>6

LEMMA PagesInvNext ==
    ASSUME PagesInv, MaxCounter =< Slots + 2, [Next]_vars
    PROVE  PagesInv'
<1> USE DEF PagesInv
<1>0. /\ GetMetadata \in Names
      /\ Complete(page[GetMetadata]) /\ GetCurrentCounter \in Nat
  BY CurrentPage
<1>a. page[GetMetadata].location \in Locations /\ page[GetMetadata].multiplier \in Nat
  BY <1>0 DEF Complete
<1>t. /\ mode \in {"off", "app", "start", "update"} /\ ff \in BOOLEAN /\ dry \in BOOLEAN
      /\ part \in {"commands", "delta"} /\ step \in Nat /\ old \in Nat /\ step =< MaxCounter
      /\ MaxCounter \in Nat
  BY BoundAssumption DEF TypeOK, StepInv
<1>1. CASE EraseNew \/ WriteLocation \/ WriteMultiplier \/ WriteValid \/ ExpireOld \/ WriteSlot
  BY <1>1, FlashSteps
<1>2. CASE \E l \in Locations : RequestUpdate(l)
  BY <1>2, <1>t, CallStep DEF RequestUpdate
<1>3. CASE StartFresh
  BY <1>3, <1>t, <1>a, CallStep DEF StartFresh
<1>4. CASE IncrementOverflow
  BY <1>4, <1>t, <1>a, CallStep DEF IncrementOverflow
<1>5. CASE BootToApp \/ StartAgain \/ Conclude
  BY <1>5, <1>t, QuietStep DEF BootToApp, StartAgain, Conclude, ram
<1>6. CASE BeginDryRun
  <2>1. /\ page' = page /\ pc' = pc /\ cur' = cur /\ loc' = loc /\ mult' = mult
        /\ mode' = "update" /\ old' \in Nat /\ ff' \in BOOLEAN /\ dry' \in BOOLEAN
        /\ part' = "commands" /\ step' = 0 /\ pc = "idle"
    BY <1>6, <1>0 DEF BeginDryRun
  <2> QED BY <2>1, <1>t, QuietStep
<1>7. CASE BeginRealRun \/ BeginDelta
  <2>1. /\ page' = page /\ pc' = pc /\ cur' = cur /\ loc' = loc /\ mult' = mult
        /\ mode' = mode /\ old' = old /\ ff' \in BOOLEAN /\ dry' \in BOOLEAN
        /\ part' \in {"commands", "delta"} /\ step' \in {0, step} /\ pc = "idle"
    BY <1>7, <1>t DEF BeginRealRun, BeginDelta
  <2> QED BY <2>1, <1>t, QuietStep
<1>8. CASE IncrementFastForward
  BY <1>8, <1>t, QuietStep DEF IncrementFastForward
<1>9. CASE IncrementSlot
  <2>1. IsMetadataValid(page[GetMetadata])
    BY CurrentPage
  <2>2. TypeOK'
    BY <1>9, <1>0, <1>t DEF IncrementSlot, TypeOK
  <2>3. OneValid' /\ CompleteIfValid'
    BY <1>9 DEF IncrementSlot, OneValid, CompleteIfValid
  <2>4. SetMetadataPageInv' /\ StepInv'
    BY <1>9, <1>t, <2>1 DEF IncrementSlot, SetMetadataPageInv, StepInv
  <2> QED BY <2>2, <2>3, <2>4
<1>10. CASE PowerLoss
  <2>1. TypeOK'
    BY <1>10 DEF PowerLoss, TypeOK, ram
  <2>2. OneValid' /\ CompleteIfValid'
    BY <1>10 DEF PowerLoss, OneValid, CompleteIfValid
  <2>3. SetMetadataPageInv' /\ StepInv'
    BY <1>10 DEF PowerLoss, ram, SetMetadataPageInv, StepInv
  <2> QED BY <2>1, <2>2, <2>3
<1>11. CASE UNCHANGED vars
  BY <1>11, <1>t, QuietStep DEF vars
<1> QED BY <1>1, <1>2, <1>3, <1>4, <1>5, <1>6, <1>7, <1>8, <1>9, <1>10, <1>11 DEF Next

-----------------------------------------------------------------------------
\* Power may be lost after any flash command of setMetadataPage or
\* incrementCounter: the assertion of getMetadata (core.c:73) never fails, for
\* any number of slots and any interleaving of requests, restarts and overflows,
\* as long as a pass makes at most Slots + 2 increments.  The run
\* MetadataFooterHit shows that the bound is exact.
THEOREM OneValidAlways ==
    ASSUME MaxCounter =< Slots + 2
    PROVE  Spec => []OneValid
<1>1. Init => PagesInv
  BY PagesInvInit
<1>2. PagesInv /\ [Next]_vars => PagesInv'
  BY PagesInvNext
<1>3. PagesInv => OneValid
  BY DEF PagesInv
<1> QED BY <1>1, <1>2, <1>3, PTL DEF Spec

\* The pages and the variables of the update keep their types, and so the
\* counter read from flash is a number at every boot.
THEOREM TypeCorrect ==
    ASSUME MaxCounter =< Slots + 2
    PROVE  Spec => []TypeOK
<1>1. Init => PagesInv
  BY PagesInvInit
<1>2. PagesInv /\ [Next]_vars => PagesInv'
  BY PagesInvNext
<1>3. PagesInv => TypeOK
  BY DEF PagesInv
<1> QED BY <1>1, <1>2, <1>3, PTL DEF Spec

-----------------------------------------------------------------------------
(* The record. *)

Bits == [0 .. Slots - 1 -> BOOLEAN]

\* There is only one count of leading zeros.
LEMMA LeadingZerosUnique ==
    ASSUME NEW bits \in Bits, NEW n \in 0 .. Slots - 1,
           \A s \in 0 .. n - 1 : bits[s],
           n = Slots - 1 \/ ~bits[n]
    PROVE  LeadingZeros(bits) = n
<1> DEFINE m == LeadingZeros(bits)
<1>1. /\ m \in 0 .. Slots - 1
      /\ \A s \in 0 .. m - 1 : bits[s]
      /\ m = Slots - 1 \/ ~bits[m]
  BY LeadingZerosType DEF Bits
<1> HIDE DEF m
<1>2. ~(m < n)
  BY <1>1, BoundAssumption
<1>3. ~(n < m)
  BY <1>1, BoundAssumption
<1>4. m = n
  BY <1>1, <1>2, <1>3, BoundAssumption
<1> QED BY <1>4 DEF m

\* The slots that are zero are the first ones: no gap, and none is zero beyond
\* the count.
Prefix(bits) == \A s \in 0 .. Slots - 1 : bits[s] <=> s < LeadingZeros(bits)

LEMMA PrefixOfErased ==
    ASSUME NEW bits \in Bits, \A s \in 0 .. Slots - 1 : ~bits[s]
    PROVE  LeadingZeros(bits) = 0 /\ Prefix(bits)
<1>1. LeadingZeros(bits) = 0
  BY LeadingZerosUnique, BoundAssumption
<1> QED BY <1>1 DEF Prefix

\* Zeroing a slot that is counted changes nothing; zeroing the next one adds
\* one to the count.
LEMMA ZeroSlot ==
    ASSUME NEW bits \in Bits, Prefix(bits), NEW i \in 0 .. Slots - 2,
           i =< LeadingZeros(bits)
    PROVE  LET new == [bits EXCEPT ![i] = TRUE]
           IN  /\ new \in Bits /\ Prefix(new)
               /\ i < LeadingZeros(bits) => new = bits
               /\ i = LeadingZeros(bits) => LeadingZeros(new) = LeadingZeros(bits) + 1
<1> DEFINE new == [bits EXCEPT ![i] = TRUE]
           n == LeadingZeros(bits)
<1>1. n \in 0 .. Slots - 1
  BY LeadingZerosType DEF Bits
<1>2. new \in Bits
  BY DEF Bits
<1>3. i < n => new = bits
  BY <1>1 DEF Prefix, Bits
<1>4. ASSUME i = n PROVE LeadingZeros(new) = n + 1 /\ Prefix(new)
  <2>1. n + 1 \in 0 .. Slots - 1
    BY <1>4, <1>1, BoundAssumption
  <2>2. \A s \in 0 .. Slots - 1 : new[s] <=> s < n + 1
    BY <1>4, <1>1, BoundAssumption DEF Prefix, Bits
  <2> HIDE DEF new, n
  <2>a. (\A s \in 0 .. (n + 1) - 1 : new[s]) /\ (n + 1 = Slots - 1 \/ ~new[n + 1])
    BY <2>1, <2>2, <1>1, BoundAssumption
  <2>3. LeadingZeros(new) = n + 1
    BY <2>1, <2>a, <1>2, LeadingZerosUnique
  <2> QED BY <2>2, <2>3 DEF Prefix
<1>5. Prefix(new)
  <2>1. CASE i < n
    BY <2>1, <1>3, Zenon
  <2>2. CASE i = n
    BY <2>2, <1>4, Zenon
  <2> QED BY <2>1, <2>2, <1>1
<1> QED BY <1>2, <1>3, <1>4, <1>5

-----------------------------------------------------------------------------
(* The inductive invariant. *)

\* A page that carries the valid mark counts its steps without a gap.
CountsInv ==
    \A p \in Names : page[p].valid = "VALID" =>
                         page[p].multiplier = 0 /\ Prefix(page[p].zeroed)

\* setMetadataPage works away from the page in use, and fills the other one
\* with its arguments.
NewPageInv ==
    /\ mult = 0
    /\ pc \in {"erase", "location", "multiplier", "valid", "slot"} => cur = GetMetadata
    /\ pc \in {"location", "multiplier", "valid", "expire"} =>
           \A s \in 0 .. Slots - 1 : ~page[Other(cur)].zeroed[s]
    /\ pc = "location" => page[Other(cur)].location = Blank
    /\ pc \in {"location", "multiplier"} => page[Other(cur)].multiplier = Blank
    /\ pc \in {"multiplier", "valid", "expire"} => page[Other(cur)].location = loc
    /\ pc \in {"valid", "expire"} => page[Other(cur)].multiplier = 0

\* How far the pass under way is from the counter in flash.
PassInv ==
    /\ pc = "slot" => mode = "update" /\ ~Skipping
    /\ mode = "update" =>
        /\ pc \in {"idle", "slot"} /\ old =< GetCurrentCounter
        /\ Skipping => step < GetCurrentCounter /\ (part = "delta" => step < old)
        /\ ~Skipping /\ pc = "idle" => step =< GetCurrentCounter
        /\ pc = "slot" => step - 1 =< GetCurrentCounter
        /\ ~dry /\ ~ff => old =< step

RecordInv == CountsInv /\ NewPageInv /\ PassInv

LEMMA CounterIsCount ==
    ASSUME PagesInv, CountsInv
    PROVE  /\ GetCurrentCounter = LeadingZeros(page[GetMetadata].zeroed)
           /\ GetCurrentCounter \in Nat
<1>1. GetMetadata \in Names /\ page[GetMetadata].valid = "VALID" /\ GetCurrentCounter \in Nat
  BY CurrentPage DEF PagesInv, IsMetadataValid
<1>2. page[GetMetadata].multiplier = 0 /\ page[GetMetadata].zeroed \in Bits
  BY <1>1 DEF CountsInv, PagesInv, TypeOK, Page, Bits
<1>3. LeadingZeros(page[GetMetadata].zeroed) \in Nat
  BY <1>2, LeadingZerosType DEF Bits
<1> QED BY <1>1, <1>2, <1>3, BoundAssumption DEF GetCurrentCounter

LEMMA RecordInvInit == Init => RecordInv
<1> SUFFICES ASSUME Init PROVE RecordInv
  OBVIOUS
<1>1. \A p \in Names : page[p].zeroed \in Bits /\ \A s \in 0 .. Slots - 1 : ~page[p].zeroed[s]
  BY DEF Init, Names, MetadataPage, Bits
<1>2. \A p \in Names : Prefix(page[p].zeroed)
  BY <1>1, PrefixOfErased
<1>3. \A p \in Names : page[p].multiplier = 0
  BY DEF Init, Names, MetadataPage
<1>4. CountsInv
  BY <1>2, <1>3 DEF CountsInv
<1>5. NewPageInv /\ PassInv
  BY DEF Init, NewPageInv, PassInv
<1> QED BY <1>4, <1>5 DEF RecordInv

-----------------------------------------------------------------------------
(* What the flash commands do to the record. *)

\* The record as DurableRecord sees it.
SameRecord ==
    /\ page'[GetMetadata'].location = page[GetMetadata].location
    /\ GetCurrentCounter' = GetCurrentCounter

LEMMA PagesUntouched ==
    ASSUME CountsInv, page' = page
    PROVE  CountsInv' /\ SameRecord /\ GetMetadata' = GetMetadata
<1>1. GetMetadata' = GetMetadata
  BY DEF GetMetadata
<1>2. GetCurrentCounter' = GetCurrentCounter
  BY <1>1 DEF GetCurrentCounter
<1>3. CountsInv'
  BY DEF CountsInv
<1> QED BY <1>1, <1>2, <1>3 DEF SameRecord

\* A write to the page that is not in use, before it carries its mark.
LEMMA OtherPageWritten ==
    ASSUME PagesInv, CountsInv, cur = GetMetadata, NEW q, q.valid # "VALID",
           page' = [page EXCEPT ![Other(cur)] = q]
    PROVE  CountsInv' /\ SameRecord /\ GetMetadata' = GetMetadata /\ page'[Other(cur)] = q
<1>1. /\ cur \in Names /\ Other(cur) \in Names /\ Other(cur) # cur
      /\ IsMetadataValid(page[cur]) /\ page \in [Names -> Page]
  BY CurrentPage DEF PagesInv, TypeOK, Names, Other
<1>2. page'[cur] = page[cur] /\ page'[Other(cur)] = q
  BY <1>1
<1>3. GetMetadata' = cur
  BY <1>1, <1>2 DEF GetMetadata, Names, Other, IsMetadataValid
<1>4. SameRecord
  BY <1>2, <1>3 DEF SameRecord, GetCurrentCounter
<1>5. CountsInv'
  BY <1>1, <1>2 DEF CountsInv, Names, Other
<1> QED BY <1>2, <1>3, <1>4, <1>5

\* A record just written.
Fresh == page'[GetMetadata'].location = loc /\ GetCurrentCounter' = 0

LEMMA FreshPage ==
    ASSUME NEW q \in Page, q.multiplier = 0, q.location = loc,
           \A s \in 0 .. Slots - 1 : ~q.zeroed[s]
    PROVE  Prefix(q.zeroed) /\ (page'[GetMetadata'] = q => Fresh)
<1>1. q.zeroed \in Bits
  BY DEF Page, Bits
<1>2. Prefix(q.zeroed) /\ LeadingZeros(q.zeroed) = 0
  BY <1>1, PrefixOfErased
<1> QED BY <1>2, BoundAssumption DEF Fresh, GetCurrentCounter

LEMMA MarkWritten ==
    ASSUME PagesInv, RecordInv, WriteValid
    PROVE  CountsInv' /\ (SameRecord \/ Fresh)
<1> DEFINE q == [page[Other(cur)] EXCEPT !.valid = Program(@, "VALID")]
<1>1. /\ cur = GetMetadata /\ pc = "valid" /\ page' = [page EXCEPT ![Other(cur)] = q]
      /\ loc' = loc /\ cur' = cur
  BY DEF RecordInv, NewPageInv, WriteValid, FlashStep, ram
<1>2. /\ cur \in Names /\ Other(cur) \in Names /\ Other(cur) # cur
      /\ IsMetadataValid(page[cur]) /\ page \in [Names -> Page]
  BY <1>1, CurrentPage DEF PagesInv, TypeOK, Names, Other
<1>3. /\ q \in Page /\ IsMetadataValid(q) /\ q.multiplier = 0 /\ q.location = loc
      /\ \A s \in 0 .. Slots - 1 : ~q.zeroed[s]
  BY <1>1, <1>2 DEF PagesInv, SetMetadataPageInv, RecordInv, NewPageInv, Program, Page,
                    IsMetadataValid
<1> HIDE DEF q
<1>4. page'[cur] = page[cur] /\ page'[Other(cur)] = q
  BY <1>1, <1>2
<1>5. Prefix(q.zeroed) /\ (page'[GetMetadata'] = q => Fresh)
  BY <1>3, FreshPage
<1>6. CountsInv'
  BY <1>2, <1>3, <1>4, <1>5 DEF RecordInv, CountsInv, Names, Other
<1>7. CASE cur = "Sec"
  <2>1. GetMetadata' = "Main" /\ Other(cur) = "Main"
    BY <1>3, <1>4, <1>7 DEF GetMetadata, Other
  <2> QED BY <1>4, <1>5, <1>6, <2>1
<1>8. CASE cur = "Main"
  <2>1. GetMetadata' = cur
    BY <1>2, <1>4, <1>8 DEF GetMetadata
  <2>2. SameRecord
    BY <1>1, <1>4, <2>1 DEF SameRecord, GetCurrentCounter
  <2> QED BY <1>6, <2>2
<1> QED BY <1>2, <1>7, <1>8 DEF Names

LEMMA OldPageExpired ==
    ASSUME PagesInv, RecordInv, ExpireOld
    PROVE  CountsInv' /\ Fresh
<1> DEFINE q == [page[cur] EXCEPT !.notExpired = Program(@, "zero")]
           n == page[Other(cur)]
<1>1. /\ pc = "expire" /\ page' = [page EXCEPT ![cur] = q]
      /\ loc' = loc /\ cur' = cur
  BY DEF RecordInv, NewPageInv, ExpireOld, FlashStep, ram
<1>2. /\ cur \in Names /\ Other(cur) \in Names /\ Other(cur) # cur
      /\ page \in [Names -> Page]
  BY <1>1 DEF PagesInv, TypeOK, Names, Other
<1>3. /\ n \in Page /\ IsMetadataValid(n) /\ n.multiplier = 0 /\ n.location = loc
      /\ \A s \in 0 .. Slots - 1 : ~n.zeroed[s]
  BY <1>1, <1>2 DEF PagesInv, SetMetadataPageInv, RecordInv, NewPageInv
<1>4. /\ q.valid = page[cur].valid /\ q.zeroed = page[cur].zeroed
      /\ q.multiplier = page[cur].multiplier /\ q.notExpired # Blank
  BY <1>2, BlankAssumption DEF Page, Program
<1> HIDE DEF q, n
<1>5. page'[Other(cur)] = n /\ page'[cur] = q
  BY <1>1, <1>2 DEF n
<1>6. CountsInv'
  BY <1>2, <1>4, <1>5 DEF RecordInv, CountsInv, Names, Other, n
<1>7. GetMetadata' = Other(cur)
  BY <1>2, <1>3, <1>4, <1>5 DEF GetMetadata, IsMetadataValid, Names, Other
<1>8. Fresh
  BY <1>3, <1>5, <1>7, FreshPage
<1> QED BY <1>6, <1>8

\* One more step.
Counted ==
    /\ page'[GetMetadata'].location = page[GetMetadata].location
    /\ GetCurrentCounter' = GetCurrentCounter + 1

LEMMA SlotWritten ==
    ASSUME PagesInv, RecordInv, MaxCounter < Slots, WriteSlot
    PROVE  /\ CountsInv' /\ step =< GetCurrentCounter'
           /\ SameRecord \/ Counted
<1> DEFINE bits == page[cur].zeroed
           new == [bits EXCEPT ![step - 1] = TRUE]
           q == [page[cur] EXCEPT !.zeroed = new]
<1>1. pc = "slot" /\ cur = GetMetadata /\ mode = "update"
  BY DEF RecordInv, NewPageInv, PassInv, WriteSlot, FlashStep
<1>2. /\ cur \in Names /\ Other(cur) \in Names /\ Other(cur) # cur
      /\ IsMetadataValid(page[cur]) /\ page \in [Names -> Page]
      /\ page[cur].multiplier = 0 /\ Prefix(bits) /\ bits \in Bits
  <2>1. /\ cur \in Names /\ Other(cur) \in Names /\ Other(cur) # cur
        /\ IsMetadataValid(page[cur]) /\ page \in [Names -> Page]
    BY <1>1, CurrentPage DEF PagesInv, TypeOK, Names, Other
  <2> QED BY <2>1 DEF RecordInv, CountsInv, IsMetadataValid, Page, Bits
<1>3. step \in Nat /\ step - 1 \in 0 .. Slots - 2 /\ step - 1 < Slots
  BY <1>1, BoundAssumption DEF PagesInv, StepInv, TypeOK
<1>4. ZeroWord(page[cur], step - 1) = q
  <2>1. ZeroWord(page[cur], step - 1) = [page[cur] EXCEPT !.zeroed[step - 1] = TRUE]
    BY <1>3, BoundAssumption DEF ZeroWord
  <2> QED BY <2>1
<1>5. page' = [page EXCEPT ![cur] = q]
  BY <1>4 DEF WriteSlot
<1>6. GetCurrentCounter = LeadingZeros(bits) /\ LeadingZeros(bits) \in Nat
  BY <1>1, CounterIsCount DEF RecordInv
<1>7. step - 1 =< LeadingZeros(bits)
  BY <1>1, <1>6 DEF RecordInv, PassInv
<1>8. /\ new \in Bits /\ Prefix(new)
      /\ step - 1 < LeadingZeros(bits) => new = bits
      /\ step - 1 = LeadingZeros(bits) => LeadingZeros(new) = LeadingZeros(bits) + 1
  <2> HIDE DEF bits
  <2> QED BY <1>2, <1>3, <1>7, ZeroSlot
<1>9. /\ q.zeroed = new /\ q.multiplier = 0 /\ q.location = page[cur].location
      /\ IsMetadataValid(q)
  BY <1>2 DEF Page, IsMetadataValid
<1> HIDE DEF q, new
<1>10. page'[cur] = q /\ page'[Other(cur)] = page[Other(cur)]
  BY <1>2, <1>5
<1>11. GetMetadata' = cur
  BY <1>1, <1>2, <1>9, <1>10 DEF GetMetadata, Names, Other
<1>12. CountsInv'
  BY <1>2, <1>8, <1>9, <1>10 DEF RecordInv, CountsInv, Names, Other
<1>13. LeadingZeros(new) \in Nat
  BY <1>8, LeadingZerosType DEF Bits
<1>14. GetCurrentCounter' = LeadingZeros(new)
  BY <1>9, <1>10, <1>11, <1>13, BoundAssumption DEF GetCurrentCounter
<1>15. page'[GetMetadata'].location = page[GetMetadata].location
  BY <1>1, <1>9, <1>10, <1>11
<1> HIDE DEF bits
<1>16. CASE step - 1 < LeadingZeros(bits)
  BY <1>16, <1>3, <1>6, <1>8, <1>12, <1>14, <1>15 DEF SameRecord
<1>17. CASE step - 1 = LeadingZeros(bits)
  BY <1>17, <1>3, <1>6, <1>8, <1>12, <1>14, <1>15 DEF Counted
<1> QED BY <1>3, <1>6, <1>7, <1>16, <1>17

-----------------------------------------------------------------------------
(* Every step preserves the invariant and is a step of the record. *)

RecordStep == SameRecord \/ Fresh \/ Counted

\* The first three commands of setMetadataPage.
LEMMA UnmarkedStep ==
    ASSUME PagesInv, RecordInv, EraseNew \/ WriteLocation \/ WriteMultiplier
    PROVE  RecordInv' /\ SameRecord
<1>0. /\ cur = GetMetadata /\ cur' = cur /\ loc' = loc /\ mult' = mult /\ mode' = mode
      /\ cur \in Names /\ Other(cur) \in Names /\ Other(cur) # cur
      /\ page \in [Names -> Page] /\ pc' \notin {"slot", "idle", "expire"} /\ pc # "idle"
      /\ pc # "slot"
  BY DEF PagesInv, TypeOK, RecordInv, NewPageInv, EraseNew, WriteLocation, WriteMultiplier,
         FlashStep, ram, Names, Other
<1>1. PassInv'
  BY <1>0 DEF RecordInv, PassInv
<1>2. CASE EraseNew
  <2>1. /\ page' = [page EXCEPT ![Other(cur)] = ErasedPage] /\ pc' = "location"
        /\ ErasedPage.valid # "VALID" /\ ErasedPage.location = Blank
        /\ ErasedPage.multiplier = Blank
        /\ \A s \in 0 .. Slots - 1 : ~ErasedPage.zeroed[s]
    BY <1>2, BlankAssumption DEF EraseNew, FlashStep, ErasedPage, MetadataPage
  <2>2. CountsInv' /\ SameRecord /\ GetMetadata' = GetMetadata /\ page'[Other(cur)] = ErasedPage
    BY <1>0, <2>1, OtherPageWritten DEF RecordInv
  <2>3. NewPageInv'
    BY <1>0, <2>1, <2>2 DEF RecordInv, NewPageInv, Other
  <2> QED BY <1>1, <2>2, <2>3 DEF RecordInv
<1>3. CASE WriteLocation
  <2> DEFINE q == [page[Other(cur)] EXCEPT !.location = Program(@, loc)]
  <2>1. page' = [page EXCEPT ![Other(cur)] = q] /\ pc = "location" /\ pc' = "multiplier"
    BY <1>3 DEF WriteLocation, FlashStep
  <2>2. /\ q.valid # "VALID" /\ q.location = loc /\ q.multiplier = Blank
        /\ \A s \in 0 .. Slots - 1 : ~q.zeroed[s]
    BY <1>0, <2>1, BlankAssumption DEF PagesInv, SetMetadataPageInv, RecordInv, NewPageInv,
                                       Program, Page
  <2> HIDE DEF q
  <2>3. CountsInv' /\ SameRecord /\ GetMetadata' = GetMetadata /\ page'[Other(cur)] = q
    BY <1>0, <2>1, <2>2, OtherPageWritten DEF RecordInv
  <2>4. NewPageInv'
    BY <1>0, <2>1, <2>2, <2>3 DEF RecordInv, NewPageInv, Other
  <2> QED BY <1>1, <2>3, <2>4 DEF RecordInv
<1>4. CASE WriteMultiplier
  <2> DEFINE q == [page[Other(cur)] EXCEPT !.multiplier = Program(@, mult)]
  <2>1. page' = [page EXCEPT ![Other(cur)] = q] /\ pc = "multiplier" /\ pc' = "valid"
    BY <1>4 DEF WriteMultiplier, FlashStep
  <2>2. /\ q.valid # "VALID" /\ q.location = loc /\ q.multiplier = 0
        /\ \A s \in 0 .. Slots - 1 : ~q.zeroed[s]
    BY <1>0, <2>1, BlankAssumption DEF PagesInv, SetMetadataPageInv, RecordInv, NewPageInv,
                                       Program, Page
  <2> HIDE DEF q
  <2>3. CountsInv' /\ SameRecord /\ GetMetadata' = GetMetadata /\ page'[Other(cur)] = q
    BY <1>0, <2>1, <2>2, OtherPageWritten DEF RecordInv
  <2>4. NewPageInv'
    BY <1>0, <2>1, <2>2, <2>3 DEF RecordInv, NewPageInv, Other
  <2> QED BY <1>1, <2>3, <2>4 DEF RecordInv
<1> QED BY <1>2, <1>3, <1>4

LEMMA MarkingStep ==
    ASSUME PagesInv, RecordInv, MaxCounter < Slots, WriteValid \/ ExpireOld \/ WriteSlot
    PROVE  RecordInv' /\ RecordStep
<1>0. /\ cur' = cur /\ loc' = loc /\ mult' = mult /\ mode' = mode /\ step' = step
      /\ old' = old /\ ff' = ff /\ dry' = dry /\ part' = part
      /\ cur \in Names /\ Other(cur) \in Names /\ Other(cur) # cur
      /\ page \in [Names -> Page]
  BY DEF PagesInv, TypeOK, WriteValid, ExpireOld, WriteSlot, FlashStep, ram, Names, Other
<1>1. CASE WriteValid
  <2>1. /\ CountsInv' /\ RecordStep /\ pc = "valid" /\ pc' = "expire"
    BY <1>1, MarkWritten DEF RecordStep, WriteValid, FlashStep
  <2>2. PassInv'
    BY <1>0, <2>1 DEF RecordInv, PassInv
  <2>3. /\ page'[Other(cur)].zeroed = page[Other(cur)].zeroed
        /\ page'[Other(cur)].location = page[Other(cur)].location
        /\ page'[Other(cur)].multiplier = page[Other(cur)].multiplier
    BY <1>0, <1>1 DEF WriteValid, Page
  <2>4. NewPageInv'
    BY <1>0, <2>1, <2>3 DEF RecordInv, NewPageInv, Other
  <2> QED BY <2>1, <2>2, <2>4 DEF RecordInv
<1>2. CASE ExpireOld
  <2>1. CountsInv' /\ RecordStep /\ pc = "expire" /\ pc' = "idle"
    BY <1>2, OldPageExpired DEF RecordStep, ExpireOld, FlashStep
  <2>2. mode # "update"
    BY <2>1 DEF RecordInv, PassInv
  <2>3. PassInv' /\ NewPageInv'
    BY <1>0, <2>1, <2>2 DEF RecordInv, PassInv, NewPageInv
  <2> QED BY <2>1, <2>3 DEF RecordInv
<1>3. CASE WriteSlot
  <2>1. /\ CountsInv' /\ step =< GetCurrentCounter' /\ (SameRecord \/ Counted)
        /\ pc = "slot" /\ pc' = "idle"
    BY <1>3, SlotWritten DEF WriteSlot, FlashStep
  <2>2. GetCurrentCounter \in Nat
    BY CounterIsCount DEF RecordInv
  <2>3. GetCurrentCounter' \in {GetCurrentCounter, GetCurrentCounter + 1}
    BY <2>1 DEF SameRecord, Counted
  <2>4. mode = "update" /\ ~Skipping /\ ~Skipping' /\ old \in Nat /\ step \in Nat
    BY <1>0, <2>1 DEF RecordInv, PassInv, Skipping, PagesInv, TypeOK
  <2>5. PassInv'
    BY <1>0, <2>1, <2>2, <2>3, <2>4 DEF RecordInv, PassInv
  <2>6. NewPageInv'
    BY <1>0, <2>1 DEF RecordInv, NewPageInv
  <2> QED BY <2>1, <2>5, <2>6 DEF RecordInv, RecordStep
<1> QED BY <1>1, <1>2, <1>3

\* A counter below Slots never overflows the bit field.
LEMMA NoOverflow ==
    ASSUME NEW c \in Nat, c > 0, c < Slots
    PROVE  ~Overflows(c)
BY BoundAssumption DEF Overflows

\* A call of setMetadataPage outside a pass.
LEMMA CallRecordStep ==
    ASSUME PagesInv, RecordInv, NEW location, mode' # "update",
           CallSetMetadataPage(GetMetadata, location, 0)
    PROVE  RecordInv' /\ RecordStep
<1>1. page' = page /\ pc' = "erase" /\ mult' = 0 /\ cur' = GetMetadata
  BY DEF CallSetMetadataPage
<1>2. CountsInv' /\ SameRecord /\ GetMetadata' = GetMetadata
  BY <1>1, PagesUntouched DEF RecordInv
<1>3. NewPageInv' /\ PassInv'
  BY <1>1, <1>2 DEF NewPageInv, PassInv
<1> QED BY <1>2, <1>3 DEF RecordInv, RecordStep

\* A step of the pass that writes no flash.
LEMMA PassStep ==
    ASSUME PagesInv, RecordInv, page' = page, mult' = mult, PassInv',
           pc' = "idle" \/ (pc' = "slot" /\ cur' = GetMetadata)
    PROVE  RecordInv' /\ RecordStep
<1>1. CountsInv' /\ SameRecord /\ GetMetadata' = GetMetadata
  BY PagesUntouched DEF RecordInv
<1>2. NewPageInv'
  BY <1>1 DEF RecordInv, NewPageInv
<1> QED BY <1>1, <1>2 DEF RecordInv, RecordStep

LEMMA RecordInvNext ==
    ASSUME PagesInv, RecordInv, MaxCounter < Slots, [Next]_vars
    PROVE  RecordInv' /\ RecordStep
<1>t. /\ step \in Nat /\ old \in Nat /\ ff \in BOOLEAN /\ dry \in BOOLEAN
      /\ step =< MaxCounter /\ MaxCounter \in Nat /\ Slots \in Nat
      /\ GetCurrentCounter \in Nat
  BY CounterIsCount, BoundAssumption DEF PagesInv, TypeOK, StepInv, RecordInv
<1>g. page' = page => GetCurrentCounter' = GetCurrentCounter
  BY PagesUntouched DEF RecordInv, SameRecord
<1>1. CASE EraseNew \/ WriteLocation \/ WriteMultiplier
  BY <1>1, UnmarkedStep DEF RecordStep
<1>2. CASE WriteValid \/ ExpireOld \/ WriteSlot
  BY <1>2, MarkingStep
<1>3. CASE \E l \in Locations : RequestUpdate(l)
  BY <1>3, CallRecordStep DEF RequestUpdate
<1>4. CASE StartFresh
  BY <1>4, CallRecordStep DEF StartFresh
<1>5. CASE IncrementOverflow
  <2>1. Overflows(step + 1) /\ step + 1 \in Nat /\ step + 1 > 0 /\ step + 1 < Slots
    BY <1>5, <1>t DEF IncrementOverflow
  <2> QED BY <2>1, NoOverflow
<1>6. CASE BootToApp \/ StartAgain \/ Conclude
  <2>1. /\ page' = page /\ mult' = mult /\ mode' # "update" /\ pc' = pc /\ cur' = cur
        /\ loc' = loc
    BY <1>6 DEF BootToApp, StartAgain, Conclude, ram
  <2>2. CountsInv' /\ SameRecord /\ GetMetadata' = GetMetadata
    BY <2>1, PagesUntouched DEF RecordInv
  <2>3. pc # "slot"
    BY <1>6 DEF RecordInv, PassInv, BootToApp, StartAgain, Conclude
  <2>4. PassInv' /\ NewPageInv'
    BY <2>1, <2>2, <2>3 DEF RecordInv, PassInv, NewPageInv, Other
  <2> QED BY <2>2, <2>4 DEF RecordInv, RecordStep
<1>7. CASE BeginDryRun
  <2>1. PassInv'
    BY <1>7, <1>t, <1>g DEF BeginDryRun, PassInv, Skipping
  <2> QED BY <1>7, <2>1, PassStep DEF BeginDryRun
<1>8. CASE BeginRealRun
  <2>1. PassInv'
    <3>1. /\ step' = 0 /\ dry' = FALSE /\ part' = "commands" /\ pc' = "idle"
          /\ mode' = "update" /\ old' = old /\ old =< GetCurrentCounter
          /\ GetCurrentCounter' = GetCurrentCounter
      BY <1>8, <1>g DEF BeginRealRun, RecordInv, PassInv
    <3>2. CASE old = 0
      <4>1. ff' = FALSE
        BY <1>8, <3>2 DEF BeginRealRun
      <4> QED BY <3>1, <3>2, <4>1, <1>t DEF PassInv, Skipping
    <3>3. CASE old # 0
      <4>1. ff' = TRUE
        BY <1>8, <3>3 DEF BeginRealRun
      <4> QED BY <3>1, <3>3, <4>1, <1>t DEF PassInv, Skipping
    <3> QED BY <3>2, <3>3
  <2> QED BY <1>8, <2>1, PassStep DEF BeginRealRun
<1>9. CASE BeginDelta
  <2>1. PassInv'
    BY <1>9, <1>t, <1>g DEF BeginDelta, RecordInv, PassInv, Skipping
  <2> QED BY <1>9, <2>1, PassStep DEF BeginDelta
<1>10. CASE IncrementFastForward
  <2>1. PassInv'
    <3>1. /\ step' = step + 1 /\ dry' = dry /\ ~dry /\ ff /\ part' = part /\ pc' = "idle"
          /\ mode' = "update" /\ mode = "update" /\ old' = old /\ old =< GetCurrentCounter
          /\ GetCurrentCounter' = GetCurrentCounter
          /\ step < GetCurrentCounter /\ (part = "delta" => step < old)
      BY <1>10, <1>g DEF IncrementFastForward, RecordInv, PassInv, Skipping
    <3>2. OldCounter \in Nat /\ old =< OldCounter /\ step < OldCounter
          /\ OldCounter =< GetCurrentCounter /\ (part = "delta" => OldCounter = old)
      BY <3>1, <1>t DEF OldCounter, PagesInv, TypeOK
    <3>3. CASE step + 1 = OldCounter
      <4>1. ff' = FALSE
        BY <1>10, <3>1, <3>3 DEF IncrementFastForward
      <4> QED BY <3>1, <3>2, <3>3, <4>1, <1>t DEF PassInv, Skipping
    <3>4. CASE step + 1 # OldCounter
      <4>1. ff' = TRUE
        BY <1>10, <3>1, <3>4 DEF IncrementFastForward
      <4> QED BY <3>1, <3>2, <3>4, <4>1, <1>t DEF PassInv, Skipping
    <3> QED BY <3>3, <3>4
  <2> QED BY <1>10, <2>1, PassStep DEF IncrementFastForward
<1>11. CASE IncrementSlot
  <2>1. PassInv'
    BY <1>11, <1>t, <1>g DEF IncrementSlot, RecordInv, PassInv, Skipping
  <2> QED BY <1>11, <2>1, PassStep DEF IncrementSlot
<1>12. CASE PowerLoss
  <2>1. page' = page /\ mult' = mult /\ mode' = "off" /\ pc' = "idle"
    BY <1>12 DEF PowerLoss, ram
  <2>2. PassInv'
    BY <2>1 DEF PassInv
  <2> QED BY <2>1, <2>2, PassStep
<1>13. CASE UNCHANGED vars
  <2>1. CountsInv' /\ SameRecord /\ GetMetadata' = GetMetadata
    BY <1>13, PagesUntouched DEF RecordInv, vars
  <2>2. NewPageInv'
    BY <1>13, <2>1 DEF vars, RecordInv, NewPageInv, Other
  <2>3. PassInv'
    BY <1>13, <1>g DEF vars, RecordInv, PassInv, Skipping
  <2> QED BY <2>1, <2>2, <2>3 DEF RecordInv, RecordStep
<1> QED BY <1>1, <1>2, <1>3, <1>4, <1>5, <1>6, <1>7, <1>8, <1>9, <1>10, <1>11, <1>12, <1>13
        DEF Next

-----------------------------------------------------------------------------
LEMMA InvariantAlways ==
    ASSUME MaxCounter < Slots
    PROVE  Spec => [](PagesInv /\ RecordInv)
<1>1. Init => PagesInv /\ RecordInv
  BY PagesInvInit, RecordInvInit
<1>2. PagesInv /\ RecordInv /\ [Next]_vars => (PagesInv /\ RecordInv)'
  <2>1. MaxCounter =< Slots + 2
    BY BoundAssumption
  <2> QED BY <2>1, PagesInvNext, RecordInvNext
<1> QED BY <1>1, <1>2, PTL DEF Spec

\* The two pages implement the record of DurableRecord: whatever flash command
\* power is lost after, location and counter change together, in one step, to
\* the values of a request, a restart or one more increment.
THEOREM PagesImplementRecord ==
    ASSUME MaxCounter < Slots
    PROVE  Spec => RecordSpec
<1>1. Init => Record!Init
  <2> SUFFICES ASSUME Init PROVE Record!Init
    OBVIOUS
  <2>1. PagesInv /\ RecordInv
    BY PagesInvInit, RecordInvInit
  <2>2. GetCurrentCounter = LeadingZeros(page[GetMetadata].zeroed)
    BY <2>1, CounterIsCount DEF RecordInv
  <2>3. GetMetadata = "Main" /\ page["Main"] = MetadataPage(Factory, 0, "VALID", Blank)
    BY DEF Init, GetMetadata, IsMetadataValid, MetadataPage, Names
  <2>4. LeadingZeros(page["Main"].zeroed) = 0
    <3>1. /\ page["Main"].zeroed \in Bits
          /\ \A s \in 0 .. Slots - 1 : ~page["Main"].zeroed[s]
      BY <2>3 DEF MetadataPage, Bits
    <3> QED BY <3>1, PrefixOfErased
  <2> QED BY <2>2, <2>3, <2>4 DEF Record!Init, MetadataPage
<1>2. PagesInv /\ RecordInv /\ [Next]_vars => [Record!Next]_(Record!vars)
  <2> SUFFICES ASSUME PagesInv, RecordInv, [Next]_vars
               PROVE  [Record!Next]_(Record!vars)
    OBVIOUS
  <2>1. RecordStep
    BY RecordInvNext
  <2>2. loc \in Locations
    BY DEF PagesInv, TypeOK
  <2>3. CASE SameRecord
    BY <2>3 DEF SameRecord, Record!vars
  <2>4. CASE Fresh
    BY <2>2, <2>4 DEF Fresh, Record!Next, Record!Request
  <2>5. CASE Counted
    BY <2>5 DEF Counted, Record!Next, Record!Advance
  <2> QED BY <2>1, <2>3, <2>4, <2>5 DEF RecordStep
<1> QED BY <1>1, <1>2, InvariantAlways, PTL DEF Spec, RecordSpec, Record!Spec

\* While steps are executed for real every step taken is in flash: a power loss does
\* not make the next boot repeat a finished step.
THEOREM NoStepLost ==
    ASSUME MaxCounter < Slots
    PROVE  Spec => []NoLostIncrement
<1>1. PagesInv /\ RecordInv => NoLostIncrement
  BY DEF RecordInv, PassInv, NoLostIncrement, Skipping
<1> QED BY <1>1, InvariantAlways, PTL

\* What is skipped and what is executed again after a power loss is decided by the
\* counter the loss left, although ERASE and applyDeltaPatch compare with different
\* values.
THEOREM FastForwardStops ==
    ASSUME MaxCounter < Slots
    PROVE  Spec => []FastForwardWithinCounter
<1>1. PagesInv /\ RecordInv => FastForwardWithinCounter
  BY DEF RecordInv, PassInv, FastForwardWithinCounter, Skipping
<1> QED BY <1>1, InvariantAlways, PTL
=============================================================================
