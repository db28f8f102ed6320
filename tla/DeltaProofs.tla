------------------------------ MODULE DeltaProofs ------------------------------
(***************************************************************************)
(* Proofs about Delta, for every delta, image, block size, word size,      *)
(* value of the counter and number of power losses.                        *)
(*                                                                         *)
(* First the operators of executeBSDiffPatch: the words before a           *)
(* sub-segment and the sub-segment a word belongs to, and what n passes    *)
(* over a page do (PatchedPage).  They are defined by recursion, so their  *)
(* lemmas go by induction, which follows from the least element of a set   *)
(* of natural numbers.  Then the steps: DeltaInv says that the counter in  *)
(* flash alone tells what the page and its saved copy hold, and that the   *)
(* program is always at the place of the delta its own count of steps      *)
(* tells.                                                                  *)
(***************************************************************************)
EXTENDS Delta, WellFoundedInduction, TLAPS

Word == 0 .. WordSize - 1
Page == [Words -> Word]
Deltas == Seq([insert : BOOLEAN, data : Seq(Word)])

\* A set of natural numbers that is not empty has a least element.
LEMMA LeastNatural ==
    ASSUME NEW T, T \subseteq Nat, T # {}
    PROVE  \E x \in T : \A y \in T : x =< y
<1>1. PICK x \in T : \A y \in T : ~(<<y, x>> \in OpToRel(<, Nat))
  BY NatLessThanWellFounded, WFMin, Zenon
<1>2. ASSUME NEW y \in T PROVE x =< y
  <2>1. ~(y < x)
    BY <1>1 DEF OpToRel
  <2> QED BY <2>1
<1> QED BY <1>2

\* Induction on the natural numbers, for a set of them.
LEMMA Induction ==
    ASSUME NEW S, 0 \in S, \A n \in Nat : n \in S => n + 1 \in S
    PROVE  Nat \subseteq S
<1> SUFFICES ASSUME Nat \ S # {} PROVE FALSE
  OBVIOUS
<1>1. PICK n \in Nat \ S : \A m \in Nat \ S : n =< m
  BY LeastNatural
<1>2. n # 0 /\ n - 1 \in Nat /\ n - 1 \in S
  BY <1>1
<1> QED BY <1>2, n - 1 + 1 = n

-----------------------------------------------------------------------------
(* WordsBefore. *)

\* What a delta is made of.
LEMMA DeltaTypes ==
    ASSUME NEW delta \in Deltas
    PROVE  /\ Len(delta) \in Nat
           /\ \A i \in 1 .. Len(delta) :
                 /\ delta[i].insert \in BOOLEAN /\ Len(delta[i].data) \in Nat
                 /\ \A o \in 0 .. Len(delta[i].data) - 1 : delta[i].data[o + 1] \in Word
<1>1. Len(delta) \in Nat
  BY DEF Deltas
<1>2. ASSUME NEW i \in 1 .. Len(delta)
      PROVE  /\ delta[i].insert \in BOOLEAN /\ Len(delta[i].data) \in Nat
             /\ \A o \in 0 .. Len(delta[i].data) - 1 : delta[i].data[o + 1] \in Word
  <2> DEFINE Segment == [insert : BOOLEAN, data : Seq(Word)]
  <2>0. delta \in Seq(Segment)
    BY DEF Deltas
  <2>1. delta[i] \in Segment
    <3> HIDE DEF Segment
    <3> QED BY <2>0
  <2>2. delta[i].data \in Seq(Word) /\ delta[i].insert \in BOOLEAN
    BY <2>1
  <2>3. ASSUME NEW o \in 0 .. Len(delta[i].data) - 1 PROVE delta[i].data[o + 1] \in Word
    <3>1. o + 1 \in 1 .. Len(delta[i].data)
      BY <2>2
    <3> QED BY <3>1, <2>2
  <2> QED BY <2>2, <2>3
<1> QED BY <1>1, <1>2

\* n solves the recursion that defines WordsBefore(delta, i).
Counts(n, delta, i) ==
    n = [j \in 0 .. i |-> IF j = 0 THEN 0 ELSE n[j - 1] + Len(delta[j].data)]

\* It has a solution,
LEMMA CountsExist ==
    ASSUME NEW delta \in Deltas
    PROVE  \A i \in 0 .. Len(delta) : \E n : Counts(n, delta, i) /\ n \in [0 .. i -> Nat]
<1> DEFINE Done(i) == \E n : Counts(n, delta, i) /\ n \in [0 .. i -> Nat]
           S == {i \in Nat : i =< Len(delta) => Done(i)}
<1>1. 0 \in S
  <2>1. Counts([j \in 0 .. 0 |-> 0], delta, 0)
    BY DEF Counts
  <2>2. [j \in 0 .. 0 |-> 0] \in [0 .. 0 -> Nat]
    OBVIOUS
  <2> QED BY <2>1, <2>2
<1>2. ASSUME NEW i \in Nat, i \in S PROVE i + 1 \in S
  <2> SUFFICES ASSUME i + 1 =< Len(delta) PROVE Done(i + 1)
    OBVIOUS
  <2>1. PICK n : Counts(n, delta, i) /\ n \in [0 .. i -> Nat]
    BY <1>2
  <2>2. Len(delta[i + 1].data) \in Nat
    BY i + 1 \in 1 .. Len(delta) DEF Deltas
  <2> DEFINE m == [j \in 0 .. i + 1 |->
                     IF j = i + 1 THEN n[i] + Len(delta[i + 1].data) ELSE n[j]]
  <2>3. m \in [0 .. i + 1 -> Nat]
    BY <2>1, <2>2
  <2>4. \A j \in 0 .. i + 1 : m[j] = IF j = 0 THEN 0 ELSE m[j - 1] + Len(delta[j].data)
    BY <2>1 DEF Counts
  <2>5. Counts(m, delta, i + 1)
    <3> HIDE DEF m
    <3> QED BY <2>3, <2>4 DEF Counts
  <2> QED BY <2>3, <2>5
<1>3. Nat \subseteq S
  <2> HIDE DEF S
  <2> QED BY <1>1, <1>2, Induction
<1> QED BY <1>3

\* and one only.
LEMMA CountsUnique ==
    ASSUME NEW delta, NEW i \in Nat, NEW k \in Nat, i =< k,
           NEW n, Counts(n, delta, i), NEW m, Counts(m, delta, k)
    PROVE  \A j \in 0 .. i : n[j] = m[j]
<1> DEFINE S == {j \in Nat : j =< i => n[j] = m[j]}
<1>1. 0 \in S
  BY DEF Counts
<1>2. ASSUME NEW j \in Nat, j \in S PROVE j + 1 \in S
  <2> SUFFICES ASSUME j + 1 =< i PROVE n[j + 1] = m[j + 1]
    OBVIOUS
  <2>1. n[j] = m[j]
    BY <1>2
  <2>2. n[j + 1] = n[j] + Len(delta[j + 1].data)
    BY j + 1 \in 0 .. i, j + 1 - 1 = j DEF Counts
  <2>3. m[j + 1] = m[j] + Len(delta[j + 1].data)
    BY j + 1 \in 0 .. k, j + 1 - 1 = j DEF Counts
  <2> QED BY <2>1, <2>2, <2>3
<1>3. Nat \subseteq S
  <2> HIDE DEF S
  <2> QED BY <1>1, <1>2, Induction
<1> QED BY <1>3

\* So WordsBefore adds the length of one sub-segment after the other.
LEMMA WordsBeforeStep ==
    ASSUME NEW delta \in Deltas
    PROVE  /\ WordsBefore(delta, 0) = 0
           /\ \A i \in 0 .. Len(delta) : WordsBefore(delta, i) \in Nat
           /\ \A i \in 1 .. Len(delta) :
                 WordsBefore(delta, i) = WordsBefore(delta, i - 1) + Len(delta[i].data)
<1> DEFINE m(i) == CHOOSE n : Counts(n, delta, i)
<1>1. ASSUME NEW i \in 0 .. Len(delta)
      PROVE  Counts(m(i), delta, i) /\ m(i) \in [0 .. i -> Nat] /\ WordsBefore(delta, i) = m(i)[i]
  <2>1. PICK n : Counts(n, delta, i) /\ n \in [0 .. i -> Nat]
    BY CountsExist
  <2>2. Counts(m(i), delta, i)
    BY <2>1, Zenon
  <2>3. WordsBefore(delta, i) = m(i)[i]
    BY Zenon DEF WordsBefore, Counts
  <2>4. m(i) \in [0 .. i -> Nat]
    <3> HIDE DEF m
    <3>0. i \in Nat
      OBVIOUS
    <3>1. \A j \in 0 .. i : m(i)[j] = n[j]
      BY <3>0, <2>1, <2>2, CountsUnique
    <3>2. m(i) = [j \in 0 .. i |-> m(i)[j]]
      BY <2>2 DEF Counts
    <3>3. \A j \in 0 .. i : m(i)[j] \in Nat
      BY <2>1, <3>1
    <3> QED BY <3>2, <3>3
  <2> QED BY <2>2, <2>3, <2>4
<1> HIDE DEF m
<1>2. ASSUME NEW i \in 1 .. Len(delta)
      PROVE  WordsBefore(delta, i) = WordsBefore(delta, i - 1) + Len(delta[i].data)
  <2>0. i \in 0 .. Len(delta) /\ i - 1 \in 0 .. Len(delta) /\ i \in Nat /\ i - 1 \in Nat
    OBVIOUS
  <2>1. Counts(m(i), delta, i) /\ Counts(m(i - 1), delta, i - 1)
    BY <2>0, <1>1
  <2>2. m(i)[i] = m(i)[i - 1] + Len(delta[i].data)
    BY <2>0, <2>1 DEF Counts
  <2>3. m(i - 1)[i - 1] = m(i)[i - 1]
    BY <2>0, <2>1, CountsUnique
  <2> QED BY <2>0, <2>2, <2>3, <1>1
<1>3. WordsBefore(delta, 0) = 0
  <2>1. 0 \in 0 .. Len(delta)
    BY DEF Deltas
  <2>2. m(0)[0] = 0
    BY <2>1, <1>1 DEF Counts
  <2> QED BY <1>1, <2>1, <2>2
<1>4. \A i \in 0 .. Len(delta) : WordsBefore(delta, i) \in Nat
  BY <1>1
<1> QED BY <1>2, <1>3, <1>4

\* Later sub-segments begin later.
LEMMA WordsBeforeMonotone ==
    ASSUME NEW delta \in Deltas
    PROVE  \A i, k \in 0 .. Len(delta) :
               i =< k => WordsBefore(delta, i) =< WordsBefore(delta, k)
<1> SUFFICES ASSUME NEW i \in 0 .. Len(delta)
             PROVE  \A k \in 0 .. Len(delta) :
                        i =< k => WordsBefore(delta, i) =< WordsBefore(delta, k)
  OBVIOUS
<1> DEFINE S == {k \in Nat : i =< k /\ k =< Len(delta) =>
                                 WordsBefore(delta, i) =< WordsBefore(delta, k)}
<1>0. Len(delta) \in Nat /\ \A k \in 0 .. Len(delta) : WordsBefore(delta, k) \in Nat
  BY WordsBeforeStep, DeltaTypes
<1>1. 0 \in S
  BY <1>0
<1>2. ASSUME NEW k \in Nat, k \in S PROVE k + 1 \in S
  <2> SUFFICES ASSUME i =< k + 1, k + 1 =< Len(delta)
               PROVE  WordsBefore(delta, i) =< WordsBefore(delta, k + 1)
    OBVIOUS
  <2>1. CASE i = k + 1
    BY <2>1, <1>0
  <2>2. CASE i # k + 1
    <3>1. WordsBefore(delta, i) =< WordsBefore(delta, k)
      BY <2>2, <1>2, <1>0
    <3>2. WordsBefore(delta, k + 1) = WordsBefore(delta, k) + Len(delta[k + 1].data)
      BY WordsBeforeStep, k + 1 \in 1 .. Len(delta), k + 1 - 1 = k
    <3>3. Len(delta[k + 1].data) \in Nat
      BY k + 1 \in 1 .. Len(delta), DeltaTypes
    <3>4. k \in 0 .. Len(delta) /\ k + 1 \in 0 .. Len(delta)
      BY <1>0
    <3> QED BY <3>1, <3>2, <3>3, <3>4, <1>0
  <2> QED BY <2>1, <2>2
<1>3. Nat \subseteq S
  <2> HIDE DEF S
  <2> QED BY <1>1, <1>2, Induction
<1> QED BY <1>3, <1>0

\* A word of a sub-segment of the delta is patched with the data of that one.
LEMMA PatchedWordIs ==
    ASSUME NEW delta \in Deltas, NEW i \in 1 .. Len(delta), NEW o \in 0 .. Len(delta[i].data) - 1,
           NEW word
    PROVE  PatchedWord(delta, WordsBefore(delta, i - 1) + o, word) =
               IF delta[i].insert THEN delta[i].data[o + 1]
                                  ELSE (word + delta[i].data[o + 1]) % WordSize
<1> DEFINE k == WordsBefore(delta, i - 1) + o
           Holds(j) == WordsBefore(delta, j - 1) =< k /\ k < WordsBefore(delta, j)
<1>0. /\ Len(delta) \in Nat /\ \A j \in 0 .. Len(delta) : WordsBefore(delta, j) \in Nat
      /\ Len(delta[i].data) \in Nat
  BY WordsBeforeStep, DeltaTypes
<1>1. Holds(i)
  <2>1. WordsBefore(delta, i) = WordsBefore(delta, i - 1) + Len(delta[i].data)
    BY WordsBeforeStep
  <2>2. i \in 0 .. Len(delta) /\ i - 1 \in 0 .. Len(delta)
    BY <1>0
  <2>3. /\ WordsBefore(delta, i - 1) \in Nat /\ Len(delta[i].data) \in Nat /\ o \in Nat
        /\ o < Len(delta[i].data)
    BY <2>2, <1>0
  <2> QED BY <2>1, <2>3
<1>2. ASSUME NEW j \in 1 .. Len(delta), Holds(j) PROVE j = i
  <2>1. /\ i \in 0 .. Len(delta) /\ i - 1 \in 0 .. Len(delta)
        /\ j \in 0 .. Len(delta) /\ j - 1 \in 0 .. Len(delta)
    BY <1>0
  <2>2. /\ WordsBefore(delta, i) \in Nat /\ WordsBefore(delta, i - 1) \in Nat
        /\ WordsBefore(delta, j) \in Nat /\ WordsBefore(delta, j - 1) \in Nat /\ k \in Nat
    BY <2>1, <1>0
  <2> HIDE DEF k
  <2>3. ASSUME j < i PROVE FALSE
    <3>1. WordsBefore(delta, j) =< WordsBefore(delta, i - 1)
      BY <2>1, <2>3, WordsBeforeMonotone
    <3> QED BY <3>1, <2>2, <1>1, <1>2
  <2>4. ASSUME i < j PROVE FALSE
    <3>1. WordsBefore(delta, i) =< WordsBefore(delta, j - 1)
      BY <2>1, <2>4, WordsBeforeMonotone
    <3> QED BY <3>1, <2>2, <1>1, <1>2
  <2> QED BY <2>1, <2>3, <2>4
<1>3. (CHOOSE j \in 1 .. Len(delta) : Holds(j)) = i
  <2> HIDE DEF k
  <2> QED BY <1>1, <1>2
<1>4. k - WordsBefore(delta, i - 1) + 1 = o + 1
  BY <1>0
<1>5. PatchedWord(delta, k, word) =
          LET at == CHOOSE j \in 1 .. Len(delta) : Holds(j)
              d == delta[at].data[k - WordsBefore(delta, at - 1) + 1]
          IN  IF delta[at].insert THEN d ELSE (word + d) % WordSize
  <2> HIDE DEF k
  <2> QED BY Zenon DEF PatchedWord
<1>6. PatchedWord(delta, k, word) =
          IF delta[i].insert THEN delta[i].data[k - WordsBefore(delta, i - 1) + 1]
          ELSE (word + delta[i].data[k - WordsBefore(delta, i - 1) + 1]) % WordSize
  <2> HIDE DEF k, Holds
  <2> QED BY <1>3, <1>5, Zenon
<1> QED BY <1>4, <1>6

\* Every word of a delta belongs to one of its sub-segments.
LEMMA WordHasPlace ==
    ASSUME NEW delta \in Deltas, NEW k \in 0 .. WordsBefore(delta, Len(delta)) - 1
    PROVE  \E i \in 1 .. Len(delta) : \E o \in 0 .. Len(delta[i].data) - 1 :
               k = WordsBefore(delta, i - 1) + o
<1>0. Len(delta) \in Nat /\ \A j \in 0 .. Len(delta) : WordsBefore(delta, j) \in Nat
  BY WordsBeforeStep, DeltaTypes
<1> DEFINE T == {i \in 0 .. Len(delta) : k < WordsBefore(delta, i)}
<1>1. PICK i \in T : \A j \in T : i =< j
  <2>1. Len(delta) \in T
    BY <1>0
  <2>2. T \subseteq Nat
    BY <1>0
  <2> HIDE DEF T
  <2> QED BY <2>1, <2>2, LeastNatural
<1>2. k \in Nat /\ i # 0
  BY WordsBeforeStep, <1>1, <1>0
<1>3. i \in 1 .. Len(delta) /\ i - 1 \in 0 .. Len(delta) /\ i - 1 \notin T
  BY <1>0, <1>1, <1>2
<1>4. WordsBefore(delta, i - 1) =< k
  BY <1>0, <1>2, <1>3
<1>5. WordsBefore(delta, i) = WordsBefore(delta, i - 1) + Len(delta[i].data)
  BY <1>3, WordsBeforeStep
<1>6. Len(delta[i].data) \in Nat
  BY <1>3, DeltaTypes
<1>7. /\ k - WordsBefore(delta, i - 1) \in 0 .. Len(delta[i].data) - 1
      /\ k = WordsBefore(delta, i - 1) + (k - WordsBefore(delta, i - 1))
  <2>1. k < WordsBefore(delta, i)
    BY <1>1
  <2>2. WordsBefore(delta, i - 1) \in Nat /\ k \in Nat
    BY <1>0, <1>2, <1>3
  <2> QED BY ONLY <2>1, <2>2, <1>4, <1>5, <1>6
<1> QED BY <1>3, <1>7

\* A word stays a word.
LEMMA PatchedWordType ==
    ASSUME WordSize > 0, NEW delta \in Deltas,
           NEW k \in 0 .. WordsBefore(delta, Len(delta)) - 1, NEW word \in Word
    PROVE  PatchedWord(delta, k, word) \in Word
<1>0. PICK i \in 1 .. Len(delta) : \E o \in 0 .. Len(delta[i].data) - 1 :
          k = WordsBefore(delta, i - 1) + o
  BY WordHasPlace
<1>1. PICK o \in 0 .. Len(delta[i].data) - 1 : k = WordsBefore(delta, i - 1) + o
  BY <1>0
<1>3. delta[i].data[o + 1] \in Word
  BY DeltaTypes
<1>4. (word + delta[i].data[o + 1]) % WordSize \in Word
  <2>1. WordSize \in Nat /\ WordSize > 0
    BY GeometryAssumption
  <2>2. word \in Nat /\ delta[i].data[o + 1] \in Nat
    BY <1>3, <2>1 DEF Word
  <2>3. ASSUME NEW n \in Nat PROVE n % WordSize \in 0 .. WordSize - 1
    BY ONLY <2>1
  <2>4. word + delta[i].data[o + 1] \in Nat
    BY <2>2
  <2> QED BY <2>3, <2>4 DEF Word
<1> QED BY <1>1, <1>3, <1>4, PatchedWordIs
-----------------------------------------------------------------------------
(* PatchedPage. *)

\* One more pass over a page.
NextPage(delta, page, n) ==
    [w \in Words |-> IF n * BlockSize + w < WordsBefore(delta, Len(delta))
                     THEN PatchedWord(delta, n * BlockSize + w, page[w]) ELSE page[w]]

\* p solves the recursion that defines PatchedPage(delta, page, n).
PageSequence(p, delta, page, n) ==
    p = [j \in 0 .. n |->
          IF j = 0 THEN page
          ELSE [w \in Words |->
                  LET k == (j - 1) * BlockSize + w
                  IN  IF k < WordsBefore(delta, Len(delta))
                      THEN PatchedWord(delta, k, p[j - 1][w]) ELSE p[j - 1][w]]]

\* Each page of a solution is one pass after the one before.
LEMMA PagesStep ==
    ASSUME NEW delta, NEW page, NEW n \in Nat, NEW p, PageSequence(p, delta, page, n)
    PROVE  /\ p[0] = page
           /\ \A j \in Nat : j + 1 =< n => p[j + 1] = NextPage(delta, p[j], j)
<1> DEFINE Value(j) == IF j = 0 THEN page
                       ELSE [w \in Words |->
                               LET k == (j - 1) * BlockSize + w
                               IN  IF k < WordsBefore(delta, Len(delta))
                                   THEN PatchedWord(delta, k, p[j - 1][w]) ELSE p[j - 1][w]]
<1>1. \A j \in 0 .. n : p[j] = Value(j)
  BY Zenon DEF PageSequence
<1>2. p[0] = page
  <2>1. 0 \in 0 .. n
    OBVIOUS
  <2>2. Value(0) = page
    OBVIOUS
  <2> HIDE DEF Value
  <2> QED BY <1>1, <2>1, <2>2
<1>3. ASSUME NEW j \in Nat, j + 1 =< n PROVE p[j + 1] = NextPage(delta, p[j], j)
  <2>1. j + 1 - 1 = j /\ j + 1 # 0 /\ j + 1 \in 0 .. n
    BY <1>3
  <2>2. Value(j + 1) = NextPage(delta, p[j], j)
    BY <2>1 DEF NextPage
  <2> HIDE DEF Value
  <2> QED BY <1>1, <2>1, <2>2
<1> QED BY <1>2, <1>3

\* There is one for every number of passes.
LEMMA PagesExist ==
    ASSUME NEW delta, NEW page
    PROVE  \A n \in Nat : \E p : PageSequence(p, delta, page, n)
<1> DEFINE S == {n \in Nat : \E p : PageSequence(p, delta, page, n)}
<1>1. 0 \in S
  <2>1. PageSequence([j \in 0 .. 0 |-> page], delta, page, 0)
    BY DEF PageSequence
  <2> QED BY <2>1
<1>2. ASSUME NEW n \in Nat, n \in S PROVE n + 1 \in S
  <2>1. PICK p : PageSequence(p, delta, page, n)
    BY <1>2
  <2> DEFINE q == [j \in 0 .. n + 1 |-> IF j = n + 1 THEN NextPage(delta, p[n], n) ELSE p[j]]
  <2>2. \A j \in 0 .. n + 1 : q[j] = IF j = 0 THEN page ELSE NextPage(delta, q[j - 1], j - 1)
    <3> SUFFICES ASSUME NEW j \in 0 .. n + 1
                 PROVE  q[j] = IF j = 0 THEN page ELSE NextPage(delta, q[j - 1], j - 1)
      OBVIOUS
    <3>1. CASE j = 0
      <4>1. p[0] = page
        BY <2>1, PagesStep
      <4> QED BY <3>1, <4>1
    <3>2. CASE j = n + 1
      BY <3>2
    <3>3. CASE j # 0 /\ j # n + 1
      <4>1. j - 1 \in Nat /\ j - 1 + 1 = j /\ j \in 0 .. n /\ j - 1 \in 0 .. n
        BY <3>3
      <4>2. p[j] = NextPage(delta, p[j - 1], j - 1)
        BY <4>1, <2>1, PagesStep
      <4>3. q[j] = p[j] /\ q[j - 1] = p[j - 1]
        BY <4>1, <3>3
      <4> QED BY <4>2, <4>3, <3>3
    <3> QED BY <3>1, <3>2, <3>3
  <2>3. q = [j \in 0 .. n + 1 |-> IF j = 0 THEN page ELSE NextPage(delta, q[j - 1], j - 1)]
    BY <2>2
  <2>4. PageSequence(q, delta, page, n + 1)
    <3> HIDE DEF q
    <3> QED BY <2>3, Zenon DEF PageSequence, NextPage
  <2> QED BY <2>4
<1>3. Nat \subseteq S
  <2> HIDE DEF S
  <2> QED BY <1>1, <1>2, Induction
<1> QED BY <1>3

\* PatchedPage adds one pass after the other.
LEMMA PatchedPageStep ==
    ASSUME NEW delta, NEW page
    PROVE  /\ PatchedPage(delta, page, 0) = page
           /\ \A n \in Nat : PatchedPage(delta, page, n + 1) =
                                 NextPage(delta, PatchedPage(delta, page, n), n)
<1> DEFINE m(n) == CHOOSE p : PageSequence(p, delta, page, n)
<1>1. ASSUME NEW n \in Nat
      PROVE  PageSequence(m(n), delta, page, n) /\ PatchedPage(delta, page, n) = m(n)[n]
  <2>1. PageSequence(m(n), delta, page, n)
    BY PagesExist, Zenon
  <2>2. PatchedPage(delta, page, n) = m(n)[n]
    BY Zenon DEF PatchedPage, PageSequence
  <2> QED BY <2>1, <2>2
<1> HIDE DEF m
<1>2. PatchedPage(delta, page, 0) = page
  BY <1>1, PagesStep, 0 \in Nat
<1>3. ASSUME NEW n \in Nat
      PROVE  PatchedPage(delta, page, n + 1) = NextPage(delta, PatchedPage(delta, page, n), n)
  <2> DEFINE S == {j \in Nat : j =< n => m(n)[j] = m(n + 1)[j]}
  <2>1. 0 \in S
    <3>1. n + 1 \in Nat
      OBVIOUS
    <3>2. m(n)[0] = page /\ m(n + 1)[0] = page
      BY <3>1, <1>1, PagesStep
    <3> QED BY <3>1, <3>2
  <2>2. ASSUME NEW j \in Nat, j \in S PROVE j + 1 \in S
    <3> SUFFICES ASSUME j + 1 =< n PROVE m(n)[j + 1] = m(n + 1)[j + 1]
      OBVIOUS
    <3>1. n + 1 \in Nat /\ j + 1 =< n + 1 /\ j =< n
      OBVIOUS
    <3>2. m(n)[j] = m(n + 1)[j]
      BY <3>1, <2>2
    <3>3. m(n)[j + 1] = NextPage(delta, m(n)[j], j)
      BY <3>1, <1>1, PagesStep
    <3>4. m(n + 1)[j + 1] = NextPage(delta, m(n + 1)[j], j)
      BY <3>1, <1>1, PagesStep
    <3> QED BY <3>2, <3>3, <3>4
  <2>3. Nat \subseteq S
    <3> HIDE DEF S
    <3> QED BY <2>1, <2>2, Induction
  <2>4. m(n)[n] = m(n + 1)[n]
    BY <2>3
  <2>5. m(n + 1)[n + 1] = NextPage(delta, m(n + 1)[n], n)
    <3>1. n + 1 \in Nat /\ n + 1 =< n + 1
      OBVIOUS
    <3>2. PageSequence(m(n + 1), delta, page, n + 1)
      BY <3>1, <1>1
    <3> QED BY <3>1, <3>2, PagesStep
  <2> QED BY <1>1, <2>4, <2>5
<1> QED BY <1>2, <1>3

\* A page stays a page.
LEMMA PatchedPageType ==
    ASSUME WordSize > 0, NEW delta \in Deltas, NEW page \in Page
    PROVE  \A n \in Nat : PatchedPage(delta, page, n) \in Page
<1> DEFINE S == {n \in Nat : PatchedPage(delta, page, n) \in Page}
<1>1. 0 \in S
  BY PatchedPageStep
<1>2. ASSUME NEW n \in Nat, n \in S PROVE n + 1 \in S
  <2> DEFINE p == PatchedPage(delta, page, n)
  <2>1. p \in Page
    BY <1>2
  <2>2. ASSUME NEW w \in Words, n * BlockSize + w < WordsBefore(delta, Len(delta))
        PROVE  PatchedWord(delta, n * BlockSize + w, p[w]) \in Word
    <3>1. WordsBefore(delta, Len(delta)) \in Nat
      BY WordsBeforeStep, DeltaTypes
    <3>2. n * BlockSize \in Nat /\ w \in Nat
      BY GeometryAssumption DEF Words
    <3>3. n * BlockSize + w \in 0 .. WordsBefore(delta, Len(delta)) - 1
      BY <2>2, <3>1, <3>2
    <3> QED BY <3>3, <2>1, PatchedWordType DEF Page
  <2>3. NextPage(delta, p, n) \in Page
    <3> HIDE DEF p
    <3> QED BY <2>1, <2>2 DEF NextPage, Page
  <2>4. PatchedPage(delta, page, n + 1) = NextPage(delta, p, n)
    <3> QED BY Zenon, PatchedPageStep
  <2>5. PatchedPage(delta, page, n + 1) \in Page
    <3> HIDE DEF p
    <3> QED BY ONLY <2>3, <2>4
  <2> QED BY <2>5
<1>3. Nat \subseteq S
  <2> HIDE DEF S
  <2> QED BY <1>1, <1>2, Induction
<1> QED BY <1>3

\* Past the end of the delta, a pass changes nothing.
LEMMA PatchedPagePast ==
    ASSUME WordSize > 0, NEW delta \in Deltas, NEW page \in Page, NEW n \in Nat,
           WordsBefore(delta, Len(delta)) =< n * BlockSize
    PROVE  PatchedPage(delta, page, n + 1) = PatchedPage(delta, page, n)
<1>1. PatchedPage(delta, page, n) \in Page
  BY PatchedPageType
<1>2. WordsBefore(delta, Len(delta)) \in Nat /\ n * BlockSize \in Nat
  BY WordsBeforeStep, DeltaTypes, GeometryAssumption
<1>3. ASSUME NEW w \in Words PROVE ~(n * BlockSize + w < WordsBefore(delta, Len(delta)))
  BY <1>2 DEF Words
<1>4. NextPage(delta, PatchedPage(delta, page, n), n) = PatchedPage(delta, page, n)
  BY <1>1, <1>3 DEF NextPage, Page
<1>5. PatchedPage(delta, page, n + 1) = NextPage(delta, PatchedPage(delta, page, n), n)
  BY PatchedPageStep
<1> QED BY ONLY <1>4, <1>5

\* A page is being saved and erased.
Opening == {"s_erase", "s_write", "second", "p_erase"}

\* The backup pages may hold anything, words of the flash or not.
ArePages(b) == b = [i \in 1 .. 2 |-> b[i]] /\ \A i \in 1 .. 2 : b[i] = [w \in Words |-> b[i][w]]

TypeOK ==
    /\ mem \in [Blocks -> Page] /\ ArePages(backup) /\ counter \in Nat
    /\ patch \in Patches /\ start \in Starts /\ before \in StepsBefore /\ image \in Images
    /\ pc \in Opening \cup {"off", "loop", "done"} /\ pos \in Words
    /\ sub \in 1 .. Len(patch) + 1 /\ subOff \in Nat /\ outOff \in 0 .. BlockSize
    /\ havePage \in BOOLEAN /\ ff \in BOOLEAN
    /\ step \in Nat /\ old \in Nat /\ dry = FALSE /\ losses \in Nat

\* The page that begins at word k of the delta is patched.
Opens(k) == k < Total \/ k =< WordsBefore(patch, Len(patch) - 1)

\* The counter goes no further than the delta.
CounterInv ==
    /\ counter >= before
    /\ counter > before => Len(patch) > 0
    /\ \A j \in 0 .. counter :
          /\ counter >= before + 2 * j + 1 => j * BlockSize =< Total
          /\ counter >= before + 2 * j + 2 => Opens(j * BlockSize)

\* What the flash holds follows from the counter: after an odd number of
\* steps the page is complete, after an even one its copy is.
FlashInv ==
    /\ \A b \in Blocks \ {start} : mem[b] = image[b]
    /\ counter = before => /\ mem[start] = image[start]
                           /\ Len(patch) = 0 => backup = [b \in 1 .. 2 |-> ErasedPage]
    /\ \A j \in 0 .. counter :
          /\ counter = before + 2 * j + 1 => mem[start] = Patched(j)
          /\ counter = before + 2 * j + 2 => backup[GetBuffer(counter - 1)] = Patched(j)

ResumeInv ==
    pc # "off" => IF ff THEN step < counter /\ old = counter ELSE step = counter

\* Words of the delta that are consumed.
Consumed == WordsBefore(patch, sub - 1) + subOff

\* Pass j over the page: where the program is in the delta.
PlaceInv(j) ==
    /\ IF havePage THEN step = before + 2 * j + 2
       ELSE \/ step = before + 2 * j + 1
            \/ step = before /\ j = 0 /\ sub = 1 /\ pc \in {"loop", "done"}
    /\ pc \in Opening => sub =< Len(patch) /\ (havePage <=> pc = "p_erase")
    /\ pc = "p_erase" => outOff = 0
    /\ pc = "done" => sub = Len(patch) + 1 /\ outOff = BlockSize
    /\ sub =< Len(patch) =>
          /\ Consumed = IF havePage THEN j * BlockSize + outOff ELSE j * BlockSize
          /\ subOff =< SubLength
          /\ ~havePage => subOff < SubLength \/ subOff = 0
          /\ havePage /\ outOff = BlockSize => subOff > 0
    /\ sub = Len(patch) + 1 =>
          /\ ~ff
          /\ IF havePage THEN j * BlockSize =< Total /\ Total =< j * BlockSize + outOff
             ELSE IF Len(patch) = 0 THEN step = before
             ELSE /\ outOff = BlockSize /\ step # before
                  /\ Total = j * BlockSize /\ WordsBefore(patch, Len(patch) - 1) < Total

\* and what it has written there.
ContentInv(j) ==
    ~ff /\ havePage /\ pc \in {"loop", "done"} =>
        \A w \in Words : mem[start][w] = IF w < outOff THEN Patched(j + 1)[w] ELSE Blank

PassInv == pc # "off" => \E j \in 0 .. step : PlaceInv(j) /\ ContentInv(j)

\* The page is copied to the buffer.
SavingInv ==
    /\ pc \in {"s_erase", "s_write", "p_erase"} => ~ff
    /\ pc \notin {"off", "s_write"} => pos = 0
    /\ pc = "s_write" => \A w \in 0 .. pos - 1 : backup[GetBuffer(step)][w] = mem[start][w]
    /\ pc = "second" /\ ~ff => backup[GetBuffer(step)] = mem[start]

DeltaInv == TypeOK /\ CounterInv /\ FlashInv /\ ResumeInv /\ PassInv /\ SavingInv

-----------------------------------------------------------------------------
(* Facts that hold in every state. *)

LEMMA Types ==
    ASSUME TypeOK
    PROVE  /\ BlockSize \in Nat /\ BlockSize > 0 /\ WordSize \in Nat /\ WordSize > 0
           /\ patch \in Deltas /\ Len(patch) \in Nat /\ Total \in Nat
           /\ \A i \in 0 .. Len(patch) : WordsBefore(patch, i) \in Nat
           /\ start \in Blocks /\ image[start] \in Page /\ mem[start] \in Page
           /\ image \in [Blocks -> Page] /\ before \in Nat /\ before % 2 = 0
           /\ \A n \in Nat : n * BlockSize \in Nat /\ Patched(n) \in Page
<1>1. BlockSize \in Nat /\ BlockSize > 0 /\ WordSize \in Nat
  BY GeometryAssumption
<1>2. start \in Blocks /\ image[start] \in Page /\ mem[start] \in Page
  BY DeltaAssumption DEF TypeOK, Page, Word
<1>3. WordSize > 0
  <2>1. 0 \in Words
    BY <1>1 DEF Words
  <2>2. image[start][0] \in 0 .. WordSize - 1
    BY <1>2, <2>1 DEF Page, Word
  <2> QED BY <1>1, <2>2
<1>4. patch \in Deltas
  BY DeltaAssumption DEF TypeOK, Deltas, Word
<1>5. Len(patch) \in Nat
  BY <1>4, DeltaTypes
<1>6. \A i \in 0 .. Len(patch) : WordsBefore(patch, i) \in Nat
  BY <1>4, WordsBeforeStep
<1>7. Total \in Nat
  BY <1>5, <1>6 DEF Total
<1>8. before \in Nat /\ before % 2 = 0
  BY DeltaAssumption DEF TypeOK
<1>10. image \in [Blocks -> Page]
  BY DeltaAssumption DEF TypeOK, Page, Word
<1>9. ASSUME NEW n \in Nat PROVE n * BlockSize \in Nat /\ Patched(n) \in Page
  BY <1>1, <1>2, <1>3, <1>4, PatchedPageType DEF Patched
<1> QED BY <1>1, <1>2, <1>3, <1>4, <1>5, <1>6, <1>7, <1>8, <1>9, <1>10

\* Where the sub-segment under way ends.
LEMMA SubSegment ==
    ASSUME TypeOK, sub =< Len(patch)
    PROVE  /\ SubLength \in Nat /\ sub \in 1 .. Len(patch) /\ sub + 1 - 1 = sub
           /\ WordsBefore(patch, sub - 1) \in Nat /\ WordsBefore(patch, sub) \in Nat
           /\ WordsBefore(patch, sub) = WordsBefore(patch, sub - 1) + SubLength
           /\ WordsBefore(patch, sub) =< Total
           /\ WordsBefore(patch, sub - 1) =< WordsBefore(patch, Len(patch) - 1)
           /\ sub < Len(patch) => WordsBefore(patch, sub) =< WordsBefore(patch, Len(patch) - 1)
           /\ sub < Len(patch) => Len(patch[sub + 1].data) \in Nat
<1>1. patch \in Deltas /\ Len(patch) \in Nat
  BY Types
<1>2. /\ sub \in 1 .. Len(patch) /\ sub \in 0 .. Len(patch) /\ sub - 1 \in 0 .. Len(patch)
      /\ Len(patch) \in 0 .. Len(patch) /\ Len(patch) - 1 \in 0 .. Len(patch) /\ sub + 1 - 1 = sub
  BY <1>1 DEF TypeOK
<1>3. SubLength \in Nat
  BY <1>1, <1>2, DeltaTypes DEF SubLength
<1>4. WordsBefore(patch, sub) = WordsBefore(patch, sub - 1) + SubLength
  BY <1>1, <1>2, WordsBeforeStep DEF SubLength
<1>5. WordsBefore(patch, sub - 1) \in Nat /\ WordsBefore(patch, sub) \in Nat
  BY <1>2, Types
<1>6. WordsBefore(patch, sub) =< Total
  BY <1>1, <1>2, WordsBeforeMonotone DEF Total
<1>7. WordsBefore(patch, sub - 1) =< WordsBefore(patch, Len(patch) - 1)
  BY <1>1, <1>2, WordsBeforeMonotone
<1>8. sub < Len(patch) => WordsBefore(patch, sub) =< WordsBefore(patch, Len(patch) - 1)
  BY <1>1, <1>2, WordsBeforeMonotone
<1>9. sub < Len(patch) => Len(patch[sub + 1].data) \in Nat
  BY <1>1, <1>2, DeltaTypes
<1> QED BY <1>2, <1>3, <1>4, <1>5, <1>6, <1>7, <1>8, <1>9

\* What the next word of the page becomes.
LEMMA NextWord ==
    ASSUME TypeOK, NEW j \in Nat, NEW w \in Words
    PROVE  /\ Total =< j * BlockSize + w => Patched(j + 1)[w] = Patched(j)[w]
           /\ /\ sub =< Len(patch) /\ subOff < SubLength
              /\ WordsBefore(patch, sub - 1) + subOff = j * BlockSize + w
              => Patched(j + 1)[w] =
                    LET d == patch[sub].data[subOff + 1]
                    IN  IF patch[sub].insert THEN d ELSE (Patched(j)[w] + d) % WordSize
<1>1. Patched(j + 1) = NextPage(patch, Patched(j), j)
  BY PatchedPageStep DEF Patched
<1>2. j * BlockSize \in Nat /\ w \in Nat /\ Total \in Nat
  <2>1. w \in Nat
    BY GeometryAssumption DEF Words
  <2> QED BY <2>1, Types
<1>3. ASSUME Total =< j * BlockSize + w PROVE Patched(j + 1)[w] = Patched(j)[w]
  <2>1. ~(j * BlockSize + w < WordsBefore(patch, Len(patch)))
    BY <1>2, <1>3 DEF Total
  <2> QED BY <1>1, <2>1 DEF NextPage
<1>4. ASSUME sub =< Len(patch), subOff < SubLength,
             WordsBefore(patch, sub - 1) + subOff = j * BlockSize + w
      PROVE  Patched(j + 1)[w] = PatchedWord(patch, j * BlockSize + w, Patched(j)[w])
  <2>1. j * BlockSize + w < WordsBefore(patch, Len(patch))
    <3>1. subOff \in Nat /\ SubLength \in Nat /\ WordsBefore(patch, sub - 1) \in Nat
      BY <1>4, SubSegment DEF TypeOK
    <3>2. WordsBefore(patch, sub - 1) + SubLength =< Total
      BY <1>4, SubSegment
    <3>3. WordsBefore(patch, sub - 1) + subOff < Total
      BY <1>2, <1>4, <3>1, <3>2
    <3> QED BY <1>4, <3>3 DEF Total
  <2> QED BY <1>1, <2>1 DEF NextPage
<1>5. ASSUME sub =< Len(patch), subOff < SubLength,
             WordsBefore(patch, sub - 1) + subOff = j * BlockSize + w, NEW word
      PROVE  PatchedWord(patch, j * BlockSize + w, word) =
                 IF patch[sub].insert THEN patch[sub].data[subOff + 1]
                 ELSE (word + patch[sub].data[subOff + 1]) % WordSize
  <2>1. patch \in Deltas /\ sub \in 1 .. Len(patch)
    BY Types, SubSegment, <1>5
  <2>2. subOff \in 0 .. Len(patch[sub].data) - 1
    BY <1>5, SubSegment DEF TypeOK, SubLength
  <2>3. PatchedWord(patch, WordsBefore(patch, sub - 1) + subOff, word) =
                 IF patch[sub].insert THEN patch[sub].data[subOff + 1]
                 ELSE (word + patch[sub].data[subOff + 1]) % WordSize
    BY <2>1, <2>2, PatchedWordIs
  <2> QED BY <2>3, <1>5
<1> QED BY <1>3, <1>4, <1>5

\* There are two buffers.
LEMMA BufferIs == \A c : GetBuffer(c) \in 1 .. 2
BY DEF GetBuffer

\* The delta and where it goes never change.
LEMMA Frame ==
    ASSUME UNCHANGED fixed
    PROVE  /\ Total' = Total /\ patch' = patch /\ start' = start /\ before' = before
           /\ image' = image
           /\ \A n : Patched(n)' = Patched(n)
           /\ \A k : Opens(k)' = Opens(k)
BY DEF fixed, Total, Patched, Opens

\* Steps that leave the flash alone keep what it holds.
LEMMA FlashUnchanged ==
    ASSUME CounterInv, FlashInv, UNCHANGED <<mem, backup, counter, fixed>>
    PROVE  CounterInv' /\ FlashInv'
BY Frame DEF CounterInv, FlashInv, fixed

-----------------------------------------------------------------------------
(* The types. *)

LEMMA InitTypeOK == Init => TypeOK
<1> SUFFICES ASSUME Init PROVE TypeOK
  OBVIOUS
<1>1. start \in Blocks /\ before \in Nat /\ image[start] \in [Words -> Word]
  BY DeltaAssumption DEF Init, Word
<1>2. 0 \in Words
  BY GeometryAssumption DEF Words
<1>3. ErasedPage \in Page
  <2>1. image[start][0] \in 0 .. WordSize - 1
    BY <1>1, <1>2 DEF Word
  <2>2. Blank \in Word
    BY <2>1, GeometryAssumption DEF Word
  <2> QED BY <2>2 DEF ErasedPage, Page
<1>4. mem \in [Blocks -> Page]
  BY DeltaAssumption DEF Init, Page, Word
<1>9. image \in Images
  BY DEF Init
<1>10. ArePages(backup)
  BY DEF Init, ArePages, ErasedPage
<1>5. Len(patch) \in Nat /\ sub \in 1 .. Len(patch) + 1
  <2>1. patch \in Deltas
    BY DeltaAssumption DEF Init, Deltas, Word
  <2>2. Len(patch) \in Nat
    BY <2>1, DeltaTypes
  <2> QED BY <2>2 DEF Init
<1>6. counter \in Nat /\ step \in Nat /\ old \in Nat /\ losses \in Nat /\ subOff \in Nat
  BY <1>1 DEF Init
<1>7. pos \in Words /\ outOff \in 0 .. BlockSize
  BY <1>2, GeometryAssumption DEF Init
<1>8. /\ patch \in Patches /\ start \in Starts /\ before \in StepsBefore
      /\ pc = "off" /\ havePage \in BOOLEAN /\ ff \in BOOLEAN /\ dry = FALSE
  BY DEF Init
<1> QED BY <1>4, <1>5, <1>6, <1>7, <1>8, <1>9, <1>10 DEF TypeOK

LEMMA IncrementType ==
    ASSUME TypeOK, Increment PROVE step' \in Nat /\ counter' \in Nat /\ ff' \in BOOLEAN
<1>1. step \in Nat /\ counter \in Nat /\ ff \in BOOLEAN
  BY DEF TypeOK
<1>2. MarkStep(step + 1) \in Nat
  BY <1>1 DEF MarkStep
<1>3. (step + 1 # old) \in BOOLEAN
  OBVIOUS
<1>4. step' \in Nat
  BY <1>1 DEF Increment
<1>5. counter' \in Nat
  BY <1>1, <1>2 DEF Increment
<1>6. ff' \in BOOLEAN
  BY <1>1, <1>3, Zenon DEF Increment
<1> QED BY <1>4, <1>5, <1>6

LEMMA ErasedType == ASSUME TypeOK PROVE ErasedPage \in Page /\ Blank \in Word
<1>1. WordSize \in Nat /\ WordSize > 0
  BY Types
<1>2. Blank \in Word
  BY <1>1, GeometryAssumption DEF Word
<1> QED BY <1>2 DEF ErasedPage, Page

LEMMA ProgramType ==
    ASSUME TypeOK, NEW w \in Words, NEW value \in Word, ProgramWord(w, value)
    PROVE  mem' \in [Blocks -> Page]
BY Types DEF TypeOK, ProgramWord, Page

\* Pages are open after an even number of steps.
LEMMA PageOpen ==
    ASSUME DeltaInv, pc # "off", NEW j \in 0 .. step, PlaceInv(j), havePage, ~ff
    PROVE  /\ counter = step /\ step = before + 2 * j + 2 /\ before \in Nat /\ j \in 0 .. counter
           /\ backup[GetBuffer(step - 1)] = Patched(j)
           /\ counter # before /\ \A i \in 0 .. counter : counter # before + 2 * i + 1
<1>1. step = before + 2 * j + 2 /\ counter = step /\ before \in Nat /\ step \in Nat
  BY Types DEF PlaceInv, DeltaInv, ResumeInv, TypeOK
<1>2. backup[GetBuffer(step - 1)] = Patched(j)
  BY <1>1 DEF DeltaInv, FlashInv
<1> QED BY <1>1, <1>2

\* Writing keeps the shape of the backup pages.
LEMMA PageSet ==
    ASSUME NEW b, ArePages(b), NEW i \in 1 .. 2, NEW page, page = [w \in Words |-> page[w]]
    PROVE  ArePages([b EXCEPT ![i] = page])
<1> DEFINE c == [b EXCEPT ![i] = page]
<1>1. c = [k \in 1 .. 2 |-> IF k = i THEN page ELSE b[k]]
  BY DEF ArePages
<1> HIDE DEF c
<1>2. ASSUME NEW k \in 1 .. 2 PROVE c[k] = [w \in Words |-> c[k][w]]
  <2>1. CASE k = i
    BY <1>1, <2>1
  <2>2. CASE k # i
    BY <1>1, <2>2 DEF ArePages
  <2> QED BY <2>1, <2>2
<1>3. c = [k \in 1 .. 2 |-> c[k]]
  BY <1>1
<1>4. ArePages(c)
  BY <1>2, <1>3 DEF ArePages
<1> QED BY <1>4 DEF c

LEMMA WordSet ==
    ASSUME NEW b, ArePages(b), NEW i \in 1 .. 2, NEW w \in Words, NEW word
    PROVE  ArePages([b EXCEPT ![i][w] = word])
<1> DEFINE page == [b[i] EXCEPT ![w] = word]
<1>1. page = [v \in Words |-> IF v = w THEN word ELSE b[i][v]]
  BY DEF ArePages
<1>2. [b EXCEPT ![i][w] = word] = [b EXCEPT ![i] = page]
  BY DEF ArePages
<1> HIDE DEF page
<1>3. page = [v \in Words |-> page[v]]
  BY <1>1
<1> QED BY <1>2, <1>3, PageSet

LEMMA NextTypeOK == ASSUME DeltaInv, [Next]_vars PROVE TypeOK'
<1>a. TypeOK
  BY DEF DeltaInv
<1> USE <1>a DEF Opening, fixed, loop
<1>0. /\ 0 \in Words /\ 0 \in 0 .. BlockSize /\ BlockSize \in 0 .. BlockSize
      /\ 1 \in 1 .. Len(patch) + 1
  <2>1. Len(patch) \in Nat
    BY Types
  <2> QED BY <2>1, GeometryAssumption DEF Words
<1>1. CASE Boot
  <2>1. /\ step' = before /\ old' = counter /\ ff' = (before < counter) /\ dry' = FALSE
        /\ UNCHANGED <<mem, backup, counter, patch, start, before, image, losses>>
        /\ pc' = "loop" /\ pos' = 0 /\ sub' = 1 /\ subOff' = 0 /\ outOff' = 0 /\ havePage' = FALSE
    BY <1>1 DEF Boot, BeginDelta
  <2>2. step' \in Nat /\ old' \in Nat
    BY <2>1, Types DEF TypeOK
  <2>3. ff' \in BOOLEAN
    BY <2>1
  <2> QED BY <1>0, <2>1, <2>2, <2>3 DEF TypeOK
<1>2. CASE NewPage
  <2>1. step' \in Nat /\ counter' \in Nat /\ ff' \in BOOLEAN
    BY <1>2, IncrementType DEF NewPage, TypeOK
  <2> QED BY <1>2, <2>1 DEF TypeOK, NewPage
<1>3. CASE SaveErase
  <2>1. ErasedPage = [w \in Words |-> ErasedPage[w]]
    BY DEF ErasedPage
  <2>2. ArePages(backup')
    BY <1>3, <2>1, BufferIs, PageSet DEF TypeOK, SaveErase
  <2> QED BY <1>3, <2>2 DEF TypeOK, SaveErase
<1>4. CASE SaveWord
  <2>1. pos' \in Words
    <3>1. pos \in Nat /\ pos' = (pos + 1) % BlockSize
      BY <1>4, GeometryAssumption DEF SaveWord, TypeOK, Words
    <3> QED BY <3>1, GeometryAssumption DEF Words
  <2>3. ArePages(backup')
    BY <1>4, BufferIs, WordSet DEF SaveWord, TypeOK
  <2> QED BY <1>4, <2>1, <2>3 DEF TypeOK, SaveWord
<1>5. CASE PageSaved
  <2>1. step' \in Nat /\ counter' \in Nat /\ ff' \in BOOLEAN
    BY <1>5, IncrementType DEF PageSaved
  <2> QED BY <1>0, <1>5, <2>1 DEF TypeOK, PageSaved
<1>6. CASE ErasePatched
  BY <1>6, ErasedType DEF TypeOK, ErasePatched
<1>7. CASE PatchWord
  <2>1. outOff \in Words /\ subOff + 1 \in Nat /\ outOff + 1 \in 0 .. BlockSize
    BY <1>7, GeometryAssumption DEF TypeOK, PatchWord, Words
  <2> DEFINE d == patch[sub].data[subOff + 1]
             o == backup[GetBuffer(step - 1)][outOff]
  <2>2. d \in Word
    <3>1. sub \in 1 .. Len(patch) /\ subOff \in 0 .. Len(patch[sub].data) - 1
      BY <1>7, SubSegment DEF PatchWord, More, SubLength, TypeOK
    <3> QED BY <3>1, Types, DeltaTypes
  <2>3. o \in Word \/ Resuming(ff)
    <3>1. CASE ~Resuming(ff)
      <4>1. ~ff /\ pc = "loop" /\ havePage
        BY <1>7, <3>1 DEF PatchWord, More, Resuming
      <4>2. PICK j \in 0 .. step : PlaceInv(j)
        BY <4>1 DEF DeltaInv, PassInv
      <4>3. backup[GetBuffer(step - 1)] = Patched(j)
        BY <4>1, <4>2, PageOpen
      <4>4. j \in Nat
        BY DEF TypeOK
      <4>5. Patched(j) \in Page
        BY <4>4, Types
      <4> QED BY <2>1, <4>3, <4>5 DEF Page
    <3> QED BY <3>1
  <2>4. ASSUME ~Resuming(ff) PROVE (o + d) % WordSize \in Word
    <3> HIDE DEF d, o
    <3>1. o + d \in Int /\ WordSize \in Nat /\ WordSize > 0
      BY <2>2, <2>3, <2>4, Types DEF Word
    <3> QED BY <3>1 DEF Word
  <2>5. mem' \in [Blocks -> Page]
    <3>1. CASE Resuming(ff)
      BY <1>7, <3>1 DEF PatchWord, TypeOK
    <3>2. CASE ~Resuming(ff)
      <4>1. ProgramWord(outOff, IF patch[sub].insert THEN d ELSE (o + d) % WordSize)
        BY <1>7, <3>2 DEF PatchWord
      <4> HIDE DEF d, o
      <4> QED BY <3>2, <4>1, <2>1, <2>2, <2>4, ProgramType
    <3> QED BY <3>1, <3>2
  <2> QED BY <1>7, <2>1, <2>5 DEF TypeOK, PatchWord
<1>8. CASE EndChunk
  <2>1. step' \in Nat /\ counter' \in Nat /\ ff' \in BOOLEAN
    BY <1>8, IncrementType DEF EndChunk, TypeOK
  <2>2. sub' \in 1 .. Len(patch) + 1 /\ subOff' \in Nat /\ havePage' \in BOOLEAN
    BY <1>8, Types DEF EndChunk, TypeOK, More
  <2> QED BY <1>8, <2>1, <2>2 DEF TypeOK, EndChunk
<1>9. CASE TailWord
  <2>1. outOff \in Words /\ outOff + 1 \in 0 .. BlockSize
    BY <1>9, GeometryAssumption DEF TypeOK, TailWord, Words
  <2>2. ASSUME Resuming(ff) \/ mem[start][outOff] # Blank
        PROVE  mem' \in [Blocks -> Page] /\ outOff' \in 0 .. BlockSize
    BY <1>0, <1>9, <2>2 DEF TailWord, TypeOK
  <2>4. ASSUME ~(Resuming(ff) \/ mem[start][outOff] # Blank)
        PROVE  mem' \in [Blocks -> Page] /\ outOff' \in 0 .. BlockSize
    <3>1. ~ff /\ pc = "loop" /\ sub = Len(patch) + 1
      BY <1>9, <2>4, Types DEF TailWord, Resuming, TypeOK
    <3>2. PICK j \in 0 .. step : PlaceInv(j)
      BY <3>1 DEF DeltaInv, PassInv
    <3>3. backup[GetBuffer(step - 1)][outOff] \in Word
      <4>1. CASE havePage
        <5>1. backup[GetBuffer(step - 1)] = Patched(j)
          BY <3>1, <3>2, <4>1, PageOpen
        <5>2. j \in Nat
          BY DEF TypeOK
        <5>3. Patched(j) \in Page
          BY <5>2, Types
        <5> QED BY <2>1, <5>1, <5>3 DEF Page
      <4>2. CASE ~havePage
        <5>1. outOff # BlockSize
          BY <1>9, GeometryAssumption DEF TailWord, TypeOK
        <5>2. Len(patch) = 0 /\ step = before
          BY <3>1, <3>2, <4>2, <5>1 DEF PlaceInv
        <5>3. counter = before
          BY <3>1, <5>2 DEF DeltaInv, ResumeInv
        <5>4. backup = [b \in 1 .. 2 |-> ErasedPage]
          BY <5>2, <5>3 DEF DeltaInv, FlashInv
        <5>5. backup[GetBuffer(step - 1)] \in Page
          BY <5>4, BufferIs, ErasedType
        <5> QED BY <2>1, <5>5 DEF Page
      <4> QED BY <4>1, <4>2
    <3>4. ProgramWord(outOff, backup[GetBuffer(step - 1)][outOff]) /\ outOff' = outOff + 1
      BY <1>9, <2>4 DEF TailWord
    <3>5. mem' \in [Blocks -> Page]
      BY <2>1, <3>3, <3>4, ProgramType
    <3> QED BY <2>1, <3>4, <3>5
  <2>3. mem' \in [Blocks -> Page] /\ outOff' \in 0 .. BlockSize
    BY <2>2, <2>4 DEF TypeOK, TailWord
  <2> QED BY <1>9, <2>3 DEF TypeOK, TailWord
<1>10. CASE DeltaEnds
  BY <1>10 DEF TypeOK, DeltaEnds
<1>11. CASE PowerLoss
  BY <1>11 DEF TypeOK, PowerLoss
<1>12. CASE UNCHANGED vars
  BY <1>12 DEF TypeOK, vars
<1> QED BY <1>1, <1>2, <1>3, <1>4, <1>5, <1>6, <1>7, <1>8, <1>9, <1>10, <1>11, <1>12
        DEF Next, Apply, Terminated

\* A step that is counted: in flash, unless the program is catching up.
LEMMA IncrementIs ==
    ASSUME TypeOK, ResumeInv, pc # "off", Increment
    PROVE  /\ step' = step + 1 /\ step' \in Nat /\ counter' \in Nat
           /\ ff => counter' = counter /\ step' =< counter /\ (ff' <=> step' # counter)
           /\ ~ff => step = counter /\ counter' = counter + 1 /\ ~ff'
<1>1. step \in Nat /\ counter \in Nat /\ ~dry
  BY DEF TypeOK
<1>2. CASE ff
  <2>1. step < counter /\ old = counter
    BY <1>2 DEF ResumeInv
  <2>2. step' = step + 1 /\ counter' = counter
    BY <1>1, <1>2 DEF Increment
  <2>3. ff' <=> step + 1 # counter
    BY <1>1, <1>2, <2>1, Zenon DEF Increment
  <2> QED BY <1>1, <1>2, <2>1, <2>2, <2>3
<1>3. CASE ~ff
  BY <1>1, <1>3 DEF Increment, ResumeInv, MarkStep
<1> QED BY <1>1, <1>2, <1>3

\* While it catches up it counts its steps up to the counter in flash.
LEMMA ResumeKept == 
    ASSUME TypeOK, CounterInv, ResumeInv, [Next]_vars PROVE ResumeInv'
<1>1. CASE Boot
  <2>1. step' = before /\ old' = counter /\ (ff' <=> before < counter) /\ counter' = counter
    BY <1>1 DEF Boot, BeginDelta
  <2>2. before \in Nat /\ counter \in Nat /\ counter >= before
    BY Types DEF TypeOK, CounterInv
  <2>3. CASE before < counter
    BY <2>1, <2>2, <2>3 DEF ResumeInv
  <2>4. CASE ~(before < counter)
    BY <2>1, <2>2, <2>4 DEF ResumeInv
  <2> QED BY <2>3, <2>4
<1>2. CASE NewPage \/ PageSaved \/ EndChunk
  <2>1. pc # "off" /\ old' = old
    BY <1>2 DEF NewPage, PageSaved, EndChunk, More
  <2>2. CASE Increment
    <3>0. step \in Nat /\ counter \in Nat
      BY DEF TypeOK
    <3>1. CASE ff
      <4>1. counter' = counter /\ step' =< counter /\ (ff' <=> step' # counter) /\ old = counter
            /\ step' \in Nat
        BY <2>1, <2>2, <3>1, IncrementIs DEF ResumeInv
      <4>2. CASE step' = counter
        BY <4>1, <4>2 DEF ResumeInv
      <4>3. CASE step' # counter
        BY <2>1, <3>0, <4>1, <4>3 DEF ResumeInv
      <4> QED BY <4>2, <4>3
    <3>2. CASE ~ff
      <4>1. step' = counter' /\ ~ff'
        BY <2>1, <2>2, <3>2, IncrementIs
      <4> QED BY <4>1 DEF ResumeInv
    <3> QED BY <3>1, <3>2
  <2>3. CASE UNCHANGED <<step, ff, counter>>
    BY <2>1, <2>3 DEF ResumeInv
  <2> QED BY <1>2, <2>2, <2>3 DEF NewPage, PageSaved, EndChunk
<1>3. CASE SaveErase \/ SaveWord \/ ErasePatched \/ PatchWord \/ TailWord \/ DeltaEnds
  BY <1>3 DEF ResumeInv, SaveErase, SaveWord, ErasePatched, PatchWord, TailWord, DeltaEnds, More
<1>4. CASE PowerLoss
  BY <1>4 DEF PowerLoss, ResumeInv
<1>5. CASE UNCHANGED vars
  BY <1>5 DEF vars, ResumeInv
<1> QED BY <1>1, <1>2, <1>3, <1>4, <1>5 DEF Next, Apply, Terminated

-----------------------------------------------------------------------------
(* Each action keeps the rest of the invariant. *)

Kept == CounterInv' /\ FlashInv' /\ PassInv' /\ SavingInv'

LEMMA InitKept == Init => DeltaInv
<1> SUFFICES ASSUME Init PROVE DeltaInv
  OBVIOUS
<1>1. TypeOK
  BY InitTypeOK
<1>2. counter = before /\ before \in Nat
  BY <1>1, Types DEF Init
<1>3. CounterInv
  BY <1>2 DEF CounterInv
<1>4. FlashInv
  BY <1>2 DEF Init, FlashInv
<1>5. ResumeInv /\ PassInv
  BY DEF Init, ResumeInv, PassInv
<1>6. SavingInv
  BY DEF Init, SavingInv
<1> QED BY <1>1, <1>3, <1>4, <1>5, <1>6 DEF DeltaInv

LEMMA BootKept == ASSUME DeltaInv, Boot PROVE Kept
<1> USE DEF DeltaInv
<1>1. /\ step' = before /\ (ff' <=> before < counter) /\ UNCHANGED <<mem, backup, counter, fixed>>
      /\ pc' = "loop" /\ pos' = 0 /\ sub' = 1 /\ subOff' = 0 /\ outOff' = 0 /\ havePage' = FALSE
  BY DEF Boot, BeginDelta
<1>2. CounterInv' /\ FlashInv'
  BY <1>1, FlashUnchanged
<1>3. /\ before \in Nat /\ counter \in Nat /\ Len(patch) \in Nat /\ patch \in Deltas
      /\ BlockSize \in Nat
  BY Types DEF TypeOK
<1>4. patch' = patch /\ before' = before
  BY <1>1, Frame
<1>5. Consumed' = 0 * BlockSize
  <2>1. WordsBefore(patch, 0) = 0
    BY <1>3, WordsBeforeStep
  <2> QED BY <2>1, <1>1, <1>3, <1>4 DEF Consumed
<1>6. Len(patch) > 0 => Len(patch[1].data) \in Nat
  BY <1>3, DeltaTypes
<1>7. Len(patch) = 0 => ~ff'
  BY <1>1, <1>3 DEF CounterInv
<1>8. PlaceInv(0)' /\ ContentInv(0)'
  BY <1>1, <1>3, <1>4, <1>5, <1>6, <1>7 DEF PlaceInv, ContentInv, SubLength, Opening
<1>9. PassInv'
  BY <1>1, <1>3, <1>8 DEF PassInv
<1>10. SavingInv'
  BY <1>1 DEF SavingInv
<1> QED BY <1>2, <1>9, <1>10 DEF Kept

\* A delta that begins over finished commands (applyDeltaPatch called by
\* bootloaderPerformUpdate): what the backup pages hold does not matter to it.
LEMMA FreshDelta ==
    ASSUME patch' \in Patches, start' \in Starts, before' \in StepsBefore, image' \in Images,
           mem' = image', counter' = before', ArePages(backup'), Len(patch') > 0,
           pc' = "loop", pos' = 0, sub' = 1, subOff' = 0, outOff' = 0, havePage' = FALSE,
           step' = before', ff' = FALSE, old' \in Nat, dry' = FALSE, losses' \in Nat
    PROVE  DeltaInv'
<1>1. patch' \in Deltas /\ Len(patch') \in Nat /\ start' \in Blocks /\ before' \in Nat
  <2>1. patch' \in Deltas
    BY DeltaAssumption DEF Deltas, Word
  <2> QED BY <2>1, DeltaTypes, DeltaAssumption
<1>2. mem' \in [Blocks -> Page]
  BY DeltaAssumption DEF Page, Word
<1>3. TypeOK'
  <2>1. 0 \in Words /\ 0 \in 0 .. BlockSize /\ 1 \in 1 .. Len(patch') + 1
    BY <1>1, GeometryAssumption DEF Words
  <2> QED BY <1>1, <1>2, <2>1 DEF TypeOK
<1>4. CounterInv' /\ FlashInv'
  <2>0. \A n \in Nat : \A j \in 0 .. n : /\ ~(n >= n + 2 * j + 1) /\ ~(n >= n + 2 * j + 2)
                                       /\ n # n + 2 * j + 1 /\ n # n + 2 * j + 2
    OBVIOUS
  <2>1. \A j \in 0 .. counter' : /\ ~(counter' >= counter' + 2 * j + 1)
                                 /\ ~(counter' >= counter' + 2 * j + 2)
                                 /\ counter' # counter' + 2 * j + 1
                                 /\ counter' # counter' + 2 * j + 2
    <3>1. counter' \in Nat
      BY <1>1
    <3> QED BY ONLY <2>0, <3>1, Zenon
  <2>2. CounterInv'
    <3>1. \A j \in 0 .. counter' : /\ ~(counter' >= before' + 2 * j + 1)
                                   /\ ~(counter' >= before' + 2 * j + 2)
      BY <2>1
    <3>2. counter' >= before'
      BY <1>1
    <3> QED BY ONLY <3>1, <3>2, Len(patch') > 0, Zenon DEF CounterInv
  <2>3. FlashInv'
    BY <2>1 DEF FlashInv
  <2> QED BY <2>2, <2>3
<1>5. ResumeInv' /\ SavingInv'
  BY DEF ResumeInv, SavingInv
<1>6. Consumed' = 0 * BlockSize
  <2>1. WordsBefore(patch', 0) = 0
    BY <1>1, WordsBeforeStep
  <2> QED BY <2>1, GeometryAssumption DEF Consumed
<1>7. Len(patch'[1].data) \in Nat
  BY <1>1, DeltaTypes
<1>8. PlaceInv(0)' /\ ContentInv(0)'
  BY <1>1, <1>6, <1>7 DEF PlaceInv, ContentInv, SubLength, Opening
<1>9. PassInv'
  BY <1>1, <1>8 DEF PassInv
<1> QED BY <1>3, <1>4, <1>5, <1>9 DEF DeltaInv

LEMMA NewPageKept == ASSUME DeltaInv, NewPage PROVE Kept
<1> USE DEF DeltaInv
<1>1. /\ pc = "loop" /\ sub =< Len(patch) /\ ~havePage
      /\ UNCHANGED <<mem, backup, fixed, pos, loop>>
      /\ IF step % 2 = 0 THEN Increment ELSE UNCHANGED <<step, ff, counter>>
      /\ pc' = IF ff' THEN "second" ELSE "s_erase"
  BY DEF NewPage, More, Resuming, TypeOK
<1>2. PICK j \in 0 .. step : PlaceInv(j) /\ ContentInv(j)
  BY <1>1 DEF PassInv
<1>3. /\ before \in Nat /\ before % 2 = 0 /\ counter \in Nat /\ step \in Nat /\ Len(patch) \in Nat
      /\ Total \in Nat /\ BlockSize \in Nat /\ sub \in 1 .. Len(patch)
  BY <1>1, Types, SubSegment DEF TypeOK
<1>4. step' = before + 2 * j + 1 /\ step' \in Nat
  <2>1. CASE step = before
    <3>1. Increment
      BY <1>1, <1>3, <2>1
    <3>2. j = 0
      BY <1>1, <1>2, <1>3, <2>1 DEF PlaceInv
    <3> QED BY <1>1, <1>3, <2>1, <3>1, <3>2, IncrementIs
  <2>2. CASE step # before
    <3>1. step = before + 2 * j + 1
      BY <1>1, <1>2, <2>2 DEF PlaceInv
    <3>2. step % 2 = 1
      BY <1>3, <3>1
    <3> QED BY <1>1, <1>3, <3>1, <3>2
  <2> QED BY <2>1, <2>2
<1>5. CounterInv' /\ FlashInv'
  <2>1. CASE counter' = counter
    BY <1>1, <2>1, FlashUnchanged
  <2>2. CASE counter' # counter
    <3>1. Increment /\ step % 2 = 0
      BY <1>1, <2>2
    <3>2. step = before /\ counter = before /\ counter' = before + 1
      <4>1. step = before
        BY <1>1, <1>2, <1>3, <3>1 DEF PlaceInv
      <4> QED BY <1>1, <3>1, <4>1, <2>2, IncrementIs
    <3>3. \A i \in 0 .. counter' : (counter' >= before + 2 * i + 1 => i = 0)
                                   /\ ~(counter' >= before + 2 * i + 2)
      BY <1>3, <3>2
    <3>4. CounterInv'
      <4>1. 0 * BlockSize =< Total
        BY <1>3
      <4> QED BY <1>1, <1>3, <3>2, <3>3, <4>1, Frame DEF CounterInv
    <3>5. mem[start] = Patched(0)
      BY <3>2, PatchedPageStep DEF FlashInv, Patched
    <3>6. \A i \in 0 .. counter' : counter' # before + 2 * i + 2 /\
                                   (counter' = before + 2 * i + 1 => i = 0)
      BY <1>3, <3>2
    <3> QED BY <1>1, <1>3, <3>2, <3>4, <3>5, <3>6, Frame DEF FlashInv
  <2> QED BY <2>1, <2>2
<1>6. PlaceInv(j)' /\ ContentInv(j)'
  <2>1. UNCHANGED <<sub, subOff, havePage, outOff, patch, before>>
    BY <1>1, Frame DEF loop
  <2>2. Consumed' = Consumed /\ SubLength' = SubLength
    BY <2>1 DEF Consumed, SubLength
  <2> QED BY <1>1, <1>2, <1>3, <1>4, <2>1, <2>2 DEF PlaceInv, ContentInv, Opening
<1>7. PassInv'
  BY <1>3, <1>4, <1>6 DEF PassInv
<1>8. SavingInv'
  BY <1>1 DEF SavingInv
<1> QED BY <1>5, <1>7, <1>8 DEF Kept

\* Steps that change neither the counter nor the place in the delta.
LEMMA PassUnchanged ==
    ASSUME NEW j, PlaceInv(j),
           UNCHANGED <<fixed, sub, subOff, outOff, havePage, step, ff>>,
           pc \in Opening, pc' \in Opening,
           pc = "p_erase" <=> pc' = "p_erase"
    PROVE  PlaceInv(j)' /\ ContentInv(j)'
<1>1. UNCHANGED <<patch, before>>
  BY Frame
<1>2. Consumed' = Consumed /\ SubLength' = SubLength /\ Total' = Total
  BY <1>1, Frame DEF Consumed, SubLength
<1> QED BY <1>1, <1>2 DEF PlaceInv, ContentInv, Opening

\* While a page is being saved, it is the one the flash must hold.
LEMMA SavingPlace ==
    ASSUME DeltaInv, NEW j \in 0 .. step, PlaceInv(j), pc \in {"s_erase", "s_write", "second"}, ~ff
    PROVE  /\ counter = step /\ step = before + 2 * j + 1 /\ before \in Nat
           /\ mem[start] = Patched(j)
<1>1. step = before + 2 * j + 1
  BY DEF PlaceInv, Opening
<1>2. counter = step
  BY DEF DeltaInv, ResumeInv
<1>3. mem[start] = Patched(j)
  BY <1>1, <1>2 DEF DeltaInv, FlashInv
<1> QED BY <1>1, <1>2, <1>3, Types DEF DeltaInv

LEMMA SaveKept == ASSUME DeltaInv, SaveErase \/ SaveWord PROVE Kept
<1> USE DEF DeltaInv
<1>1. /\ pc \in {"s_erase", "s_write"} /\ pc' \in {"s_write", "second"} /\ ~ff
      /\ UNCHANGED <<mem, counter, fixed, sub, subOff, outOff, havePage, step, ff>>
  BY DEF SaveErase, SaveWord, SavingInv, loop
<1>2. PICK j \in 0 .. step : PlaceInv(j) /\ ContentInv(j)
  BY <1>1 DEF PassInv
<1>3. counter = before + 2 * j + 1 /\ counter = step /\ before \in Nat /\ counter \in Nat
  BY <1>1, <1>2, SavingPlace DEF TypeOK
<1>4. CounterInv'
  BY <1>1, Frame DEF CounterInv
<1>5. FlashInv'
  <2>1. counter # before /\ \A i \in 0 .. counter : counter # before + 2 * i + 2
    BY <1>3
  <2> QED BY <1>1, <2>1, Frame DEF FlashInv
<1>6. PassInv'
  BY <1>1, <1>2, PassUnchanged DEF PassInv, Opening
<1>7. SavingInv'
  <2>0. GetBuffer(step) \in 1 .. 2
    BY BufferIs
  <2>1. CASE SaveErase
    BY <1>1, <2>1 DEF SaveErase, SavingInv
  <2>2. CASE SaveWord
    <3>1. /\ pos \in Words /\ pos \in Nat /\ BlockSize \in Nat /\ pos < BlockSize
          /\ pos' = (pos + 1) % BlockSize
      <4>1. pos \in Words
        BY DEF TypeOK
      <4>2. pos' = (pos + 1) % BlockSize
        BY <2>2 DEF SaveWord
      <4> QED BY <4>1, <4>2, GeometryAssumption DEF Words
    <3>2. \A w \in 0 .. pos : backup'[GetBuffer(step)][w] = mem[start][w]
      <4>1. backup' = [backup EXCEPT ![GetBuffer(step)][pos] = mem[start][pos]]
        BY <2>2 DEF SaveWord
      <4>2. \A w \in 0 .. pos - 1 : backup[GetBuffer(step)][w] = mem[start][w]
        BY <2>2 DEF SaveWord, SavingInv
      <4>3. /\ backup = [i \in 1 .. 2 |-> backup[i]]
            /\ backup[GetBuffer(step)] = [w \in Words |-> backup[GetBuffer(step)][w]]
        BY <2>0 DEF TypeOK, ArePages
      <4>4. backup'[GetBuffer(step)] = [backup[GetBuffer(step)] EXCEPT ![pos] = mem[start][pos]]
        BY <2>0, <4>1, <4>3
      <4>5. \A w \in Words : backup'[GetBuffer(step)][w] =
                IF w = pos THEN mem[start][pos] ELSE backup[GetBuffer(step)][w]
        BY <4>3, <4>4
      <4> QED BY <3>1, <4>2, <4>5 DEF Words
    <3>3. start' = start /\ step' = step
      BY <1>1, Frame
    <3>4. CASE pos + 1 < BlockSize
      <4>1. pos' = pos + 1 /\ pc' = "s_write"
        BY <2>2, <3>1, <3>4 DEF SaveWord
      <4> QED BY <1>1, <3>1, <3>2, <3>3, <4>1 DEF SavingInv
    <3>5. CASE pos + 1 = BlockSize
      <4>1. pos' = 0 /\ pc' = "second"
        BY <2>2, <3>1, <3>5 DEF SaveWord
      <4>2. \A w \in Words : backup'[GetBuffer(step)][w] = mem[start][w]
        BY <3>1, <3>2, <3>5 DEF Words
      <4>3. /\ backup'[GetBuffer(step)] = [w \in Words |-> backup'[GetBuffer(step)][w]]
            /\ mem[start] \in Page
        <5>1. TypeOK'
          BY <2>2, NextTypeOK DEF Next, Apply
        <5> QED BY <5>1, <2>0, Types DEF TypeOK, ArePages
      <4>4. backup'[GetBuffer(step)] = mem[start]
        BY <4>2, <4>3 DEF Page
      <4> QED BY <1>1, <3>3, <4>1, <4>4 DEF SavingInv
    <3> QED BY <3>1, <3>4, <3>5
  <2> QED BY <2>1, <2>2
<1> QED BY <1>4, <1>5, <1>6, <1>7 DEF Kept

LEMMA PageSavedKept == ASSUME DeltaInv, PageSaved PROVE Kept
<1> USE DEF DeltaInv
<1>1. /\ pc = "second" /\ Increment /\ havePage' = TRUE /\ outOff' = 0
      /\ UNCHANGED <<mem, backup, fixed, pos, sub, subOff>>
      /\ pc' = IF ff' THEN "loop" ELSE "p_erase"
  BY DEF PageSaved, Resuming, TypeOK
<1>2. PICK j \in 0 .. step : PlaceInv(j) /\ ContentInv(j)
  BY <1>1 DEF PassInv
<1>3. /\ before \in Nat /\ counter \in Nat /\ step \in Nat /\ Len(patch) \in Nat
      /\ Total \in Nat /\ BlockSize \in Nat /\ BlockSize > 0 /\ j * BlockSize \in Nat
  <2>1. j \in Nat
    BY DEF TypeOK
  <2>2. j * BlockSize \in Nat
    BY <2>1, Types
  <2> QED BY <2>2, Types DEF TypeOK
<1>4. sub =< Len(patch) /\ step = before + 2 * j + 1 /\ ~havePage
  BY <1>1, <1>2 DEF PlaceInv, Opening
<1>5. /\ Consumed = j * BlockSize /\ subOff =< SubLength
      /\ subOff < SubLength \/ subOff = 0
  BY <1>2, <1>4 DEF PlaceInv
<1>6. /\ step' = step + 1 /\ step' \in Nat /\ counter' \in Nat
      /\ ff => counter' = counter /\ step' =< counter /\ (ff' <=> step' # counter)
      /\ ~ff => step = counter /\ counter' = counter + 1 /\ ~ff'
  BY <1>1, IncrementIs
<1>7. Opens(j * BlockSize)
  <2>1. /\ SubLength \in Nat /\ WordsBefore(patch, sub - 1) \in Nat /\ subOff \in Nat
        /\ WordsBefore(patch, sub - 1) + SubLength =< Total
        /\ WordsBefore(patch, sub - 1) =< WordsBefore(patch, Len(patch) - 1)
    BY <1>4, SubSegment DEF TypeOK
  <2>2. CASE subOff < SubLength
    BY <1>3, <1>5, <2>1, <2>2 DEF Opens, Consumed
  <2>3. CASE subOff = 0
    <3>1. j * BlockSize = WordsBefore(patch, sub - 1)
      BY <1>5, <2>1, <2>3 DEF Consumed
    <3> QED BY <2>1, <3>1 DEF Opens
  <2> QED BY <1>5, <2>2, <2>3
<1>8. CounterInv' /\ FlashInv'
  <2>1. CASE ff
    BY <1>1, <1>6, <2>1, FlashUnchanged
  <2>2. CASE ~ff
    <3>1. counter = before + 2 * j + 1 /\ counter' = before + 2 * j + 2
      BY <1>3, <1>4, <1>6, <2>2
    <3>2. mem[start] = Patched(j) /\ backup[GetBuffer(step)] = mem[start]
      BY <1>1, <1>2, <2>2, SavingPlace DEF SavingInv
    <3>3. ASSUME NEW i \in 0 .. counter', counter' >= before + 2 * i + 1
          PROVE  i * BlockSize =< Total
      <4>1. i \in 0 .. counter /\ counter >= before + 2 * i + 1
        BY <1>3, <3>1, <3>3
      <4> QED BY <4>1 DEF CounterInv
    <3>4. ASSUME NEW i \in 0 .. counter', counter' >= before + 2 * i + 2
          PROVE  Opens(i * BlockSize)
      <4>1. CASE i = j
        BY <1>7, <4>1
      <4>2. CASE i # j
        <5>1. i \in 0 .. counter /\ counter >= before + 2 * i + 2
          BY <1>3, <3>1, <3>4, <4>2
        <5> QED BY <5>1 DEF CounterInv
      <4> QED BY <4>1, <4>2
    <3>5. CounterInv'
      <4>1. counter' >= before /\ Len(patch) > 0
        BY <1>3, <3>1 DEF CounterInv
      <4> QED BY <1>1, <3>3, <3>4, <4>1, Frame DEF CounterInv
    <3>6. /\ counter' # before /\ counter' - 1 = step
          /\ \A i \in 0 .. counter' : counter' # before + 2 * i + 1 /\
                                      (counter' = before + 2 * i + 2 => i = j)
      BY <1>3, <1>4, <3>1
    <3> QED BY <1>1, <3>2, <3>5, <3>6, Frame DEF FlashInv
  <2> QED BY <2>1, <2>2
<1>9. PlaceInv(j)' /\ ContentInv(j)'
  <2>1. UNCHANGED <<sub, subOff, patch, before>>
    BY <1>1, Frame
  <2>2. Consumed' = Consumed /\ SubLength' = SubLength
    BY <2>1 DEF Consumed, SubLength
  <2>3. step' = before + 2 * j + 2 /\ outOff' # BlockSize
    BY <1>1, <1>3, <1>4, <1>6
  <2>4. pc' = "loop" => ff'
    BY <1>1
  <2> QED BY <1>1, <1>3, <1>4, <1>5, <2>1, <2>2, <2>3, <2>4 DEF PlaceInv, ContentInv, Opening
<1>10. PassInv'
  BY <1>3, <1>6, <1>9 DEF PassInv
<1>11. SavingInv'
  BY <1>1 DEF SavingInv
<1> QED BY <1>8, <1>10, <1>11 DEF Kept

\* Then the page may change.
LEMMA OpenPageWritten ==
    ASSUME DeltaInv, pc # "off", NEW j \in 0 .. step, PlaceInv(j), havePage, ~ff,
           UNCHANGED <<backup, counter, fixed>>, \A b \in Blocks \ {start} : mem'[b] = mem[b]
    PROVE  CounterInv' /\ FlashInv'
<1>1. counter # before /\ \A i \in 0 .. counter : counter # before + 2 * i + 1
  BY PageOpen
<1>2. CounterInv'
  BY Frame DEF DeltaInv, CounterInv
<1>3. FlashInv'
  BY <1>1, Frame DEF DeltaInv, FlashInv
<1> QED BY <1>2, <1>3

LEMMA ErasePatchedKept == ASSUME DeltaInv, ErasePatched PROVE Kept
<1> USE DEF DeltaInv
<1>1. /\ pc = "p_erase" /\ pc' = "loop" /\ mem' = [mem EXCEPT ![start] = ErasedPage]
      /\ UNCHANGED <<backup, counter, fixed, pos, sub, subOff, outOff, havePage, step, ff>>
  BY DEF ErasePatched, loop
<1>2. PICK j \in 0 .. step : PlaceInv(j) /\ ContentInv(j)
  BY <1>1 DEF PassInv
<1>3. ~ff /\ havePage /\ outOff = 0 /\ sub =< Len(patch) /\ step = before + 2 * j + 2
  BY <1>1, <1>2 DEF SavingInv, PlaceInv, Opening
<1>4. CounterInv' /\ FlashInv'
  BY <1>1, <1>2, <1>3, OpenPageWritten DEF TypeOK
<1>5. UNCHANGED <<patch, before, start>>
  BY <1>1, Frame
<1>6. PlaceInv(j)'
  <2>1. Consumed' = Consumed /\ SubLength' = SubLength /\ Total' = Total
    BY <1>1, <1>5, Frame DEF Consumed, SubLength
  <2> QED BY <1>1, <1>2, <1>3, <1>5, <2>1 DEF PlaceInv, Opening
<1>7. ContentInv(j)'
  <2>1. \A w \in Words : mem'[start][w] = Blank /\ ~(w < 0)
    <3>1. mem'[start] = ErasedPage
      BY <1>1, Types DEF TypeOK
    <3>2. \A w \in Words : ~(w < 0)
      BY GeometryAssumption DEF Words
    <3> QED BY <3>1, <3>2 DEF ErasedPage
  <2> QED BY <1>1, <1>3, <1>5, <2>1 DEF ContentInv
<1>8. PassInv'
  BY <1>1, <1>6, <1>7 DEF PassInv
<1>9. SavingInv'
  BY <1>1 DEF SavingInv
<1> QED BY <1>4, <1>8, <1>9 DEF Kept

\* A word is programmed where the page is blank.
LEMMA WordWritten ==
    ASSUME TypeOK, NEW w \in Words, NEW value, mem[start][w] = Blank, ProgramWord(w, value)
    PROVE  /\ \A b \in Blocks \ {start} : mem'[b] = mem[b]
           /\ \A v \in Words : mem'[start][v] = IF v = w THEN value ELSE mem[start][v]
<1>1. mem' = [mem EXCEPT ![start][w] = value]
  BY DEF ProgramWord
<1>2. start \in Blocks /\ mem[start] \in Page /\ mem \in [Blocks -> Page]
  BY Types DEF TypeOK
<1> QED BY <1>1, <1>2 DEF Page

\* What the page contains once its next word is written.
LEMMA ContentStep ==
    ASSUME DeltaInv, pc = "loop", NEW j \in 0 .. step, PlaceInv(j), ContentInv(j), havePage, ~ff,
           outOff < BlockSize, ProgramWord(outOff, Patched(j + 1)[outOff]),
           outOff' = outOff + 1, UNCHANGED <<backup, counter, fixed>>
    PROVE  CounterInv' /\ FlashInv' /\ ContentInv(j)'
<1> USE DEF DeltaInv
<1>1. outOff \in Words /\ outOff \in Nat
  BY GeometryAssumption DEF TypeOK, Words
<1>2. \A w \in Words : mem[start][w] = IF w < outOff THEN Patched(j + 1)[w] ELSE Blank
  BY DEF ContentInv
<1>3. /\ \A b \in Blocks \ {start} : mem'[b] = mem[b]
      /\ \A w \in Words :
             mem'[start][w] = IF w = outOff THEN Patched(j + 1)[outOff] ELSE mem[start][w]
  BY <1>1, <1>2, WordWritten
<1>4. CounterInv' /\ FlashInv'
  BY <1>3, OpenPageWritten
<1>5. \A w \in Words : mem'[start][w] = IF w < outOff + 1 THEN Patched(j + 1)[w] ELSE Blank
  <2> SUFFICES ASSUME NEW w \in Words
               PROVE  mem'[start][w] = IF w < outOff + 1 THEN Patched(j + 1)[w] ELSE Blank
    OBVIOUS
  <2>1. w \in Int
    BY GeometryAssumption DEF Words
  <2>2. CASE w = outOff
    BY <1>1, <1>3, <2>2
  <2>3. CASE w # outOff
    <3>1. w < outOff + 1 <=> w < outOff
      BY <1>1, <2>1, <2>3
    <3> QED BY <1>2, <1>3, <2>3, <3>1
  <2> QED BY <2>2, <2>3
<1>6. ContentInv(j)'
  BY <1>5, Frame DEF ContentInv
<1> QED BY <1>4, <1>6

LEMMA PatchWordKept == ASSUME DeltaInv, PatchWord PROVE Kept
<1> USE DEF DeltaInv
<1>1. /\ pc = "loop" /\ sub =< Len(patch) /\ havePage /\ subOff < SubLength /\ outOff < BlockSize
      /\ subOff' = subOff + 1 /\ outOff' = outOff + 1
      /\ UNCHANGED <<backup, counter, fixed, pc, pos, sub, havePage, step, ff>>
      /\ ff => mem' = mem
  BY DEF PatchWord, More, Resuming
<1>2. PICK j \in 0 .. step : PlaceInv(j) /\ ContentInv(j)
  BY <1>1 DEF PassInv
<1>3. Consumed = j * BlockSize + outOff /\ step = before + 2 * j + 2
  BY <1>1, <1>2 DEF PlaceInv
<1>4. /\ outOff \in Nat /\ subOff \in Nat /\ SubLength \in Nat /\ WordsBefore(patch, sub - 1) \in Nat
      /\ j * BlockSize \in Nat /\ BlockSize \in Nat /\ j \in Nat
  <2>1. j \in Nat
    BY DEF TypeOK
  <2>2. j * BlockSize \in Nat /\ BlockSize \in Nat
    BY <2>1, Types
  <2>3. SubLength \in Nat /\ WordsBefore(patch, sub - 1) \in Nat
    BY <1>1, SubSegment
  <2>4. outOff \in Nat /\ subOff \in Nat
    BY <2>2 DEF TypeOK
  <2> QED BY <2>1, <2>2, <2>3, <2>4
<1>5. UNCHANGED <<patch, before, start>>
  BY <1>1, Frame
<1>6. CounterInv' /\ FlashInv' /\ ContentInv(j)'
  <2>1. CASE ff
    <3>1. CounterInv' /\ FlashInv'
      BY <1>1, <2>1, FlashUnchanged
    <3> QED BY <1>1, <2>1, <3>1 DEF ContentInv
  <2>2. CASE ~ff
    <3>1. ProgramWord(outOff, LET d == patch[sub].data[subOff + 1]
                                  o == backup[GetBuffer(step - 1)][outOff]
                              IN  IF patch[sub].insert THEN d ELSE (o + d) % WordSize)
      BY <2>2 DEF PatchWord, Resuming, TypeOK
    <3>2. backup[GetBuffer(step - 1)] = Patched(j)
      BY <1>1, <1>2, <2>2, PageOpen
    <3>3. outOff \in Words
      BY <1>1, <1>4 DEF Words
    <3>4. Patched(j + 1)[outOff] =
              LET d == patch[sub].data[subOff + 1]
              IN  IF patch[sub].insert THEN d ELSE (Patched(j)[outOff] + d) % WordSize
      BY <1>1, <1>3, <1>4, <3>3, NextWord DEF Consumed
    <3>5. ProgramWord(outOff, Patched(j + 1)[outOff])
      BY <3>1, <3>2, <3>4
    <3> QED BY <1>1, <1>2, <2>2, <3>5, ContentStep
  <2> QED BY <2>1, <2>2
<1>7. PlaceInv(j)'
  <2>1. Consumed' = j * BlockSize + outOff' /\ SubLength' = SubLength
    <3>1. patch' = patch /\ sub' = sub
      BY <1>1, <1>5
    <3>2. SubLength' = SubLength /\ WordsBefore(patch, sub - 1)' = WordsBefore(patch, sub - 1)
      BY ONLY <3>1 DEF SubLength
    <3>3. Consumed' = WordsBefore(patch, sub - 1) + (subOff + 1)
      BY <1>1, <3>2 DEF Consumed
    <3>4. Consumed' = Consumed + 1
      BY <1>4, <3>3 DEF Consumed
    <3> HIDE DEF Consumed
    <3>5. j * BlockSize + outOff' = j * BlockSize + outOff + 1
      BY ONLY <1>1, <1>4
    <3> QED BY ONLY <1>3, <3>2, <3>4, <3>5
  <2>2. subOff' =< SubLength /\ subOff' > 0 /\ sub' # Len(patch') + 1
    BY <1>1, <1>4, <1>5, Types DEF TypeOK
  <2> QED BY <1>1, <1>3, <1>5, <2>1, <2>2 DEF PlaceInv, Opening
<1>8. PassInv'
  BY <1>1, <1>6, <1>7 DEF PassInv
<1>9. SavingInv'
  BY <1>1 DEF SavingInv
<1> QED BY <1>6, <1>8, <1>9 DEF Kept

\* When the end of a sub-segment or of the page is reached: where the program
\* is in the delta then.
LEMMA EndChunkPlace ==
    ASSUME DeltaInv, EndChunk, NEW j \in 0 .. step, PlaceInv(j)
    PROVE  \E i \in 0 .. step' : PlaceInv(i)' /\ (havePage' => i = j)
<1> USE DEF DeltaInv
<1> DEFINE subDone == subOff = SubLength
           pageDone == outOff = BlockSize
<1>1. /\ pc = "loop" /\ sub =< Len(patch) /\ havePage /\ (subDone \/ pageDone)
      /\ sub' = IF subDone THEN sub + 1 ELSE sub
      /\ subOff' = IF subDone THEN 0 ELSE subOff
      /\ havePage' = ~pageDone
      /\ IF pageDone THEN Increment ELSE UNCHANGED <<step, ff, counter>>
      /\ UNCHANGED <<patch, before, pc, outOff>>
  BY Frame DEF EndChunk, More
<1>2. /\ Consumed = j * BlockSize + outOff /\ step = before + 2 * j + 2
      /\ subOff =< SubLength /\ (pageDone => subOff > 0)
  BY <1>1 DEF PlaceInv
<1>3. /\ before \in Nat /\ counter \in Nat /\ step \in Nat /\ Len(patch) \in Nat /\ j \in Nat
      /\ outOff \in 0 .. BlockSize /\ subOff \in Nat /\ sub \in 1 .. Len(patch) /\ BlockSize \in Nat
  <2>1. sub \in 1 .. Len(patch)
    BY <1>1, SubSegment
  <2>2. before \in Nat /\ Len(patch) \in Nat /\ BlockSize \in Nat
    BY Types
  <2>3. counter \in Nat /\ step \in Nat /\ outOff \in 0 .. BlockSize /\ subOff \in Nat
    BY DEF TypeOK
  <2> QED BY <2>1, <2>2, <2>3
<1>4. /\ SubLength \in Nat /\ WordsBefore(patch, sub - 1) \in Nat
      /\ WordsBefore(patch, sub) = WordsBefore(patch, sub - 1) + SubLength
      /\ sub < Len(patch) => Len(patch[sub + 1].data) \in Nat
      /\ WordsBefore(patch, sub) =< Total /\ Total \in Nat /\ sub + 1 - 1 = sub
  BY <1>1, Types, SubSegment
<1>5. j * BlockSize \in Nat /\ (j + 1) * BlockSize = j * BlockSize + BlockSize
  BY <1>3
<1>6. Consumed' = Consumed
  <2>1. CASE subDone
    BY <1>1, <1>3, <1>4, <2>1 DEF Consumed
  <2>2. CASE ~subDone
    BY <1>1, <2>2 DEF Consumed
  <2> QED BY <2>1, <2>2
<1>7. sub' =< Len(patch) => /\ subOff' =< SubLength'
                            /\ subOff' < SubLength' \/ subOff' = 0
                            /\ subDone \/ subOff' < SubLength'
  <2>1. CASE subDone
    <3>1. sub' = sub + 1 /\ subOff' = 0
      BY <1>1, <2>1
    <3> QED BY <1>1, <1>3, <1>4, <2>1, <3>1 DEF SubLength
  <2>2. CASE ~subDone
    <3>1. SubLength' = SubLength /\ subOff' = subOff
      BY <1>1, <2>2 DEF SubLength
    <3> QED BY <1>2, <1>3, <1>4, <2>2, <3>1
  <2> QED BY <2>1, <2>2
<1>8. sub' = Len(patch) + 1 => subDone /\ sub = Len(patch) /\ Total = j * BlockSize + outOff
  <2>1. sub' = Len(patch) + 1 => subDone /\ sub = Len(patch)
    BY <1>1, <1>3
  <2> QED BY <1>2, <1>4, <2>1 DEF Consumed, Total
<1>9. Total' = Total
  BY <1>1 DEF Total
<1>10. CASE ~pageDone
  <2>1. havePage' /\ UNCHANGED <<step, ff, counter>> /\ outOff < BlockSize
    <3>1. havePage' /\ UNCHANGED <<step, ff, counter>>
      BY <1>1, <1>10
    <3>2. outOff < BlockSize
      BY <1>3, <1>10
    <3> QED BY <3>1, <3>2
  <2>2. ASSUME sub' = Len(patch) + 1 PROVE ~ff
    <3>1. Total < (j + 1) * BlockSize
      BY <1>3, <1>5, <1>8, <2>1, <2>2
    <3>2. ASSUME ff PROVE FALSE
      <4>1. j + 1 \in 0 .. counter /\ counter >= before + 2 * (j + 1) + 1
        BY <1>1, <1>2, <1>3, <3>2 DEF ResumeInv
      <4>2. (j + 1) * BlockSize =< Total
        BY <4>1 DEF CounterInv
      <4> QED BY <1>3, <1>4, <1>5, <3>1, <4>2
    <3> QED BY <3>2
  <2>3. PlaceInv(j)'
    BY <1>1, <1>2, <1>3, <1>4, <1>5, <1>6, <1>7, <1>8, <1>9, <2>1, <2>2
       DEF PlaceInv, Opening
  <2> QED BY <2>1, <2>3
<1>11. CASE pageDone
  <2>1. /\ ~havePage' /\ step' = before + 2 * (j + 1) + 1 /\ step' = step + 1 /\ j + 1 \in 0 .. step'
        /\ ff => step' =< counter /\ (ff' <=> step' # counter)
        /\ ~ff => ~ff'
    <3>1. /\ step' = step + 1 /\ (ff => step' =< counter /\ (ff' <=> step' # counter))
          /\ (~ff => ~ff') /\ ~havePage'
      BY <1>1, <1>11, IncrementIs
    <3>2. step' = before + 2 * (j + 1) + 1 /\ j + 1 \in 0 .. step'
      BY <1>2, <1>3, <3>1
    <3> QED BY <3>1, <3>2
  <2>2. Consumed' = (j + 1) * BlockSize
    BY <1>2, <1>3, <1>5, <1>6, <1>11
  <2>3. ASSUME sub' = Len(patch) + 1
        PROVE  Total = (j + 1) * BlockSize /\ WordsBefore(patch, Len(patch) - 1) < Total
    <3>1. Total = (j + 1) * BlockSize
      BY <1>5, <1>8, <1>11, <2>3
    <3>2. WordsBefore(patch, Len(patch) - 1) + SubLength = Total
      BY <1>4, <1>8, <2>3 DEF Total
    <3>3. SubLength > 0
      BY <1>2, <1>3, <1>4, <1>11
    <3> QED BY <1>3, <1>4, <1>8, <2>3, <3>1, <3>2, <3>3
  <2>4. ASSUME sub' = Len(patch) + 1 PROVE ~ff'
    <3>1. ~Opens((j + 1) * BlockSize)
      <4>1. WordsBefore(patch, Len(patch) - 1) \in Nat
        BY <1>4, <1>8, <2>4
      <4> QED BY <1>3, <1>4, <2>3, <2>4, <4>1 DEF Opens
    <3>2. ASSUME ff' PROVE FALSE
      <4>1. j + 1 \in 0 .. counter /\ counter >= before + 2 * (j + 1) + 2
        BY <1>3, <2>1, <3>2
      <4> QED BY <3>1, <4>1 DEF CounterInv
    <3> QED BY <3>2
  <2>5. PlaceInv(j + 1)'
    <3>1. step' # before /\ Len(patch) # 0 /\ pc' = "loop" /\ outOff' = BlockSize
      BY <1>1, <1>3, <1>11, <2>1
    <3> QED BY <1>1, <1>3, <1>7, <1>9, <2>1, <2>2, <2>3, <2>4, <3>1
            DEF PlaceInv, Opening
  <2> QED BY <2>1, <2>5
<1> QED BY <1>10, <1>11

LEMMA EndChunkKept == ASSUME DeltaInv, EndChunk PROVE Kept
<1> USE DEF DeltaInv
<1>1. /\ pc = "loop" /\ sub =< Len(patch) /\ havePage
      /\ havePage' = (outOff # BlockSize)
      /\ IF outOff = BlockSize THEN Increment ELSE UNCHANGED <<step, ff, counter>>
      /\ UNCHANGED <<mem, backup, fixed, pc, pos, outOff>>
  BY DEF EndChunk, More
<1>2. PICK j \in 0 .. step : PlaceInv(j) /\ ContentInv(j)
  BY <1>1 DEF PassInv
<1>3. PICK i \in 0 .. step' : PlaceInv(i)' /\ (havePage' => i = j)
  BY <1>2, EndChunkPlace
<1>4. ContentInv(i)'
  <2>1. CASE havePage'
    <3>1. i = j /\ UNCHANGED <<ff, havePage, start>>
      BY <1>1, <1>3, <2>1, Frame
    <3> QED BY <1>1, <1>2, <3>1, Frame DEF ContentInv
  <2>2. CASE ~havePage'
    BY <2>2 DEF ContentInv
  <2> QED BY <2>1, <2>2
<1>5. PassInv'
  BY <1>3, <1>4 DEF PassInv
<1>6. SavingInv'
  BY <1>1 DEF SavingInv
<1>7. CounterInv' /\ FlashInv'
  <2>1. CASE counter' = counter
    BY <1>1, <2>1, FlashUnchanged
  <2>2. CASE counter' # counter
    <3>0. /\ before \in Nat /\ counter \in Nat /\ step \in Nat /\ j \in Nat /\ BlockSize \in Nat
          /\ j * BlockSize \in Nat /\ Total \in Nat
      <4>1. j \in Nat
        BY DEF TypeOK
      <4>2. j * BlockSize \in Nat
        BY <4>1, Types
      <4> QED BY <4>1, <4>2, Types DEF TypeOK
    <3>1. outOff = BlockSize /\ ~ff /\ step = counter /\ counter' = counter + 1
      BY <1>1, <2>2, IncrementIs
    <3>2. counter = before + 2 * j + 2 /\ counter' = before + 2 * (j + 1) + 1
      BY <1>1, <1>2, <3>0, <3>1 DEF PlaceInv
    <3>3. (j + 1) * BlockSize =< Total
      <4>1. Consumed = j * BlockSize + BlockSize /\ subOff =< SubLength
        BY <1>1, <1>2, <3>1 DEF PlaceInv
      <4>2. /\ SubLength \in Nat /\ WordsBefore(patch, sub - 1) \in Nat /\ subOff \in Nat
            /\ WordsBefore(patch, sub - 1) + SubLength =< Total
        BY <1>1, SubSegment DEF TypeOK
      <4> QED BY <3>0, <4>1, <4>2 DEF Consumed
    <3>4. mem[start] = Patched(j + 1)
      <4>1. \A w \in Words : w < outOff
        BY <3>0, <3>1 DEF Words
      <4>2. \A w \in Words : mem[start][w] = Patched(j + 1)[w]
        BY <1>1, <1>2, <3>1, <4>1 DEF ContentInv
      <4>3. mem[start] \in Page /\ Patched(j + 1) \in Page
        BY <3>0, Types
      <4> QED BY <4>2, <4>3 DEF Page
    <3>5. ASSUME NEW i2 \in 0 .. counter', counter' >= before + 2 * i2 + 1
          PROVE  i2 * BlockSize =< Total
      <4>1. CASE i2 = j + 1
        BY <3>3, <4>1
      <4>2. CASE i2 # j + 1
        <5>1. i2 \in 0 .. counter /\ counter >= before + 2 * i2 + 1
          BY <3>0, <3>2, <3>5, <4>2
        <5> QED BY <5>1 DEF CounterInv
      <4> QED BY <4>1, <4>2
    <3>6. ASSUME NEW i2 \in 0 .. counter', counter' >= before + 2 * i2 + 2
          PROVE  Opens(i2 * BlockSize)
      <4>1. i2 \in 0 .. counter /\ counter >= before + 2 * i2 + 2
        BY <3>0, <3>2, <3>6
      <4> QED BY <4>1 DEF CounterInv
    <3>7. CounterInv'
      <4>1. counter' >= before /\ Len(patch) > 0
        BY <3>0, <3>2 DEF CounterInv
      <4> QED BY <1>1, <3>5, <3>6, <4>1, Frame DEF CounterInv
    <3>8. /\ counter' # before
          /\ \A i2 \in 0 .. counter' : counter' # before + 2 * i2 + 2 /\
                                       (counter' = before + 2 * i2 + 1 => i2 = j + 1)
      BY <3>0, <3>2
    <3> QED BY <1>1, <3>4, <3>7, <3>8, Frame DEF FlashInv
  <2> QED BY <2>1, <2>2
<1> QED BY <1>5, <1>6, <1>7 DEF Kept

LEMMA TailWordKept == ASSUME DeltaInv, TailWord PROVE Kept
<1> USE DEF DeltaInv
<1>0. /\ pc = "loop" /\ sub > Len(patch) /\ outOff < BlockSize
      /\ UNCHANGED <<backup, counter, fixed, pc, pos, sub, subOff, havePage, step, ff>>
  BY DEF TailWord
<1>2. PICK j \in 0 .. step : PlaceInv(j) /\ ContentInv(j)
  BY <1>0 DEF PassInv
<1>3. /\ before \in Nat /\ counter \in Nat /\ step \in Nat /\ j \in Nat /\ BlockSize \in Nat
      /\ j * BlockSize \in Nat /\ Total \in Nat /\ outOff \in Nat /\ Len(patch) \in Nat
      /\ outOff \in Words
  <2>1. j \in Nat
    BY DEF TypeOK
  <2>2. j * BlockSize \in Nat /\ BlockSize \in Nat /\ Len(patch) \in Nat
    BY <2>1, Types
  <2>3. outOff \in Words
    BY <1>0, <2>2 DEF TypeOK, Words
  <2>4. before \in Nat /\ Total \in Nat
    BY Types
  <2>5. counter \in Nat /\ step \in Nat /\ outOff \in Nat
    BY <2>2 DEF TypeOK
  <2> QED BY <2>1, <2>2, <2>3, <2>4, <2>5
<1>4. sub = Len(patch) + 1 /\ ~ff
  <2>1. sub = Len(patch) + 1
    BY <1>0, <1>3 DEF TypeOK
  <2> QED BY <1>2, <2>1 DEF PlaceInv
<1>5. UNCHANGED <<patch, before, start>> /\ Total' = Total
  BY <1>0, Frame
<1>6. SavingInv'
  BY <1>0 DEF SavingInv
<1>7. CASE havePage
  <2>1. mem[start][outOff] = Blank
    BY <1>0, <1>2, <1>3, <1>4, <1>7 DEF ContentInv
  <2>2. /\ outOff' = outOff + 1
        /\ ProgramWord(outOff, backup[GetBuffer(step - 1)][outOff])
    BY <1>4, <2>1 DEF TailWord, Resuming, TypeOK
  <2>3. backup[GetBuffer(step - 1)] = Patched(j)
    BY <1>0, <1>2, <1>4, <1>7, PageOpen
  <2>4. j * BlockSize =< Total /\ Total =< j * BlockSize + outOff
    BY <1>2, <1>4, <1>7 DEF PlaceInv
  <2>5. Patched(j + 1)[outOff] = Patched(j)[outOff]
    BY <1>3, <2>4, NextWord
  <2>6. CounterInv' /\ FlashInv' /\ ContentInv(j)'
    BY <1>0, <1>2, <1>4, <1>7, <2>2, <2>3, <2>5, ContentStep
  <2>7. PlaceInv(j)'
    <3>1. Total =< j * BlockSize + outOff'
      BY <1>3, <2>2, <2>4
    <3> QED BY <1>0, <1>2, <1>3, <1>4, <1>5, <1>7, <2>4, <3>1 DEF PlaceInv, Opening
  <2> QED BY <1>0, <1>6, <2>6, <2>7 DEF Kept, PassInv
<1>8. CASE ~havePage
  <2>1. Len(patch) = 0 /\ step = before
    BY <1>0, <1>2, <1>3, <1>4, <1>8 DEF PlaceInv
  <2>2. backup[GetBuffer(step - 1)][outOff] = Blank
    <3>1. counter = before
      BY <1>0, <1>4, <2>1 DEF ResumeInv
    <3>2. backup = [b \in 1 .. 2 |-> ErasedPage]
      BY <2>1, <3>1 DEF FlashInv
    <3>3. backup[GetBuffer(step - 1)] = ErasedPage
      BY <3>2, BufferIs
    <3> QED BY <1>3, <3>3 DEF ErasedPage
  <2>3. mem' = mem
    <3>1. mem \in [Blocks -> Page] /\ start \in Blocks /\ mem[start] \in Page
      BY Types DEF TypeOK
    <3>2. CASE mem[start][outOff] = Blank
      <4>1. ProgramWord(outOff, Blank)
        BY <1>4, <2>2, <3>2 DEF TailWord, Resuming, TypeOK
      <4> QED BY <1>3, <3>1, <3>2, <4>1 DEF ProgramWord, Page
    <3>3. CASE mem[start][outOff] # Blank
      BY <3>3 DEF TailWord
    <3> QED BY <3>2, <3>3
  <2>4. CounterInv' /\ FlashInv'
    BY <1>0, <2>3, FlashUnchanged
  <2>5. PlaceInv(j)' /\ ContentInv(j)'
    BY <1>0, <1>2, <1>3, <1>4, <1>5, <1>8, <2>1 DEF PlaceInv, ContentInv, Opening
  <2> QED BY <1>0, <1>6, <2>4, <2>5 DEF Kept, PassInv
<1> QED BY <1>7, <1>8

LEMMA DeltaEndsKept == ASSUME DeltaInv, DeltaEnds PROVE Kept
<1> USE DEF DeltaInv
<1>1. /\ pc = "loop" /\ pc' = "done" /\ sub > Len(patch) /\ outOff = BlockSize
      /\ UNCHANGED <<mem, backup, counter, fixed, pos, sub, subOff, outOff, havePage, step, ff>>
  BY DEF DeltaEnds, loop
<1>2. PICK j \in 0 .. step : PlaceInv(j) /\ ContentInv(j)
  BY <1>1 DEF PassInv
<1>3. sub = Len(patch) + 1
  BY <1>1, Types DEF TypeOK
<1>4. UNCHANGED <<patch, before, start>> /\ Total' = Total /\ Patched(j + 1)' = Patched(j + 1)
  BY <1>1, Frame
<1>5. PlaceInv(j)' /\ ContentInv(j)'
  <2>1. ~(sub =< Len(patch))
    BY <1>3, Types
  <2> QED BY <1>1, <1>2, <1>3, <1>4, <2>1 DEF PlaceInv, ContentInv, Opening
<1>6. SavingInv'
  BY <1>1 DEF SavingInv
<1>7. CounterInv' /\ FlashInv'
  BY <1>1, FlashUnchanged
<1> QED BY <1>1, <1>5, <1>6, <1>7 DEF Kept, PassInv

\* The invariant is inductive.
LEMMA NextKept == ASSUME DeltaInv, [Next]_vars PROVE DeltaInv'
<1>1. TypeOK' /\ ResumeInv'
  <2>1. TypeOK'
    BY NextTypeOK
  <2> QED BY <2>1, ResumeKept DEF DeltaInv
<1>2. CASE PowerLoss
  <2>1. UNCHANGED <<mem, backup, counter, fixed, pos>> /\ pc' = "off"
    BY <1>2 DEF PowerLoss
  <2>2. CounterInv' /\ FlashInv'
    BY <2>1, FlashUnchanged DEF DeltaInv
  <2> QED BY <1>1, <2>1, <2>2 DEF DeltaInv, PassInv, SavingInv
<1>3. CASE UNCHANGED vars
  <2>1. UNCHANGED <<mem, backup, counter, fixed>>
    BY <1>3 DEF vars
  <2>2. CounterInv' /\ FlashInv'
    BY <2>1, FlashUnchanged DEF DeltaInv
  <2>3. SavingInv'
    BY <1>3 DEF DeltaInv, vars, SavingInv, fixed
  <2>4. PassInv'
    BY <1>3 DEF DeltaInv, vars, fixed, loop, PassInv, PlaceInv, ContentInv, Consumed, SubLength,
                Total, Patched
  <2> QED BY <1>1, <2>2, <2>3, <2>4 DEF DeltaInv
<1>4. CASE Boot \/ Apply
  <2>1. Kept
    BY <1>4, BootKept, NewPageKept, SaveKept, PageSavedKept, ErasePatchedKept, PatchWordKept,
       EndChunkKept, TailWordKept, DeltaEndsKept DEF Apply
  <2> QED BY <1>1, <2>1 DEF DeltaInv, Kept
<1> QED BY <1>2, <1>3, <1>4 DEF Next, Terminated

-----------------------------------------------------------------------------
(* The theorems. *)

LEMMA DeltaInvAlways == Spec => []DeltaInv
BY InitKept, NextKept, PTL DEF Spec

\* The number of passes is the number of pages the delta covers.
LEMMA PassesAre ==
    ASSUME TypeOK, NEW n \in Nat, Total =< n * BlockSize,
           n = 0 \/ (n - 1) * BlockSize < Total
    PROVE  Passes = n
<1>1. BlockSize \in Nat /\ BlockSize > 0 /\ Total \in Nat /\ n * BlockSize \in Nat
  BY Types
<1> DEFINE r == Total + BlockSize - 1 - n * BlockSize
<1>2. r \in 0 .. BlockSize - 1
  <2>1. CASE n = 0
    BY <1>1, <2>1
  <2>2. CASE n # 0
    <3>1. (n - 1) * BlockSize = n * BlockSize - BlockSize
      BY <1>1
    <3> QED BY <1>1, <2>2, <3>1
  <2> QED BY <2>1, <2>2
<1>3. Total + BlockSize - 1 = n * BlockSize + r
  BY <1>1
<1>4. (n * BlockSize + r) \div BlockSize = n
  <2> HIDE DEF r
  <2> QED BY <1>1, <1>2
<1> QED BY <1>3, <1>4 DEF Passes

LEMMA DoneIsPatched ==
    ASSUME DeltaInv, pc = "done"
    PROVE  Passes \in Nat /\ mem[start] = Patched(Passes)
<1> USE DEF DeltaInv
<1>1. PICK j \in 0 .. step : PlaceInv(j) /\ ContentInv(j)
  BY DEF PassInv
<1>2. sub = Len(patch) + 1 /\ outOff = BlockSize /\ ~ff /\ step = counter
  BY <1>1 DEF PlaceInv, ResumeInv
<1>3. /\ before \in Nat /\ step \in Nat /\ j \in Nat /\ BlockSize \in Nat /\ BlockSize > 0
      /\ j * BlockSize \in Nat /\ Total \in Nat /\ Len(patch) \in Nat
  <2>1. j \in Nat
    BY DEF TypeOK
  <2>2. j * BlockSize \in Nat
    BY <2>1, Types
  <2> QED BY <2>1, <2>2, Types DEF TypeOK
<1>4. CASE havePage
  <2>1. j * BlockSize =< Total /\ Total =< j * BlockSize + BlockSize
    BY <1>1, <1>2, <1>4 DEF PlaceInv
  <2>2. mem[start] = Patched(j + 1)
    <3>1. \A w \in Words : w < outOff
      BY <1>2, <1>3 DEF Words
    <3>2. \A w \in Words : mem[start][w] = Patched(j + 1)[w]
      BY <1>1, <1>2, <1>4, <3>1 DEF ContentInv
    <3>3. mem[start] \in Page /\ Patched(j + 1) \in Page
      BY <1>3, Types
    <3> QED BY <3>2, <3>3 DEF Page
  <2>3. CASE Total = j * BlockSize
    <3>1. Passes = j
      <4>1. j = 0 \/ (j - 1) * BlockSize < Total
        BY <1>3, <2>3
      <4> QED BY <1>3, <2>3, <4>1, PassesAre
    <3>2. Patched(j + 1) = Patched(j)
      <4>1. WordsBefore(patch, Len(patch)) =< j * BlockSize
        BY <1>3, <2>3 DEF Total
      <4> QED BY <4>1, <1>3, Types, PatchedPagePast DEF Patched
    <3> QED BY <1>3, <2>2, <3>1, <3>2
  <2>4. CASE Total # j * BlockSize
    <3>1. (j + 1) * BlockSize = j * BlockSize + BlockSize /\ j + 1 - 1 = j /\ j + 1 \in Nat
      BY <1>3
    <3>2. Passes = j + 1
      BY <1>3, <2>1, <2>4, <3>1, PassesAre
    <3> QED BY <2>2, <3>1, <3>2
  <2> QED BY <2>3, <2>4
<1>5. CASE ~havePage /\ Len(patch) = 0
  <2>1. counter = before
    BY <1>1, <1>2, <1>5 DEF PlaceInv
  <2>2. Total = 0
    BY <1>5, Types, WordsBeforeStep DEF Total
  <2>3. Passes = 0
    BY <1>3, <2>2, PassesAre
  <2> QED BY <2>1, <2>3, PatchedPageStep DEF FlashInv, Patched
<1>6. CASE ~havePage /\ Len(patch) # 0
  <2>1. Total = j * BlockSize /\ step = before + 2 * j + 1
    BY <1>1, <1>2, <1>6 DEF PlaceInv
  <2>2. Passes = j
    <3>1. j = 0 \/ (j - 1) * BlockSize < Total
      BY <1>3, <2>1
    <3> QED BY <1>3, <2>1, <3>1, PassesAre
  <2>3. mem[start] = Patched(j)
    BY <1>2, <1>3, <2>1 DEF FlashInv
  <2> QED BY <1>3, <2>2, <2>3
<1> QED BY <1>4, <1>5, <1>6

LEMMA ImageIsPatched ==
    ASSUME DeltaInv, pc = "done"
    PROVE  mem = [image EXCEPT ![start] = Patched(Passes)]
<1>1. mem[start] = Patched(Passes) /\ \A b \in Blocks \ {start} : mem[b] = image[b]
  BY DoneIsPatched DEF DeltaInv, FlashInv
<1>2. mem \in [Blocks -> Page] /\ image \in [Blocks -> Page]
  BY DeltaAssumption DEF DeltaInv, TypeOK, Page, Word
<1> QED BY <1>1, <1>2

\* For every delta, image and power loss: the image is the one the delta makes
\* without power loss (applyDeltaPatch).
THEOREM DeltaSurvivesPowerLoss == Spec => []PowerLossIsInvisible
<1>1. DeltaInv => PowerLossIsInvisible
  BY ImageIsPatched DEF PowerLossIsInvisible
<1> QED BY <1>1, DeltaInvAlways, PTL

\* While a page is open, its copy is complete (getBuffer, savePageToBuffer).
THEOREM OpenPageHasCopy == Spec => []SavedPageIsIntact
<1>1. DeltaInv => SavedPageIsIntact
  <2> SUFFICES ASSUME DeltaInv, counter % 2 = 0, counter > before
               PROVE  backup[GetBuffer(counter - 1)] = Patched((counter - before - 2) \div 2)
    BY DEF SavedPageIsIntact
  <2> DEFINE j == (counter - before - 2) \div 2
  <2>1. counter \in Nat /\ before \in Nat /\ before % 2 = 0
    BY Types DEF DeltaInv, TypeOK
  <2>2. j \in 0 .. counter /\ counter = before + 2 * j + 2
    BY <2>1
  <2> HIDE DEF j
  <2>3. backup[GetBuffer(counter - 1)] = Patched(j)
    BY <2>2 DEF DeltaInv, FlashInv
  <2> QED BY <2>3 DEF j
<1> QED BY <1>1, DeltaInvAlways, PTL

LEMMA OneBlockIsPatched ==
    ASSUME DeltaInv, pc = "done", Total =< BlockSize
    PROVE  mem = ExecuteBSDiffPatch(patch, start, image)
<1>1. TypeOK /\ Total \in Nat /\ BlockSize \in Nat /\ BlockSize > 0 /\ start \in Blocks
  BY Types DEF DeltaInv
<1>2. image \in [Blocks -> Page] /\ image[start] \in Page /\ Blocks \subseteq Nat
  BY <1>1, Types, GeometryAssumption
<1>3. Patched(Passes) = NextPage(patch, image[start], 0)
  <2>1. Patched(0) = image[start] /\ Patched(1) = NextPage(patch, image[start], 0)
    <3>1. Patched(0) = image[start]
      BY PatchedPageStep DEF Patched
    <3>2. 0 \in Nat /\ 0 + 1 = 1
      OBVIOUS
    <3>3. Patched(1) = NextPage(patch, Patched(0), 0)
      BY <3>2, PatchedPageStep DEF Patched
    <3> QED BY <3>1, <3>3
  <2>2. CASE Total = 0
    <3>1. Passes = 0
      BY <1>1, <2>2, PassesAre
    <3>2. \A w \in Words : ~(0 * BlockSize + w < WordsBefore(patch, Len(patch)))
      BY <1>1, <2>2 DEF Words, Total
    <3>3. NextPage(patch, image[start], 0) = image[start]
      BY <1>2, <3>2 DEF NextPage, Page
    <3> QED BY <2>1, <3>1, <3>3
  <2>3. CASE Total # 0
    <3>1. 1 \in Nat /\ 1 * BlockSize = BlockSize /\ (1 - 1) * BlockSize = 0
      BY <1>1
    <3>2. Passes = 1
      BY <1>1, <2>3, <3>1, PassesAre
    <3> QED BY <2>1, <3>2
  <2> QED BY <2>2, <2>3
<1>4. mem = [image EXCEPT ![start] = NextPage(patch, image[start], 0)]
  BY <1>3, ImageIsPatched
<1>5. ASSUME NEW b \in Blocks, NEW w \in Words
      PROVE  (IF b = start THEN NextPage(patch, image[start], 0)[w] ELSE image[b][w]) =
             LET k == (b - start) * BlockSize + w
             IN  IF k >= 0 /\ k < WordsBefore(patch, Len(patch))
                 THEN PatchedWord(patch, k, image[b][w]) ELSE image[b][w]
  <2>1. w \in 0 .. BlockSize - 1 /\ b \in Nat /\ start \in Nat
    BY <1>1, <1>2 DEF Words
  <2>2. CASE b = start
    <3>1. (b - start) * BlockSize + w = w /\ 0 * BlockSize + w = w /\ w >= 0
      BY <1>1, <2>1, <2>2
    <3>2. NextPage(patch, image[start], 0)[w] =
              IF 0 * BlockSize + w < WordsBefore(patch, Len(patch))
              THEN PatchedWord(patch, 0 * BlockSize + w, image[start][w]) ELSE image[start][w]
      BY DEF NextPage
    <3> QED BY <2>2, <3>1, <3>2
  <2>3. CASE b < start
    <3>1. (b - start) * BlockSize =< (-1) * BlockSize
      BY <1>1, <2>1, <2>3
    <3>2. ~((b - start) * BlockSize + w >= 0)
      BY <1>1, <2>1, <3>1
    <3> QED BY <2>1, <2>3, <3>2
  <2>4. CASE b > start
    <3>1. (b - start) * BlockSize >= 1 * BlockSize
      BY <1>1, <2>1, <2>4
    <3>2. ~((b - start) * BlockSize + w < WordsBefore(patch, Len(patch)))
      BY <1>1, <2>1, <3>1 DEF Total
    <3> QED BY <2>1, <2>4, <3>2
  <2> QED BY <2>1, <2>2, <2>3, <2>4
<1>6. NextPage(patch, image[start], 0) =
          [w \in Words |-> NextPage(patch, image[start], 0)[w]]
  BY DEF NextPage
<1>7. ExecuteBSDiffPatch(patch, start, image) =
          [b \in Blocks |-> [w \in Words |->
              IF b = start THEN NextPage(patch, image[start], 0)[w] ELSE image[b][w]]]
  BY <1>5, Zenon DEF ExecuteBSDiffPatch
<1>8. \A b \in Blocks : mem[b] = [w \in Words |->
              IF b = start THEN NextPage(patch, image[start], 0)[w] ELSE image[b][w]]
  BY <1>2, <1>4, <1>6 DEF Page
<1>9. mem = [b \in Blocks |-> mem[b]]
  BY DEF DeltaInv, TypeOK
<1> QED BY <1>7, <1>8, <1>9

\* A delta that fits in a block does what Hugin's virtual machine computed
\* (executeBSDiffPatch).
THEOREM DeltaAgreesWithHugin == Spec => []OneBlockDelta
<1>1. DeltaInv => OneBlockDelta
  BY OneBlockIsPatched DEF OneBlockDelta
<1> QED BY <1>1, DeltaInvAlways, PTL
================================================================================
