---------------------------- MODULE WriteCacheProofs ----------------------------
(***************************************************************************)
(* Proofs about WriteCache, for every unit, every size of the flash and    *)
(* every cutting of the copies, when a copy leaves no gap inside a unit    *)
(* (Gaps = {0}): no byte is lost but those of copies that begin inside a   *)
(* unit, and nothing else is programmed.                                   *)
(***************************************************************************)
EXTENDS WriteCache, TLAPS

W      == WRITE_GRANULARITY
Flash  == [0 .. Size - 1 -> Int]
Buffer == [1 .. W -> Int]
Device == [flash : Flash, buffer : Buffer, pos : 0 .. W - 1, prev : Nat]

\* A device w to which copies were made to the addresses asked, the last one up to
\* next: what is asked is in the flash, up to the unit that waits in the cache, and
\* all the rest is blank.
Sound(w, to, end) ==
    /\ w \in Device
    /\ end \in 0 .. Size /\ to \subseteq 0 .. end - 1
    /\ w.pos > 0 =>
          /\ Misalignment(w.prev) = 0 /\ end = w.prev + w.pos
          /\ w.prev .. end - 1 \subseteq to
          /\ \A i \in 1 .. w.pos : w.buffer[i] = w.prev + i - 1
    /\ \A a \in 0 .. Size - 1 :
          w.flash[a] = IF a \in to /\ (w.pos > 0 => a < w.prev) THEN a ELSE Erased

\* What a copy leaves that began inside a unit: not all it was asked for is in the
\* flash, but what is in the flash is in its place, and what waits is its last bytes.
Image(f, to) == \A a \in 0 .. Size - 1 : f[a] = IF a \in to THEN a ELSE Erased
Loose(w, to, end) ==
    /\ w \in Device /\ w.pos > 0
    /\ end \in 0 .. Size /\ to \subseteq 0 .. end - 1
    /\ end = w.prev + w.pos /\ \A i \in 1 .. w.pos : w.buffer[i] = w.prev + i - 1
    /\ Image(w.flash, to)

\* `to` is what is in the flash or waits in an aligned unit: at least what no copy that
\* began inside a unit was asked for.
Accounts(w, to, all, ins, end) ==
    /\ all \ ins \subseteq to /\ to \subseteq all /\ ins \subseteq all
    /\ Sound(w, to, end) \/ (Loose(w, to, end) /\ w.prev .. end - 1 \subseteq ins)
WriteCacheInv == \E to \in SUBSET asked : Accounts(Now, to, asked, inside, next)

-----------------------------------------------------------------------------
(* Units. *)

LEMMA UnitSize == W \in Nat /\ W > 0 /\ Size \in Nat /\ Misalignment(Size) = 0
BY WriteCacheAssumption DEF W, Misalignment

LEMMA Division ==
    ASSUME NEW n \in Nat
    PROVE  /\ n = W * (n \div W) + (n % W) /\ n \div W \in Nat /\ n % W \in 0 .. W - 1
           /\ \A q \in Nat, r \in 0 .. W - 1 : n = W * q + r => r = n % W
<1>1. n = W * (n \div W) + (n % W) /\ n \div W \in Nat /\ n % W \in 0 .. W - 1
  BY WriteCacheAssumption DEF W
<1>2. ASSUME NEW q \in Nat, NEW r \in 0 .. W - 1, n = W * q + r PROVE r = n % W
  BY <1>2, WriteCacheAssumption DEF W
<1> QED BY <1>1, <1>2

LEMMA AlignedParts ==
    ASSUME NEW n \in Nat
    PROVE  /\ Misalignment(n) \in 0 .. W - 1 /\ Aligned(n) \in 0 .. n
           /\ Misalignment(n) \in Nat /\ Aligned(n) \in Nat
           /\ Misalignment(Aligned(n)) = 0 /\ n = Aligned(n) + Misalignment(n)
<1>1. n = W * (n \div W) + (n % W) /\ n \div W \in Nat /\ n % W \in 0 .. W - 1
  BY Division
<1>2. Misalignment(n) = n % W
  BY DEF Misalignment, W
<1>3. Aligned(n) = W * (n \div W) + 0 /\ Aligned(n) \in Nat
  BY <1>1, <1>2, UnitSize DEF Aligned
<1>4. Aligned(n) % W = 0
  BY <1>1, <1>3, Division, UnitSize
<1> QED BY <1>1, <1>2, <1>3, <1>4 DEF Aligned, Misalignment, W

LEMMA AlignedSum ==
    ASSUME NEW a \in Nat, NEW b \in Nat, Misalignment(a) = 0, Misalignment(b) = 0
    PROVE  Misalignment(a + b) = 0
<1> DEFINE p == a \div W
           q == b \div W
<1>1. a = W * p /\ b = W * q /\ p \in Nat /\ q \in Nat
  BY Division, UnitSize DEF Misalignment, W
<1>2. a + b = W * (p + q) + 0 /\ p + q \in Nat
  BY <1>1, UnitSize
<1>3. a + b \in Nat /\ 0 \in 0 .. W - 1
  BY UnitSize
<1>4. 0 = (a + b) % W
  BY <1>2, <1>3, Division
<1> QED BY <1>4 DEF Misalignment, W

LEMMA AlignedGap ==
    ASSUME NEW a \in Nat, NEW b \in Nat, Misalignment(a) = 0, Misalignment(b) = 0, a < b
    PROVE  a + W =< b
<1> DEFINE p == a \div W
           q == b \div W
<1>1. a = W * p /\ b = W * q /\ p \in Nat /\ q \in Nat
  BY Division, UnitSize DEF Misalignment, W
<1> HIDE DEF p, q
<1>2. p < q
  BY <1>1, UnitSize
<1>3. W * (p + 1) =< W * q
  BY <1>1, <1>2, UnitSize
<1>4. W * (p + 1) = W * p + W
  BY <1>1, UnitSize
<1> QED BY <1>1, <1>3, <1>4, UnitSize

LEMMA UnitIsAligned == Misalignment(W) = 0 /\ Aligned(W) = W
<1>1. W = W * 1 + 0
  BY UnitSize
<1>2. 0 = W % W
  BY <1>1, Division, UnitSize
<1> QED BY <1>2, UnitSize DEF Misalignment, Aligned, W

-----------------------------------------------------------------------------
(* Bytes. *)

LEMMA MinOfTwo ==
    ASSUME NEW x \in Nat, NEW y \in Nat
    PROVE  Min({x, y}) = IF x =< y THEN x ELSE y
<1> DEFINE m == IF x =< y THEN x ELSE y
<1>1. m \in {x, y} /\ \A z \in {x, y} : m =< z
  OBVIOUS
<1>2. \A z \in {x, y} : (\A v \in {x, y} : z =< v) => z = m
  OBVIOUS
<1>3. Min({x, y}) = CHOOSE z \in {x, y} : \A v \in {x, y} : z =< v
  BY DEF Min
<1> HIDE DEF m
<1> QED BY <1>1, <1>2, <1>3 DEF m

LEMMA BytesType ==
    ASSUME NEW dest \in Nat, NEW n \in Nat
    PROVE  /\ Bytes(dest, n) \in Seq(Int) /\ Len(Bytes(dest, n)) = n
           /\ \A i \in 1 .. n : Bytes(dest, n)[i] = dest + i - 1
BY DEF Bytes

LEMMA BytesCut ==
    ASSUME NEW dest \in Nat, NEW len \in Nat, NEW n \in 0 .. len
    PROVE  /\ From(Bytes(dest, len), n) = Bytes(dest + n, len - n)
           /\ SubSeq(Bytes(dest, len), 1, n) = Bytes(dest, n)
BY BytesType DEF Bytes, From

LEMMA Concatenation ==
    ASSUME NEW x \in Seq(Int), NEW y \in Seq(Int)
    PROVE  /\ x \o y \in Seq(Int) /\ Len(x \o y) = Len(x) + Len(y)
           /\ \A i \in 1 .. Len(x) : (x \o y)[i] = x[i]
           /\ \A i \in 1 .. Len(y) : (x \o y)[Len(x) + i] = y[i]
OBVIOUS

LEMMA Prefix ==
    ASSUME NEW x \in Seq(Int), NEW n \in 0 .. Len(x)
    PROVE  /\ SubSeq(x, 1, n) \in Seq(Int) /\ Len(SubSeq(x, 1, n)) = n
           /\ \A i \in 1 .. n : SubSeq(x, 1, n)[i] = x[i]
OBVIOUS

LEMMA OverwriteType ==
    ASSUME NEW buffer \in Buffer, NEW at \in Nat, NEW bytes \in Seq(Int)
    PROVE  /\ Overwrite(buffer, at, bytes) \in Buffer
           /\ \A i \in 1 .. W :
                 Overwrite(buffer, at, bytes)[i] =
                     IF at < i /\ i =< at + Len(bytes) THEN bytes[i - at] ELSE buffer[i]
<1>1. DOMAIN buffer = 1 .. W /\ \A i \in 1 .. W : buffer[i] \in Int
  BY DEF Buffer
<1>2. \A i \in 1 .. W : at < i /\ i =< at + Len(bytes) => bytes[i - at] \in Int
  BY UnitSize
<1> QED BY <1>1, <1>2 DEF Overwrite, Buffer

-----------------------------------------------------------------------------
(* Writing to blank flash. *)

\* The flash with the bytes at dest.
Programmed(f, dest, bytes) ==
    [a \in 0 .. Size - 1 |->
        IF a \in dest .. dest + Len(bytes) - 1 THEN bytes[a - dest + 1] ELSE f[a]]
Blank(f, from, to) == \A a \in from .. to - 1 : f[a] = Erased

\* Whole units are programmed where the flash is blank.
LEMMA ProgramBlank ==
    ASSUME NEW f \in Flash, NEW dest \in Nat, NEW bytes \in Seq(Int),
           Misalignment(dest) = 0, Misalignment(Len(bytes)) = 0,
           dest + Len(bytes) =< Size, Blank(f, dest, dest + Len(bytes))
    PROVE  ProgramFlash(f, dest, bytes) = Programmed(f, dest, bytes)
<1> DEFINE end == dest + Len(bytes)
           units == {a \in dest .. end - 1 : Misalignment(a) = 0}
           used == {a \in units : Unit(f, a) # ErasedUnit}
<1>0. Len(bytes) \in Nat
  OBVIOUS
<1>1. Len(bytes) \in Nat /\ end \in Nat /\ Misalignment(end) = 0
  BY <1>0, AlignedSum
<1>2. ASSUME NEW a \in units PROVE Unit(f, a) = ErasedUnit
  <2>1. a \in Nat /\ a + W =< end /\ dest =< a
    BY <1>1, AlignedGap
  <2>2. \A i \in 1 .. W : f[a + i - 1] = Erased
    BY <2>1, UnitSize DEF Blank
  <2> QED BY <2>2 DEF Unit, ErasedUnit, W
<1>3. used = {}
  BY <1>2
<1>4. DOMAIN f = 0 .. Size - 1
  BY DEF Flash
<1>5. ProgramFlash(f, dest, bytes) =
          [a \in DOMAIN f |->
              IF a \in dest .. end - 1 /\ \A u \in used : a < u
              THEN bytes[a - dest + 1] ELSE f[a]]
  BY DEF ProgramFlash
<1> HIDE DEF used
<1> QED BY ONLY <1>3, <1>4, <1>5 DEF Programmed

LEMMA WriteBlank ==
    ASSUME NEW f \in Flash, NEW dest \in Nat, NEW bytes \in Seq(Int),
           Misalignment(dest) = 0, Misalignment(Len(bytes)) = 0,
           dest + Len(bytes) =< Size, Blank(f, dest, dest + Len(bytes))
    PROVE  WriteToNAND(f, dest, bytes) = Programmed(f, dest, bytes)
<1>1. Aligned(Len(bytes)) = Len(bytes)
  BY DEF Aligned
<1>2. SubSeq(bytes, 1, Len(bytes)) = bytes
  OBVIOUS
<1>3. WriteAligned(f, dest, bytes) = ProgramFlash(f, dest, bytes)
  BY <1>1, <1>2 DEF WriteAligned
<1>4. WriteToNAND(f, dest, bytes) = WriteAligned(f, dest, bytes)
  BY DEF WriteToNAND
<1> QED BY <1>3, <1>4, ProgramBlank

\* A copy that begins with a unit goes through to the flash.
LEMMA WriteThroughBlank ==
    ASSUME NEW w \in Device, w.pos = 0, NEW dest \in Nat, NEW len \in Nat, Misalignment(dest) = 0,
           dest + len =< Size, Blank(w.flash, dest, dest + len),
           NEW r, r = WriteThrough(w, dest, Bytes(dest, len))
    PROVE  /\ r.flash = [a \in 0 .. Size - 1 |->
                            IF a \in dest .. dest + Aligned(len) - 1 THEN a ELSE w.flash[a]]
           /\ r \in Device /\ r.pos = Misalignment(len)
           /\ r.pos > 0 => /\ r.prev = dest + Aligned(len)
                           /\ \A i \in 1 .. r.pos : r.buffer[i] = r.prev + i - 1
<1> DEFINE n == Aligned(len)
           mis == Misalignment(len)
           rest == From(Bytes(dest, len), n)
           f == WriteToNAND(w.flash, dest, SubSeq(Bytes(dest, len), 1, n))
<1>0. W \in Nat /\ W > 0
  BY UnitSize
<1>1. /\ n \in Nat /\ n =< len /\ mis \in Nat /\ mis < W
      /\ len = n + mis /\ mis = len - n /\ Misalignment(n) = 0
  <2>1. /\ n \in 0 .. len /\ mis \in 0 .. W - 1 /\ n \in Nat /\ mis \in Nat
        /\ len = n + mis /\ Misalignment(n) = 0
    BY AlignedParts
  <2> HIDE DEF n, mis
  <2> QED BY <1>0, <2>1
<1>2. rest = Bytes(dest + n, mis) /\ SubSeq(Bytes(dest, len), 1, n) = Bytes(dest, n)
  <2>1. n \in 0 .. len /\ len - n = mis
    BY <1>1
  <2> HIDE DEF n, mis
  <2> QED BY <2>1, BytesCut
<1>3. Len(Bytes(dest, len)) = len
  BY BytesType
<1> HIDE DEF n, mis
<1>4. /\ Bytes(dest, n) \in Seq(Int) /\ Len(Bytes(dest, n)) = n
      /\ \A i \in 1 .. n : Bytes(dest, n)[i] = dest + i - 1
  BY <1>1, BytesType
<1>5. dest + n =< Size /\ Blank(w.flash, dest, dest + n)
  BY <1>1, UnitSize DEF Blank
<1>6. f = Programmed(w.flash, dest, Bytes(dest, n))
  <2> DEFINE start == Bytes(dest, n)
  <2>1. start \in Seq(Int) /\ Len(start) = n
    BY <1>4
  <2>2. SubSeq(Bytes(dest, len), 1, n) = start
    BY <1>2
  <2>3. w.flash \in Flash
    BY DEF Device
  <2>4. Misalignment(Len(start)) = 0 /\ dest + Len(start) =< Size
        /\ Blank(w.flash, dest, dest + Len(start))
    BY <1>1, <1>5, <2>1
  <2> HIDE DEF start
  <2>5. WriteToNAND(w.flash, dest, start) = Programmed(w.flash, dest, start)
    BY <2>1, <2>3, <2>4, WriteBlank
  <2> QED BY <2>2, <2>5 DEF start
<1>7. f = [a \in 0 .. Size - 1 |-> IF a \in dest .. dest + n - 1 THEN a ELSE w.flash[a]]
  <2>1. ASSUME NEW a \in dest .. dest + n - 1 PROVE Bytes(dest, n)[a - dest + 1] = a
    BY <1>1, <1>4
  <2> QED BY <1>4, <1>6, <2>1 DEF Programmed
<1>8. r = IF rest = <<>> THEN [w EXCEPT !.flash = f]
          ELSE [flash |-> f, buffer |-> Overwrite(w.buffer, 0, rest),
                pos |-> Len(rest), prev |-> dest + n]
  BY <1>3 DEF WriteThrough, n
<1>9. /\ rest \in Seq(Int) /\ Len(rest) = mis
      /\ \A i \in 1 .. mis : rest[i] = dest + n + i - 1
  <2>1. dest + n \in Nat /\ mis \in Nat
    BY <1>1
  <2> HIDE DEF rest
  <2> QED BY <1>2, <2>1, BytesType
<1> HIDE DEF rest, f
<1>10. f \in Flash /\ w.buffer \in Buffer /\ w.prev \in Nat
  <2>1. w.flash \in Flash
    BY DEF Device
  <2> QED BY <1>7, <2>1, UnitSize DEF Flash, Device
<1>11. CASE rest = <<>>
  <2>1. mis = 0 /\ r = [w EXCEPT !.flash = f]
    BY <1>8, <1>9, <1>11
  <2>2. r \in Device /\ r.flash = f /\ r.pos = 0
    BY <2>1, <1>10, <1>0 DEF Device
  <2> QED BY <2>1, <2>2, <1>7 DEF n, mis
<1>12. CASE rest # <<>>
  <2>1. r = [flash |-> f, buffer |-> Overwrite(w.buffer, 0, rest), pos |-> mis, prev |-> dest + n]
    BY <1>8, <1>9, <1>12
  <2>2. Overwrite(w.buffer, 0, rest) \in Buffer
        /\ \A i \in 1 .. mis : Overwrite(w.buffer, 0, rest)[i] = rest[i]
    <3>1. /\ Overwrite(w.buffer, 0, rest) \in Buffer
          /\ \A i \in 1 .. W :
                 Overwrite(w.buffer, 0, rest)[i] =
                     IF 0 < i /\ i =< 0 + Len(rest) THEN rest[i - 0] ELSE w.buffer[i]
      <4>1. rest \in Seq(Int) /\ w.buffer \in Buffer /\ 0 \in Nat
        BY <1>9, <1>10
      <4> QED BY ONLY <4>1, OverwriteType
    <3>2. \A i \in 1 .. mis : i \in 1 .. W /\ 0 < i /\ i =< 0 + mis /\ i - 0 = i
      BY ONLY <1>0, <1>1
    <3> QED BY ONLY <3>1, <3>2, <1>9
  <2>3. r \in Device
    BY <2>1, <2>2, <1>0, <1>1, <1>10 DEF Device
  <2>4. r.flash = f /\ r.pos = mis /\ r.prev = dest + n
        /\ \A i \in 1 .. mis : r.buffer[i] = rest[i]
    BY <2>1, <2>2
  <2> QED BY <2>3, <2>4, <1>7, <1>9 DEF n, mis
<1> QED BY <1>11, <1>12

\* After a copy that begins with a unit, with nothing in the cache.
LEMMA WriteThroughSound ==
    ASSUME NEW w, NEW to, NEW end, Sound(w, to, end), w.pos = 0,
           NEW dest \in Nat, NEW len \in Nat, end =< dest, Misalignment(dest) = 0,
           dest + len =< Size
    PROVE  Sound(WriteThrough(w, dest, Bytes(dest, len)),
                 to \cup (dest .. dest + len - 1), dest + len)
<1> DEFINE n == Aligned(len)
           mis == Misalignment(len)
           asks == to \cup (dest .. dest + len - 1)
<1>1. /\ w \in Device /\ end \in 0 .. Size /\ to \subseteq 0 .. end - 1
      /\ \A a \in 0 .. Size - 1 : w.flash[a] = IF a \in to THEN a ELSE Erased
  BY DEF Sound
<1>2. Blank(w.flash, dest, dest + len)
  BY <1>1, UnitSize DEF Blank
<1>3. PICK r : r = WriteThrough(w, dest, Bytes(dest, len))
  OBVIOUS
<1>4. /\ r.flash = [a \in 0 .. Size - 1 |-> IF a \in dest .. dest + n - 1 THEN a ELSE w.flash[a]]
      /\ r \in Device /\ r.pos = mis
      /\ r.pos > 0 => r.prev = dest + n /\ \A i \in 1 .. r.pos : r.buffer[i] = r.prev + i - 1
  BY <1>1, <1>2, <1>3, WriteThroughBlank
<1>5. mis \in Nat /\ n \in Nat /\ Misalignment(n) = 0 /\ len = n + mis
  BY AlignedParts
<1> HIDE DEF n, mis
<1>6. Misalignment(dest + n) = 0
  BY <1>5, AlignedSum
<1>7. dest + len \in 0 .. Size /\ asks \subseteq 0 .. dest + len - 1
  BY <1>1, UnitSize
<1>8. r.pos > 0 =>
          /\ Misalignment(r.prev) = 0 /\ dest + len = r.prev + r.pos
          /\ r.prev .. dest + len - 1 \subseteq asks
          /\ \A i \in 1 .. r.pos : r.buffer[i] = r.prev + i - 1
  BY <1>4, <1>5, <1>6
<1>9. ASSUME NEW a \in 0 .. Size - 1
      PROVE  r.flash[a] = IF a \in asks /\ (r.pos > 0 => a < r.prev) THEN a ELSE Erased
  <2>1. r.flash[a] = IF a \in dest .. dest + n - 1 THEN a
                     ELSE IF a \in to THEN a ELSE Erased
    BY <1>1, <1>4
  <2>2. a \in Nat /\ (a \in to => a < dest)
    BY <1>1, UnitSize
  <2>3. a \in asks /\ (r.pos > 0 => a < r.prev) <=> a \in to \/ a \in dest .. dest + n - 1
    <3>1. CASE r.pos > 0
      BY <3>1, <2>2, <1>4, <1>5
    <3>2. CASE ~(r.pos > 0)
      <4>1. n = len
        BY <3>2, <1>4, <1>5
      <4> QED BY <3>2, <4>1
    <3> QED BY <3>1, <3>2
  <2> HIDE DEF asks
  <2> QED BY <2>1, <2>3
<1> HIDE DEF asks
<1>10. Sound(r, asks, dest + len)
  BY <1>4, <1>7, <1>8, <1>9 DEF Sound
<1> QED BY <1>3, <1>10 DEF asks

-----------------------------------------------------------------------------
(* Writing the cache. *)

\* The waiting unit, full, is programmed in its place.
LEMMA UnitSound ==
    ASSUME NEW w, NEW to, NEW end, Sound(w, to, end), w.pos > 0,
           NEW full \in Buffer, NEW last \in end .. w.prev + W,
           \A i \in 1 .. W : full[i] = IF w.prev + i - 1 < last THEN w.prev + i - 1 ELSE Erased,
           NEW r, r = [w EXCEPT !.flash = WriteToNAND(@, w.prev, full), !.buffer = full, !.pos = 0]
    PROVE  Sound(r, to \cup (w.prev .. last - 1), last)
<1> DEFINE asks == to \cup (w.prev .. last - 1)
<1>0. W \in Nat /\ W > 0 /\ Size \in Nat
  BY UnitSize
<1>1. /\ w \in Device /\ w.flash \in Flash /\ w.prev \in Nat /\ w.pos \in 1 .. W - 1
      /\ end \in 0 .. Size /\ to \subseteq 0 .. end - 1
      /\ Misalignment(w.prev) = 0 /\ end = w.prev + w.pos /\ w.prev .. end - 1 \subseteq to
      /\ \A a \in 0 .. Size - 1 :
            w.flash[a] = IF a \in to /\ a < w.prev THEN a ELSE Erased
  BY DEF Sound, Device
<1>2. w.prev + W =< Size
  <2>1. w.prev < Size
    BY <1>0, <1>1
  <2> QED BY <2>1, <1>0, <1>1, UnitSize, AlignedGap
<1>3. full \in Seq(Int) /\ Len(full) = W
  BY <1>0 DEF Buffer
<1>4. Blank(w.flash, w.prev, w.prev + W)
  BY <1>0, <1>1, <1>2 DEF Blank
<1> DEFINE f == WriteToNAND(w.flash, w.prev, full)
<1>5. f = Programmed(w.flash, w.prev, full)
  BY <1>1, <1>2, <1>3, <1>4, UnitIsAligned, WriteBlank
<1> HIDE DEF f
<1>6. ASSUME NEW a \in 0 .. Size - 1
      PROVE  f[a] = IF a \in asks THEN a ELSE Erased
  <2>0. a \in Nat /\ last \in Nat
    BY <1>0, <1>1
  <2>1. f[a] = IF a \in w.prev .. w.prev + W - 1 THEN full[a - w.prev + 1] ELSE w.flash[a]
    BY <1>3, <1>5 DEF Programmed
  <2>2. CASE a \in w.prev .. w.prev + W - 1
    <3>1. a - w.prev + 1 \in 1 .. W /\ w.prev + (a - w.prev + 1) - 1 = a
      BY <1>0, <1>1, <2>0, <2>2
    <3>2. full[a - w.prev + 1] = IF a < last THEN a ELSE Erased
      BY <3>1
    <3>3. a \in asks <=> a < last
      BY <1>0, <1>1, <2>0, <2>2
    <3> QED BY <2>1, <2>2, <3>2, <3>3
  <2>3. CASE a \notin w.prev .. w.prev + W - 1
    <3>1. a \in asks <=> a \in to /\ a < w.prev
      BY <1>0, <1>1, <2>0, <2>3
    <3> QED BY <1>1, <2>1, <2>3, <3>1
  <2> QED BY <2>2, <2>3
<1>7. f \in Flash
  <2>1. \A a \in 0 .. Size - 1 : f[a] \in Int
    BY <1>6 DEF Erased
  <2> QED BY <1>5, <2>1 DEF Programmed, Flash
<1>8. last \in 0 .. Size /\ asks \subseteq 0 .. last - 1
  <2>1. last \in Nat /\ last =< Size /\ end =< last
    BY <1>0, <1>1, <1>2
  <2> QED BY <2>1, <1>1
<1>9. r \in Device /\ r.flash = f /\ r.pos = 0
  <2>1. r = [w EXCEPT !.flash = f, !.buffer = full, !.pos = 0]
    BY DEF f
  <2>2. r = [flash |-> f, buffer |-> full, pos |-> 0, prev |-> w.prev]
    BY <2>1, <1>1 DEF Device
  <2>3. f \in Flash /\ full \in Buffer /\ 0 \in 0 .. W - 1 /\ w.prev \in Nat
    BY <1>0, <1>1, <1>7
  <2>4. r.flash = f /\ r.pos = 0
    BY ONLY <2>2
  <2>5. r \in Device
    BY ONLY <2>2, <2>3 DEF Device
  <2> QED BY <2>4, <2>5
<1> HIDE DEF asks
<1>10. Sound(r, asks, last)
  BY <1>6, <1>8, <1>9 DEF Sound
<1> QED BY <1>10 DEF asks

\* What waits are the bytes of the last addresses, up to end.
Waiting(w, end) == /\ w \in Device /\ w.pos > 0 /\ end = w.prev + w.pos
                   /\ \A i \in 1 .. w.pos : w.buffer[i] = w.prev + i - 1

LEMMA PaddedCache ==
    ASSUME NEW w, NEW end, Waiting(w, end), NEW full, full = Pad(SubSeq(w.buffer, 1, w.pos))
    PROVE  /\ full \in Buffer
           /\ \A i \in 1 .. W :
                 full[i] = IF w.prev + i - 1 < end THEN w.prev + i - 1 ELSE Erased
<1> DEFINE p == w.pos
           x == SubSeq(w.buffer, 1, p)
           y == SubSeq(ErasedUnit, 1, W - p)
<1>0. W \in Nat /\ W > 0 /\ Size \in Nat
  BY UnitSize
<1>1. /\ w.buffer \in Buffer /\ w.pos \in Nat /\ w.pos > 0 /\ w.pos < W /\ w.prev \in Nat
      /\ end = w.prev + w.pos /\ \A i \in 1 .. w.pos : w.buffer[i] = w.prev + i - 1
  BY <1>0 DEF Waiting, Device
<1>3. w.buffer \in Seq(Int) /\ Len(w.buffer) = W
  BY <1>1, <1>0 DEF Buffer
<1>4. /\ ErasedUnit \in Seq(Int) /\ Len(ErasedUnit) = W
      /\ \A i \in 1 .. W : ErasedUnit[i] = Erased
  BY <1>0 DEF ErasedUnit, W, Erased
<1>5. x \in Seq(Int) /\ Len(x) = p /\ \A i \in 1 .. p : x[i] = w.prev + i - 1
  <2>1. p \in 0 .. Len(w.buffer) /\ \A i \in 1 .. p : w.buffer[i] = w.prev + i - 1
    BY <1>1, <1>3
  <2> HIDE DEF p
  <2> QED BY ONLY <2>1, <1>3, Prefix
<1>6. y \in Seq(Int) /\ Len(y) = W - p /\ \A i \in 1 .. W - p : y[i] = Erased
  <2>1. W - p \in 0 .. Len(ErasedUnit) /\ W - p \in Nat /\ W \in Nat
        /\ \A i \in 1 .. W - p : i \in 1 .. W
    BY <1>0, <1>1, <1>4
  <2> HIDE DEF p
  <2> QED BY ONLY <2>1, <1>4, Prefix
<1>7. full = x \o y
  BY <1>5 DEF Pad, W
<1> HIDE DEF x, y, p
<1>8. full \in Seq(Int) /\ Len(full) = W
  <2>1. p \in Nat /\ p + (W - p) = W
    BY <1>0, <1>1 DEF p
  <2> QED BY ONLY <2>1, <1>5, <1>6, <1>7, Concatenation
<1>9. full \in Buffer
  BY <1>8, <1>0 DEF Buffer
<1>10. ASSUME NEW i \in 1 .. W
       PROVE  full[i] = IF w.prev + i - 1 < end THEN w.prev + i - 1 ELSE Erased
  <2>1. CASE i =< p
    <3>1. p \in Nat /\ i \in 1 .. p /\ w.prev + i - 1 < end
      BY <2>1, <1>0, <1>1 DEF p
    <3>2. full[i] = x[i]
      BY ONLY <3>1, <1>5, <1>6, <1>7, Concatenation
    <3> QED BY ONLY <3>1, <3>2, <1>5
  <2>2. CASE ~(i =< p)
    <3>1. i - p \in 1 .. W - p
      BY <2>2, <1>0, <1>1 DEF p
    <3>2. full[i] = y[i - p]
      <4>1. p \in Nat /\ p + (i - p) = i
        BY <1>1 DEF p
      <4> QED BY ONLY <4>1, <3>1, <1>5, <1>6, <1>7, Concatenation
    <3>3. ~(w.prev + i - 1 < end)
      BY <2>2, <1>1 DEF p
    <3> QED BY <3>1, <3>2, <3>3, <1>6
  <2> QED BY <2>1, <2>2
<1> QED BY <1>9, <1>10

LEMMA FlushSound ==
    ASSUME NEW w, NEW to, NEW end, Sound(w, to, end)
    PROVE  Sound(FlushCopyCache(w), to, end)
<1>0. W \in Nat /\ W > 0
  BY UnitSize
<1>1. CASE w.pos = 0
  BY <1>1 DEF FlushCopyCache
<1>2. CASE w.pos # 0
  <2> DEFINE full == Pad(SubSeq(w.buffer, 1, w.pos))
  <2>1. /\ w.pos > 0 /\ w.pos \in Nat /\ w.pos < W /\ w.prev \in Nat /\ end = w.prev + w.pos
        /\ w.prev .. end - 1 \subseteq to /\ Waiting(w, end)
    BY <1>0, <1>2 DEF Sound, Device, Waiting
  <2>2. FlushCopyCache(w) = [w EXCEPT !.flash = WriteToNAND(@, w.prev, full), !.buffer = full, !.pos = 0]
    BY <1>2 DEF FlushCopyCache
  <2>3. /\ full \in Buffer
        /\ \A i \in 1 .. W :
              full[i] = IF w.prev + i - 1 < end THEN w.prev + i - 1 ELSE Erased
    BY <2>1, PaddedCache
  <2> HIDE DEF full
  <2>4. end \in end .. w.prev + W
    BY <1>0, <2>1
  <2>5. Sound(FlushCopyCache(w), to \cup (w.prev .. end - 1), end)
    BY <2>1, <2>2, <2>3, <2>4, UnitSound
  <2>6. to \cup (w.prev .. end - 1) = to
    BY <2>1
  <2> QED BY <2>5, <2>6
<1> QED BY <1>1, <1>2

-----------------------------------------------------------------------------
(* Writing anywhere: what is in the flash stays, and what is added is in its  *)
(* place.                                                                    *)

\* g is f with some of the bytes, in cells that were erased.
Keeps(f, g, dest, bytes) ==
    /\ g \in Flash
    /\ \A a \in 0 .. Size - 1 :
          \/ g[a] = f[a]
          \/ /\ a \in dest .. dest + Len(bytes) - 1
             /\ f[a] = Erased /\ g[a] = bytes[a - dest + 1]

LEMMA UnitOf ==
    ASSUME NEW a \in Nat
    PROVE  /\ Aligned(a) \in Nat /\ Misalignment(Aligned(a)) = 0
           /\ Aligned(a) =< a /\ a < Aligned(a) + W
<1>1. /\ Misalignment(a) \in 0 .. W - 1 /\ Aligned(a) \in Nat
      /\ Misalignment(Aligned(a)) = 0 /\ a = Aligned(a) + Misalignment(a)
  BY AlignedParts
<1> QED BY <1>1, UnitSize

LEMMA ProgramKeeps ==
    ASSUME NEW f \in Flash, NEW dest \in Nat, NEW bytes \in Seq(Int), Misalignment(dest) = 0
    PROVE  Keeps(f, ProgramFlash(f, dest, bytes), dest, bytes)
<1> DEFINE range == dest .. dest + Len(bytes) - 1
           units == {a \in range : Misalignment(a) = 0}
           used == {a \in units : Unit(f, a) # ErasedUnit}
           g == ProgramFlash(f, dest, bytes)
<1>0. W \in Nat /\ W > 0 /\ Size \in Nat /\ Len(bytes) \in Nat /\ DOMAIN f = 0 .. Size - 1
  BY UnitSize DEF Flash
<1>1. g = [a \in 0 .. Size - 1 |->
              IF a \in range /\ \A u \in used : a < u THEN bytes[a - dest + 1] ELSE f[a]]
  BY <1>0 DEF ProgramFlash
<1> HIDE DEF g
<1>2. ASSUME NEW a \in 0 .. Size - 1, a \in range, \A u \in used : a < u
      PROVE  f[a] = Erased
  <2> DEFINE u == Aligned(a)
  <2>1. u \in Nat /\ Misalignment(u) = 0 /\ u =< a /\ a < u + W
    <3>1. a \in Nat
      BY <1>0
    <3> QED BY <3>1, UnitOf
  <2> HIDE DEF u
  <2>2. dest =< u
    <3>1. SUFFICES ASSUME u < dest PROVE FALSE
      BY <2>1
    <3>2. u + W =< dest
      BY <2>1, <3>1, AlignedGap
    <3> QED BY <1>0, <1>2, <2>1, <3>2
  <2>3. u \in units
    BY <1>0, <1>2, <2>1, <2>2
  <2>4. Unit(f, u) = ErasedUnit
    BY <1>2, <2>1, <2>3
  <2>5. a - u + 1 \in 1 .. W
    BY <1>0, <2>1
  <2>6. Unit(f, u)[a - u + 1] = f[a] /\ ErasedUnit[a - u + 1] = Erased
    <3>1. u + (a - u + 1) - 1 = a
      BY <1>0, <2>1
    <3> QED BY <2>5, <3>1 DEF Unit, ErasedUnit, W
  <2> QED BY <2>4, <2>6
<1>3. ASSUME NEW a \in 0 .. Size - 1
      PROVE  \/ g[a] = f[a]
             \/ a \in range /\ f[a] = Erased /\ g[a] = bytes[a - dest + 1]
  <2>1. g[a] = IF a \in range /\ \A u \in used : a < u THEN bytes[a - dest + 1] ELSE f[a]
    BY <1>1
  <2> HIDE DEF range, used
  <2> QED BY <1>2, <2>1
<1>4. g \in Flash
  <2>1. \A a \in 0 .. Size - 1 : f[a] \in Int
    BY DEF Flash
  <2>2. ASSUME NEW a \in range PROVE bytes[a - dest + 1] \in Int
    BY <1>0, <2>2
  <2>3. ASSUME NEW a \in 0 .. Size - 1 PROVE g[a] \in Int
    BY <1>3, <2>1, <2>2
  <2> QED BY <1>1, <2>3 DEF Flash
<1> QED BY <1>3, <1>4 DEF Keeps, g

\* What does not fill a unit is padded: the padding changes nothing.
LEMMA AlignedKeeps ==
    ASSUME NEW f \in Flash, NEW dest \in Nat, NEW bytes \in Seq(Int), Misalignment(dest) = 0
    PROVE  Keeps(f, WriteAligned(f, dest, bytes), dest, bytes)
<1> DEFINE len == Len(bytes)
           n == Aligned(len)
           head == SubSeq(bytes, 1, n)
           rest == From(bytes, n)
           whole == ProgramFlash(f, dest, head)
           g == ProgramFlash(whole, dest + n, Pad(rest))
<1>0. W \in Nat /\ W > 0 /\ Size \in Nat /\ len \in Nat
  BY UnitSize
<1>1. n \in 0 .. len /\ n \in Nat /\ Misalignment(n) = 0 /\ len - n < W /\ len - n \in Nat
  <2>1. /\ Misalignment(len) \in 0 .. W - 1 /\ Aligned(len) \in 0 .. len
        /\ Misalignment(Aligned(len)) = 0 /\ len = Aligned(len) + Misalignment(len)
    BY <1>0, AlignedParts
  <2> QED BY <1>0, <2>1
<1>2. WriteAligned(f, dest, bytes) = IF n = len THEN whole ELSE g
  BY DEF WriteAligned
<1> HIDE DEF n
<1>3. head \in Seq(Int) /\ Len(head) = n /\ \A i \in 1 .. n : head[i] = bytes[i]
  BY <1>1, Prefix
<1>4. rest \in Seq(Int) /\ Len(rest) = len - n /\ \A i \in 1 .. len - n : rest[i] = bytes[n + i]
  BY <1>0, <1>1 DEF From
<1>5. Keeps(f, whole, dest, head)
  <2> HIDE DEF head
  <2> QED BY <1>3, ProgramKeeps
<1>6. Keeps(f, whole, dest, bytes)
  <2>1. ASSUME NEW a \in dest .. dest + n - 1
        PROVE  a \in dest .. dest + len - 1 /\ head[a - dest + 1] = bytes[a - dest + 1]
    BY <1>0, <1>1, <1>3, <2>1
  <2> HIDE DEF whole, head, len
  <2> QED BY <1>3, <1>5, <2>1 DEF Keeps, len
<1>7. CASE n = len
  BY <1>2, <1>6, <1>7
<1>8. CASE n # len
  <2> DEFINE y == SubSeq(ErasedUnit, 1, W - Len(rest))
             pad == Pad(rest)
  <2>1. /\ y \in Seq(Int) /\ Len(y) = W - (len - n)
        /\ \A i \in 1 .. W - (len - n) : y[i] = Erased
    <3>1. /\ ErasedUnit \in Seq(Int) /\ Len(ErasedUnit) = W
          /\ \A i \in 1 .. W : ErasedUnit[i] = Erased
      BY <1>0 DEF ErasedUnit, Erased, W
    <3>2. W - (len - n) \in 0 .. W
      BY <1>0, <1>1
    <3>3. y = SubSeq(ErasedUnit, 1, W - (len - n))
      BY <1>4
    <3> HIDE DEF y, len
    <3> QED BY <1>0, <3>1, <3>2, <3>3, Prefix
  <2>2. pad = rest \o y
    BY DEF Pad, W
  <2> HIDE DEF y, pad, rest, head
  <2>3. /\ pad \in Seq(Int) /\ Len(pad) = W
        /\ \A i \in 1 .. len - n : pad[i] = rest[i]
        /\ \A i \in 1 .. W - (len - n) : pad[(len - n) + i] = Erased
    <3>1. (len - n) + (W - (len - n)) = W
      BY <1>0, <1>1
    <3> HIDE DEF len
    <3>2. /\ rest \o y \in Seq(Int) /\ Len(rest \o y) = Len(rest) + Len(y)
          /\ \A i \in 1 .. Len(rest) : (rest \o y)[i] = rest[i]
          /\ \A i \in 1 .. Len(y) : (rest \o y)[Len(rest) + i] = y[i]
      BY <1>4, <2>1, Concatenation
    <3> QED BY <1>4, <2>1, <2>2, <3>1, <3>2
  <2>4. Misalignment(dest + n) = 0 /\ dest + n \in Nat /\ whole \in Flash
    BY <1>1, <1>5, AlignedSum DEF Keeps
  <2> HIDE DEF whole
  <2>5. Keeps(whole, g, dest + n, pad)
    BY <2>3, <2>4, ProgramKeeps DEF pad
  <2> HIDE DEF g
  <2>6. ASSUME NEW a \in 0 .. Size - 1
        PROVE  \/ g[a] = f[a]
               \/ a \in dest .. dest + len - 1 /\ f[a] = Erased /\ g[a] = bytes[a - dest + 1]
    <3>1. \/ whole[a] = f[a]
          \/ a \in dest .. dest + len - 1 /\ f[a] = Erased /\ whole[a] = bytes[a - dest + 1]
      BY <1>6 DEF Keeps
    <3>2. CASE g[a] = whole[a]
      BY <3>1, <3>2
    <3>3. CASE /\ a \in dest + n .. dest + n + W - 1
               /\ whole[a] = Erased /\ g[a] = pad[a - (dest + n) + 1]
      <4> DEFINE i == a - (dest + n) + 1
      <4>1. i \in 1 .. W
        BY <1>0, <1>1, <3>3
      <4>2. CASE i =< len - n
        <5>1. i \in 1 .. len - n /\ n + i = a - dest + 1 /\ a \in dest .. dest + len - 1
          BY <1>0, <1>1, <3>3, <4>2
        <5>2. g[a] = bytes[a - dest + 1]
          <6>1. g[a] = rest[i] /\ rest[i] = bytes[n + i]
            BY <1>4, <2>3, <3>3, <5>1
          <6> QED BY <5>1, <6>1
        <5>3. f[a] = Erased
          <6>1. CASE whole[a] = f[a]
            BY <3>3, <6>1
          <6>2. CASE whole[a] # f[a]
            BY <3>1, <6>2
          <6> QED BY <6>1, <6>2
        <5> QED BY <5>1, <5>2, <5>3
      <4>3. CASE ~(i =< len - n)
        <5>1. i - (len - n) \in 1 .. W - (len - n) /\ (len - n) + (i - (len - n)) = i
          BY <1>0, <1>1, <4>1, <4>3
        <5>2. pad[i] = Erased
          BY <2>3, <5>1
        <5>3. g[a] = whole[a]
          BY <3>3, <5>2
        <5> QED BY <3>1, <5>3
      <4> QED BY <4>2, <4>3
    <3>4. \/ g[a] = whole[a]
          \/ /\ a \in dest + n .. dest + n + W - 1
             /\ whole[a] = Erased /\ g[a] = pad[a - (dest + n) + 1]
      BY <2>3, <2>5 DEF Keeps
    <3> QED BY <3>2, <3>3, <3>4
  <2>7. g \in Flash
    BY <2>5 DEF Keeps
  <2> QED BY <1>2, <1>8, <2>6, <2>7 DEF Keeps
<1> QED BY <1>7, <1>8

\* A misaligned write programs the unit it begins in with what is there already, and
\* leaves out the bytes that belong there.
LEMMA WriteKeeps ==
    ASSUME NEW f \in Flash, NEW dest \in 0 .. Size, NEW bytes \in Seq(Int)
    PROVE  Keeps(f, WriteToNAND(f, dest, bytes), dest, bytes)
<1> DEFINE len == Len(bytes)
           mis == Misalignment(dest)
           n == Min({W - mis, len})
           missing == [i \in 1 .. W |->
                          IF mis < i /\ i =< mis + n THEN Erased ELSE f[dest - mis + i - 1]]
           start == ProgramFlash(f, dest - mis, missing)
           rest == From(bytes, n)
<1>0. W \in Nat /\ W > 0 /\ Size \in Nat /\ len \in Nat /\ dest \in Nat
  BY UnitSize
<1>1. mis \in 0 .. W - 1 /\ mis \in Nat /\ dest - mis \in Nat /\ Misalignment(dest - mis) = 0
  <2>1. Misalignment(dest) \in 0 .. W - 1 /\ Aligned(dest) \in Nat
        /\ Misalignment(Aligned(dest)) = 0
    BY <1>0, AlignedParts
  <2> QED BY <1>0, <2>1 DEF Aligned
<1>2. Keeps(f, f, dest, bytes)
  BY DEF Keeps
<1>3. CASE mis = 0
  <2>1. WriteToNAND(f, dest, bytes) = WriteAligned(f, dest, bytes)
    BY <1>3 DEF WriteToNAND
  <2> QED BY <1>0, <1>3, <2>1, AlignedKeeps
<1>4. CASE mis # 0 /\ mis % ADDRESSING_GRANULARITY # 0
  <2>1. WriteToNAND(f, dest, bytes) = f
    BY <1>4 DEF WriteToNAND
  <2> QED BY <1>2, <2>1
<1>5. CASE mis # 0 /\ mis % ADDRESSING_GRANULARITY = 0
  <2>1. WriteToNAND(f, dest, bytes) = WriteAligned(start, dest + n, rest)
    BY <1>5 DEF WriteToNAND, W
  <2>2. n \in Nat /\ n =< len /\ (n = W - mis \/ n = len)
    <3>1. n = IF W - mis =< len THEN W - mis ELSE len
      <4>1. W - mis \in Nat
        BY <1>0, <1>1
      <4> HIDE DEF mis, len
      <4> QED BY <1>0, <4>1, MinOfTwo
    <3> HIDE DEF n
    <3> QED BY <1>0, <1>1, <3>1
  <2> HIDE DEF n
  <2>3. dest - mis + W =< Size
    <3>1. dest - mis < Size
      BY <1>0, <1>1, <1>5
    <3> QED BY <1>0, <1>1, <3>1, UnitSize, AlignedGap
  <2>4. missing \in Seq(Int) /\ Len(missing) = W
    <3>1. ASSUME NEW i \in 1 .. W
          PROVE  (IF mis < i /\ i =< mis + n THEN Erased ELSE f[dest - mis + i - 1]) \in Int
      <4>1. dest - mis + i - 1 \in 0 .. Size - 1
        BY <1>0, <1>1, <2>3
      <4>2. f[dest - mis + i - 1] \in Int
        BY <4>1 DEF Flash
      <4> QED BY <4>2 DEF Erased
    <3>2. missing \in [1 .. W -> Int]
      BY <3>1
    <3> HIDE DEF missing
    <3> QED BY <1>0, <3>2
  <2>5. start = f
    <3>1. Keeps(f, start, dest - mis, missing)
      <4> HIDE DEF missing, mis
      <4> QED BY <1>1, <2>4, ProgramKeeps
    <3>2. ASSUME NEW a \in 0 .. Size - 1 PROVE start[a] = f[a]
      <4>1. CASE /\ a \in (dest - mis) .. (dest - mis) + W - 1
                 /\ f[a] = Erased /\ start[a] = missing[a - (dest - mis) + 1]
        <5> DEFINE i == a - (dest - mis) + 1
        <5>1. i \in 1 .. W /\ dest - mis + i - 1 = a
          <6> HIDE DEF missing, start, mis
          <6>1. W \in Nat /\ dest \in Nat /\ mis \in Nat /\ a \in Nat
            BY <1>0, <1>1
          <6>2. dest - mis =< a /\ a =< (dest - mis) + W - 1
            BY <4>1, <6>1
          <6> QED BY <6>1, <6>2
        <5>2. missing[i] = IF mis < i /\ i =< mis + n THEN Erased ELSE f[dest - mis + i - 1]
          BY <5>1
        <5> HIDE DEF missing, mis
        <5> QED BY <4>1, <5>1, <5>2
      <4> HIDE DEF missing, start, mis
      <4> QED BY <2>4, <3>1, <4>1 DEF Keeps
    <3>3. start \in Flash
      BY <3>1 DEF Keeps
    <3> HIDE DEF start
    <3>4. start = [a \in 0 .. Size - 1 |-> start[a]] /\ f = [a \in 0 .. Size - 1 |-> f[a]]
      BY <3>3 DEF Flash
    <3> QED BY <3>2, <3>4
  <2> HIDE DEF start
  <2>6. rest \in Seq(Int) /\ Len(rest) = len - n /\ \A i \in 1 .. len - n : rest[i] = bytes[n + i]
    BY <1>0, <2>2 DEF From
  <2>7. CASE n = W - mis
    <3>1. dest + n = (dest - mis) + W /\ dest + n \in Nat
      BY <1>0, <1>1, <2>7
    <3>2. Misalignment(dest + n) = 0
      BY <1>0, <1>1, <3>1, UnitIsAligned, AlignedSum
    <3> HIDE DEF rest, mis
    <3>3. Keeps(f, WriteAligned(f, dest + n, rest), dest + n, rest)
      BY <2>6, <3>1, <3>2, AlignedKeeps
    <3>4. ASSUME NEW a \in dest + n .. dest + n + (len - n) - 1
          PROVE  a \in dest .. dest + len - 1
                 /\ rest[a - (dest + n) + 1] = bytes[a - dest + 1]
      <4>1. a - (dest + n) + 1 \in 1 .. len - n /\ n + (a - (dest + n) + 1) = a - dest + 1
            /\ a \in dest .. dest + len - 1
        BY <1>0, <2>2, <3>4
      <4> QED BY <2>6, <4>1
    <3> HIDE DEF len
    <3>5. Keeps(f, WriteAligned(f, dest + n, rest), dest, bytes)
      BY <2>6, <3>3, <3>4 DEF Keeps, len
    <3> QED BY <2>1, <2>5, <3>5
  <2>8. CASE n = len
    <3>1. rest = <<>>
      BY <2>6, <2>8
    <3>2. Aligned(0) = 0
      BY AlignedParts
    <3>3. WriteAligned(f, dest + n, <<>>) = ProgramFlash(f, dest + n, <<>>)
      <4>1. Len(<<>>) = 0 /\ SubSeq(<<>>, 1, 0) = <<>>
        OBVIOUS
      <4> QED BY <3>2, <4>1 DEF WriteAligned
    <3>4. ProgramFlash(f, dest + n, <<>>) = f
      <4>1. dest + n .. dest + n + Len(<<>>) - 1 = {}
        BY <1>0, <2>2
      <4>2. ProgramFlash(f, dest + n, <<>>) = [a \in DOMAIN f |-> f[a]]
        BY <4>1 DEF ProgramFlash
      <4> QED BY <4>2 DEF Flash
    <3> QED BY <1>2, <2>1, <2>5, <3>1, <3>3, <3>4
  <2> QED BY <2>2, <2>7, <2>8
<1> QED BY <1>3, <1>4, <1>5

-----------------------------------------------------------------------------
(* A copy that begins inside a unit. *)

Own(bytes, dest, last) ==
    \A i \in 1 .. Len(bytes) : bytes[i] = IF dest + i - 1 < last THEN dest + i - 1 ELSE Erased

\* A write leaves a flash in which each byte is in its place.
LEMMA WriteImage ==
    ASSUME NEW f \in Flash, NEW to \in SUBSET (0 .. Size - 1), Image(f, to),
           NEW dest \in 0 .. Size, NEW bytes \in Seq(Int), NEW last \in Nat, Own(bytes, dest, last)
    PROVE  /\ WriteToNAND(f, dest, bytes) \in Flash
           /\ \E to2 \in SUBSET (0 .. Size - 1) :
                 /\ to \subseteq to2 /\ to2 \subseteq to \cup (dest .. last - 1)
                 /\ Image(WriteToNAND(f, dest, bytes), to2)
<1> DEFINE g == WriteToNAND(f, dest, bytes)
           to2 == {a \in 0 .. Size - 1 : g[a] # Erased}
<1>0. Size \in Nat /\ dest \in Nat /\ Len(bytes) \in Nat /\ Erased \notin Nat
  BY UnitSize DEF Erased
<1>1. Keeps(f, g, dest, bytes)
  BY WriteKeeps
<1> HIDE DEF g
<1>2. ASSUME NEW a \in 0 .. Size - 1
      PROVE  \/ g[a] = f[a]
             \/ a \in dest .. last - 1 /\ f[a] = Erased /\ g[a] = a
  <2>1. CASE a \in dest .. dest + Len(bytes) - 1 /\ f[a] = Erased /\ g[a] = bytes[a - dest + 1]
    <3>1. a - dest + 1 \in 1 .. Len(bytes) /\ dest + (a - dest + 1) - 1 = a
      BY <1>0, <2>1
    <3>2. g[a] = IF a < last THEN a ELSE Erased
      BY <2>1, <3>1 DEF Own
    <3> QED BY <1>0, <2>1, <3>2
  <2> QED BY <1>1, <2>1 DEF Keeps
<1>3. ASSUME NEW a \in 0 .. Size - 1
      PROVE  /\ g[a] = IF a \in to2 THEN a ELSE Erased
             /\ a \in to => a \in to2
             /\ a \in to2 => a \in to \/ a \in dest .. last - 1
  <2>1. f[a] = (IF a \in to THEN a ELSE Erased) /\ a # Erased
    BY <1>0 DEF Image
  <2> QED BY <1>2, <2>1
<1>4. to \subseteq to2 /\ to2 \subseteq to \cup (dest .. last - 1)
  BY <1>3
<1>5. Image(g, to2)
  BY <1>3 DEF Image
<1>6. g \in Flash
  BY <1>1 DEF Keeps
<1> HIDE DEF to2
<1>7. to2 \in SUBSET (0 .. Size - 1)
  BY DEF to2
<1> QED BY <1>4, <1>5, <1>6, <1>7 DEF g

\* From `to`, the device is led to what was written since, up to `end`; what waits is not
\* older than `from`.
Leads(r, to, from, end) ==
    \E to2 \in SUBSET (to \cup (from .. end - 1)) :
        to \subseteq to2 /\ (Sound(r, to2, end) \/ (Loose(r, to2, end) /\ from =< r.prev))

LEMMA EmptyIsSound ==
    ASSUME NEW w \in Device, w.pos = 0, NEW end \in 0 .. Size, NEW to \in SUBSET (0 .. end - 1)
    PROVE  Sound(w, to, end) <=> Image(w.flash, to)
BY DEF Sound, Image

LEMMA LooseThrough ==
    ASSUME NEW w \in Device, w.pos = 0, NEW dest \in 0 .. Size, NEW len \in Nat, dest + len =< Size,
           NEW to \in SUBSET (0 .. dest - 1), Image(w.flash, to)
    PROVE  Leads(WriteThrough(w, dest, Bytes(dest, len)), to, dest, dest + len)
<1> DEFINE n == Aligned(len)
           mis == Misalignment(len)
           head == Bytes(dest, n)
           rest == Bytes(dest + n, mis)
           f == WriteToNAND(w.flash, dest, head)
           r == WriteThrough(w, dest, Bytes(dest, len))
           end == dest + len
<1>0. W \in Nat /\ W > 0 /\ Size \in Nat /\ dest \in Nat /\ end \in Nat /\ end \in 0 .. Size
  BY UnitSize
<1>1. n \in 0 .. len /\ n \in Nat /\ mis \in 0 .. W - 1 /\ mis \in Nat /\ len = n + mis /\ mis = len - n
  <2>1. /\ Misalignment(len) \in 0 .. W - 1 /\ Misalignment(len) \in Nat
        /\ Aligned(len) \in 0 .. len /\ Aligned(len) \in Nat /\ len = Aligned(len) + Misalignment(len)
    BY AlignedParts
  <2> QED BY <2>1
<1>2. Len(Bytes(dest, len)) = len
  BY <1>0, BytesType
<1> HIDE DEF mis
<1>3. From(Bytes(dest, len), n) = rest /\ SubSeq(Bytes(dest, len), 1, n) = head
  <2>1. From(Bytes(dest, len), n) = Bytes(dest + n, len - n) /\ SubSeq(Bytes(dest, len), 1, n) = head
    <3> HIDE DEF n
    <3>1. n \in 0 .. len
      BY <1>1
    <3>2. /\ From(Bytes(dest, len), n) = Bytes(dest + n, len - n)
          /\ SubSeq(Bytes(dest, len), 1, n) = Bytes(dest, n)
      BY <1>0, <3>1, BytesCut
    <3> QED BY <3>2
  <2> QED BY <1>1, <2>1
<1>4. r = IF rest = <<>> THEN [w EXCEPT !.flash = f]
          ELSE [flash |-> f, buffer |-> Overwrite(w.buffer, 0, rest),
                pos |-> Len(rest), prev |-> dest + n]
  BY <1>2, <1>3 DEF WriteThrough
<1> HIDE DEF n
<1>5. /\ head \in Seq(Int) /\ Len(head) = n /\ \A i \in 1 .. n : head[i] = dest + i - 1
  BY <1>0, <1>1, BytesType
<1>6. /\ rest \in Seq(Int) /\ Len(rest) = mis /\ \A i \in 1 .. mis : rest[i] = dest + n + i - 1
  <2> DEFINE d == dest + n
  <2>1. d \in Nat
    BY <1>0, <1>1
  <2> HIDE DEF d
  <2>2. /\ Bytes(d, mis) \in Seq(Int) /\ Len(Bytes(d, mis)) = mis
        /\ \A i \in 1 .. mis : Bytes(d, mis)[i] = d + i - 1
    BY <1>1, <2>1, BytesType
  <2> QED BY <2>2 DEF d
<1> HIDE DEF head, rest, r
<1>7. /\ f \in Flash
      /\ \E to2 \in SUBSET (0 .. Size - 1) :
            to \subseteq to2 /\ to2 \subseteq to \cup (dest .. dest + n - 1) /\ Image(f, to2)
  <2>1. Own(head, dest, dest + n) /\ dest + n \in Nat
    BY <1>0, <1>1, <1>5 DEF Own
  <2>2. w.flash \in Flash /\ to \in SUBSET (0 .. Size - 1)
    BY <1>0 DEF Device
  <2> QED BY <1>5, <2>1, <2>2, WriteImage
<1> HIDE DEF f
<1>8. PICK to2 \in SUBSET (0 .. Size - 1) :
          to \subseteq to2 /\ to2 \subseteq to \cup (dest .. dest + n - 1) /\ Image(f, to2)
  BY <1>7
<1>9. to2 \in SUBSET (to \cup (dest .. end - 1)) /\ to2 \in SUBSET (0 .. end - 1)
  <2>1. \A a \in dest .. dest + n - 1 : a \in dest .. end - 1 /\ a \in 0 .. end - 1
    BY <1>0, <1>1
  <2>2. \A a \in 0 .. dest - 1 : a \in 0 .. end - 1
    BY <1>0
  <2> QED BY <1>8, <2>1, <2>2
<1>10. w.buffer \in Buffer /\ w.prev \in Nat
  BY DEF Device
<1>11. CASE rest = <<>>
  <2>1. r = [w EXCEPT !.flash = f]
    BY <1>4, <1>11
  <2>2. r \in Device /\ r.pos = 0 /\ r.flash = f
    BY <2>1, <1>7, <1>0 DEF Device
  <2> HIDE DEF end
  <2>3. Sound(r, to2, end)
    BY <1>0, <1>8, <1>9, <2>2, EmptyIsSound
  <2> QED BY <1>8, <1>9, <2>3 DEF Leads, r, end
<1>12. CASE rest # <<>>
  <2>1. r = [flash |-> f, buffer |-> Overwrite(w.buffer, 0, rest), pos |-> mis, prev |-> dest + n]
    BY <1>4, <1>6, <1>12
  <2>2. mis > 0
    BY <1>1, <1>6, <1>12
  <2>3. Overwrite(w.buffer, 0, rest) \in Buffer
        /\ \A i \in 1 .. mis : Overwrite(w.buffer, 0, rest)[i] = rest[i]
    <3>1. /\ Overwrite(w.buffer, 0, rest) \in Buffer
          /\ \A i \in 1 .. W :
                 Overwrite(w.buffer, 0, rest)[i] =
                     IF 0 < i /\ i =< 0 + Len(rest) THEN rest[i - 0] ELSE w.buffer[i]
      <4>1. rest \in Seq(Int) /\ w.buffer \in Buffer /\ 0 \in Nat
        BY <1>6, <1>10
      <4> QED BY ONLY <4>1, OverwriteType
    <3>2. \A i \in 1 .. mis : i \in 1 .. W /\ 0 < i /\ i =< 0 + mis /\ i - 0 = i
      BY ONLY <1>0, <1>1
    <3> QED BY ONLY <3>1, <3>2, <1>6
  <2>4. r \in Device
    BY <2>1, <2>3, <1>0, <1>1, <1>7 DEF Device
  <2>5. /\ r.flash = f /\ r.pos = mis /\ r.prev = dest + n
        /\ \A i \in 1 .. mis : r.buffer[i] = r.prev + i - 1
    BY <2>1, <2>3, <1>6
  <2>6. end = r.prev + r.pos /\ dest =< r.prev
    BY <1>0, <1>1, <2>5
  <2> HIDE DEF end
  <2>7. Loose(r, to2, end)
    BY <1>0, <1>8, <1>9, <2>2, <2>4, <2>5, <2>6 DEF Loose
  <2> QED BY <1>8, <1>9, <2>6, <2>7 DEF Leads, r, end
<1> QED BY <1>11, <1>12

\* Nothing waits, and the flash has what it had and some of the bytes from `from` on.
Emptied(r, to, from, end) ==
    /\ r \in Device /\ r.pos = 0
    /\ \E to2 \in SUBSET (0 .. end - 1) :
          /\ to \subseteq to2 /\ to2 \subseteq to \cup (from .. end - 1)
          /\ Image(r.flash, to2)

\* The unit that waits is written where it is, which may lose the part of it that
\* belongs to the unit it begins in.
LEMMA LooseUnit ==
    ASSUME NEW w, NEW to, NEW end, Loose(w, to, end),
           NEW full \in Buffer, NEW last \in end .. w.prev + W, last =< Size,
           \A i \in 1 .. W : full[i] = IF w.prev + i - 1 < last THEN w.prev + i - 1 ELSE Erased,
           NEW r, r = [w EXCEPT !.flash = WriteToNAND(@, w.prev, full), !.buffer = full, !.pos = 0]
    PROVE  Emptied(r, to, w.prev, last)
<1>0. W \in Nat /\ W > 0 /\ Size \in Nat
  BY UnitSize
<1>1. /\ w \in Device /\ w.flash \in Flash /\ w.prev \in Nat /\ w.pos \in Nat
      /\ end \in Nat /\ end =< Size /\ end = w.prev + w.pos
      /\ to \subseteq 0 .. end - 1 /\ Image(w.flash, to) /\ last \in Nat /\ end =< last
  BY <1>0 DEF Loose, Device
<1>2. full \in Seq(Int) /\ Len(full) = W
  BY <1>0 DEF Buffer
<1> DEFINE f == WriteToNAND(w.flash, w.prev, full)
<1>3. /\ f \in Flash
      /\ \E to2 \in SUBSET (0 .. Size - 1) :
            to \subseteq to2 /\ to2 \subseteq to \cup (w.prev .. last - 1) /\ Image(f, to2)
  <2>1. Own(full, w.prev, last)
    BY <1>2 DEF Own
  <2>2. w.prev \in 0 .. Size /\ to \in SUBSET (0 .. Size - 1)
    <3>1. \A a \in 0 .. end - 1 : a \in 0 .. Size - 1
      BY <1>0, <1>1
    <3> QED BY <1>0, <1>1, <3>1
  <2> QED BY <1>1, <1>2, <2>1, <2>2, WriteImage
<1> HIDE DEF f
<1>4. r = [w EXCEPT !.flash = f, !.buffer = full, !.pos = 0]
  BY DEF f
<1>5. r \in Device /\ r.pos = 0 /\ r.flash = f
  <2>1. r = [flash |-> f, buffer |-> full, pos |-> 0, prev |-> w.prev]
    BY <1>1, <1>4 DEF Device
  <2>2. 0 \in 0 .. W - 1
    BY <1>0
  <2> QED BY ONLY <2>1, <2>2, <1>1, <1>3, full \in Buffer DEF Device
<1>6. PICK to2 \in SUBSET (0 .. Size - 1) :
          to \subseteq to2 /\ to2 \subseteq to \cup (w.prev .. last - 1) /\ Image(f, to2)
  BY <1>3
<1>7. to2 \in SUBSET (0 .. last - 1)
  <2>1. \A a \in 0 .. end - 1 : a \in 0 .. last - 1
    BY <1>1
  <2>2. \A a \in w.prev .. last - 1 : a \in 0 .. last - 1
    BY <1>1
  <2> QED BY <1>1, <1>6, <2>1, <2>2
<1> QED BY <1>5, <1>6, <1>7 DEF Emptied

-----------------------------------------------------------------------------
(* The steps. *)

\* A copy that goes on where the last one ended and does not fill the unit waits with it.
LEMMA JoinsCache ==
    ASSUME NEW w, NEW end, Waiting(w, end), NEW len \in Nat, len < W - w.pos,
           NEW r, r = SameUnit(w, end, Bytes(end, len))
    PROVE  Waiting(r, end + len) /\ r.flash = w.flash /\ r.prev = w.prev
<1> DEFINE p == w.pos
           bytes == Bytes(end, len)
           buffer == Overwrite(w.buffer, p, bytes)
<1>0. W \in Nat /\ W > 0
  BY UnitSize
<1>1. /\ w \in Device /\ w.buffer \in Buffer /\ p \in Nat /\ p > 0 /\ p < W /\ w.flash \in Flash
      /\ w.prev \in Nat /\ end \in Nat /\ end = w.prev + p
      /\ \A i \in 1 .. p : w.buffer[i] = w.prev + i - 1
  BY <1>0 DEF Waiting, Device
<1>2. bytes \in Seq(Int) /\ Len(bytes) = len /\ \A i \in 1 .. len : bytes[i] = end + i - 1
  BY <1>1, BytesType
<1>3. r = [w EXCEPT !.buffer = buffer, !.pos = @ + len]
  BY <1>2 DEF SameUnit, W
<1>4. /\ buffer \in Buffer
      /\ \A i \in 1 .. W : buffer[i] = IF p < i /\ i =< p + len THEN bytes[i - p] ELSE w.buffer[i]
  <2>1. p \in Nat /\ w.buffer \in Buffer
    BY <1>1
  <2> HIDE DEF p, bytes
  <2>2. /\ Overwrite(w.buffer, p, bytes) \in Buffer
        /\ \A i \in 1 .. W : Overwrite(w.buffer, p, bytes)[i] =
               IF p < i /\ i =< p + Len(bytes) THEN bytes[i - p] ELSE w.buffer[i]
    BY ONLY <2>1, <1>2, OverwriteType
  <2> QED BY <2>2, <1>2
<1> HIDE DEF buffer, bytes
<1>5. r = [flash |-> w.flash, buffer |-> buffer, pos |-> p + len, prev |-> w.prev]
  <2>1. r = [w EXCEPT !.buffer = buffer, !.pos = p + len]
    BY <1>3
  <2> HIDE DEF p
  <2> QED BY <2>1, <1>1 DEF Device
<1>6. r \in Device
  <2>1. p + len \in 0 .. W - 1
    BY <1>0, <1>1
  <2> QED BY ONLY <2>1, <1>4, <1>5, <1>1 DEF Device
<1>7. r.flash = w.flash /\ r.pos = p + len /\ r.buffer = buffer /\ r.prev = w.prev
  BY <1>5
<1>8. ASSUME NEW i \in 1 .. p + len PROVE buffer[i] = w.prev + i - 1
  <2>1. i \in 1 .. W
    BY <1>0, <1>1
  <2>2. CASE i =< p
    BY <2>1, <2>2, <1>4, <1>1
  <2>3. CASE p < i
    <3>1. i - p \in 1 .. len /\ end + (i - p) - 1 = w.prev + i - 1
      BY <2>3, <1>1
    <3>2. bytes[i - p] = end + (i - p) - 1
      BY <3>1, <1>2
    <3> QED BY <2>1, <2>3, <1>4, <3>1, <3>2
  <2> QED BY <2>2, <2>3, <1>1
<1>9. p + len > 0 /\ end + len = w.prev + (p + len)
  BY <1>1
<1> QED BY <1>6, <1>7, <1>8, <1>9 DEF Waiting

\* One that fills it has the unit written, and goes on from the next one.
LEMMA FillsCache ==
    ASSUME NEW w, NEW end, Waiting(w, end), NEW len \in Nat, W - w.pos =< len
    PROVE  \E full \in Buffer :
              /\ \A i \in 1 .. W : full[i] = w.prev + i - 1
              /\ SameUnit(w, end, Bytes(end, len)) =
                    WriteThrough([w EXCEPT !.flash = WriteToNAND(@, w.prev, full),
                                           !.buffer = full, !.pos = 0],
                                 w.prev + W, Bytes(w.prev + W, end + len - (w.prev + W)))
<1> DEFINE p == w.pos
           left == W - p
           bytes == Bytes(end, len)
           head == SubSeq(bytes, 1, left)
           full == Overwrite(w.buffer, p, head)
           mid == w.prev + W
           unit == [w EXCEPT !.flash = WriteToNAND(@, w.prev, full), !.buffer = full, !.pos = 0]
<1>0. W \in Nat /\ W > 0
  BY UnitSize
<1>1. /\ w \in Device /\ w.buffer \in Buffer /\ p \in Nat /\ p > 0 /\ p < W
      /\ w.prev \in Nat /\ end \in Nat /\ end = w.prev + p
      /\ \A i \in 1 .. p : w.buffer[i] = w.prev + i - 1
  BY <1>0 DEF Waiting, Device
<1>2. left \in 0 .. len /\ left \in Nat /\ left > 0 /\ p + left = W
  BY <1>0, <1>1
<1>3. Len(bytes) = len
  BY <1>1, BytesType
<1>4. end + left = mid /\ len - left = end + len - mid
  BY <1>0, <1>1, <1>2
<1>5. head = Bytes(end, left) /\ From(bytes, left) = Bytes(mid, end + len - mid)
  <2> HIDE DEF left, mid
  <2>1. /\ From(Bytes(end, len), left) = Bytes(end + left, len - left)
        /\ SubSeq(Bytes(end, len), 1, left) = Bytes(end, left)
    BY <1>1, <1>2, BytesCut
  <2> QED BY <2>1, <1>4
<1>6. head \in Seq(Int) /\ Len(head) = left /\ \A i \in 1 .. left : head[i] = end + i - 1
  <2> HIDE DEF head, left
  <2> QED BY <1>1, <1>2, <1>5, BytesType
<1>7. SameUnit(w, end, bytes) = WriteThrough(unit, mid, Bytes(mid, end + len - mid))
  <2>1. ~(Len(bytes) < left)
    BY <1>1, <1>2, <1>3
  <2>2. SameUnit(w, end, bytes) = WriteThrough(unit, end + left, From(bytes, left))
    BY <2>1 DEF SameUnit, W
  <2> HIDE DEF unit, left, mid, bytes
  <2> QED BY <2>2, <1>4, <1>5
<1>8. /\ full \in Buffer
      /\ \A i \in 1 .. W : full[i] = IF p < i /\ i =< p + left THEN head[i - p] ELSE w.buffer[i]
  <2>1. p \in Nat /\ w.buffer \in Buffer
    BY <1>1
  <2> HIDE DEF head, left, p
  <2>2. /\ Overwrite(w.buffer, p, head) \in Buffer
        /\ \A i \in 1 .. W : Overwrite(w.buffer, p, head)[i] =
               IF p < i /\ i =< p + Len(head) THEN head[i - p] ELSE w.buffer[i]
    BY ONLY <2>1, <1>6, OverwriteType
  <2> QED BY <2>2, <1>6
<1> HIDE DEF full, head, left, p
<1>9. ASSUME NEW i \in 1 .. W PROVE full[i] = w.prev + i - 1
  <2>1. CASE i =< p
    BY <2>1, <1>1, <1>8
  <2>2. CASE p < i
    <3>1. i - p \in 1 .. left /\ i =< p + left /\ end + (i - p) - 1 = w.prev + i - 1
      BY <2>2, <1>0, <1>1, <1>2
    <3>2. head[i - p] = end + (i - p) - 1
      BY <3>1, <1>6
    <3> QED BY <2>2, <1>8, <3>1, <3>2
  <2> QED BY <2>1, <2>2, <1>1
<1> HIDE DEF bytes
<1>10. SameUnit(w, end, Bytes(end, len)) = WriteThrough(unit, mid, Bytes(mid, end + len - mid))
  BY <1>7 DEF bytes
<1> QED BY <1>8, <1>9, <1>10

LEMMA SameUnitSound ==
    ASSUME NEW w, NEW to, NEW end, Sound(w, to, end), w.pos > 0,
           NEW len \in Nat, end + len =< Size
    PROVE  Sound(SameUnit(w, end, Bytes(end, len)), to \cup (end .. end + len - 1), end + len)
<1> DEFINE r == SameUnit(w, end, Bytes(end, len))
           asks == to \cup (end .. end + len - 1)
           mid == w.prev + W
<1>0. W \in Nat /\ W > 0 /\ Size \in Nat
  BY UnitSize
<1>1. /\ w.pos \in Nat /\ w.pos < W /\ w.prev \in Nat /\ end \in Nat /\ end =< Size
      /\ to \subseteq 0 .. end - 1 /\ Misalignment(w.prev) = 0 /\ end = w.prev + w.pos
      /\ w.prev .. end - 1 \subseteq to
      /\ \A a \in 0 .. Size - 1 : w.flash[a] = IF a \in to /\ a < w.prev THEN a ELSE Erased
  BY <1>0 DEF Sound, Device
<1>2. Waiting(w, end)
  BY DEF Sound, Waiting
<1>3. CASE len < W - w.pos
  <2>1. Waiting(r, end + len) /\ r.flash = w.flash /\ r.prev = w.prev
    BY <1>2, <1>3, JoinsCache
  <2> HIDE DEF r
  <2>2. ASSUME NEW a \in 0 .. Size - 1
        PROVE  r.flash[a] = IF a \in asks /\ a < r.prev THEN a ELSE Erased
    <3>1. a \in asks /\ a < w.prev <=> a \in to /\ a < w.prev
      BY <1>0, <1>1
    <3> QED BY <3>1, <2>1, <1>1
  <2>3. end + len \in 0 .. Size
    BY <1>0, <1>1
  <2>4. asks \subseteq 0 .. end + len - 1
    <3>1. ASSUME NEW a \in 0 .. end - 1 PROVE a \in 0 .. end + len - 1
      BY <1>1
    <3>2. ASSUME NEW a \in end .. end + len - 1 PROVE a \in 0 .. end + len - 1
      BY <1>1
    <3> QED BY <1>1, <3>1, <3>2
  <2>5. w.prev .. end + len - 1 \subseteq asks
    BY <1>1
  <2> HIDE DEF asks
  <2>6. Sound(r, asks, end + len)
    BY <1>1, <2>1, <2>2, <2>3, <2>4, <2>5 DEF Sound, Waiting
  <2> QED BY <2>6 DEF r, asks
<1>4. CASE ~(len < W - w.pos)
  <2>1. PICK full \in Buffer :
           /\ \A i \in 1 .. W : full[i] = w.prev + i - 1
           /\ r = WriteThrough([w EXCEPT !.flash = WriteToNAND(@, w.prev, full),
                                         !.buffer = full, !.pos = 0],
                               mid, Bytes(mid, end + len - mid))
    <3>1. W - w.pos =< len
      BY <1>0, <1>1, <1>4
    <3> QED BY <1>2, <3>1, FillsCache
  <2> DEFINE unit == [w EXCEPT !.flash = WriteToNAND(@, w.prev, full), !.buffer = full, !.pos = 0]
             done == to \cup (w.prev .. mid - 1)
             rest == end + len - mid
  <2>2. mid \in Nat /\ rest \in Nat /\ mid + rest = end + len /\ mid \in end .. w.prev + W
    BY <1>0, <1>1, <1>4
  <2>3. \A i \in 1 .. W : full[i] = IF w.prev + i - 1 < mid THEN w.prev + i - 1 ELSE Erased
    BY <1>0, <1>1, <2>1
  <2>4. unit.pos = 0 /\ Misalignment(mid) = 0
    BY <1>0, <1>1, UnitIsAligned, AlignedSum DEF Sound, Device
  <2> HIDE DEF mid, r
  <2>5. Sound(unit, done, mid)
    BY <2>2, <2>3, UnitSound
  <2> HIDE DEF unit, done, rest
  <2>6. Sound(WriteThrough(unit, mid, Bytes(mid, rest)), done \cup (mid .. mid + rest - 1), mid + rest)
    <3>1. mid \in Nat /\ rest \in Nat /\ mid =< mid /\ mid + rest =< Size
      BY <2>2 DEF rest
    <3>2. Misalignment(mid) = 0
      BY <2>4
    <3> QED BY ONLY <2>4, <2>5, <3>1, <3>2, WriteThroughSound
  <2>7. r = WriteThrough(unit, mid, Bytes(mid, rest))
    BY <2>1 DEF unit, rest
  <2>8. done \cup (mid .. mid + rest - 1) = asks
    BY <1>0, <1>1, <2>2 DEF done, mid
  <2> HIDE DEF asks
  <2>9. Sound(r, asks, end + len)
    BY <2>2, <2>6, <2>7, <2>8
  <2> QED BY <2>9 DEF r, asks
<1> QED BY <1>3, <1>4

LEMMA LeadsOn ==
    ASSUME NEW r, NEW to, NEW done, NEW from \in Nat, NEW mid \in Nat, NEW end \in Nat,
           to \subseteq done, done \subseteq to \cup (from .. mid - 1), from =< mid, mid =< end,
           Leads(r, done, mid, end)
    PROVE  Leads(r, to, from, end)
<1>1. PICK to2 \in SUBSET (done \cup (mid .. end - 1)) :
         done \subseteq to2 /\ (Sound(r, to2, end) \/ (Loose(r, to2, end) /\ mid =< r.prev))
  BY DEF Leads
<1>2. to \subseteq to2 /\ to2 \in SUBSET (to \cup (from .. end - 1))
  <2>1. ASSUME NEW a \in from .. mid - 1 PROVE a \in from .. end - 1
    OBVIOUS
  <2>2. ASSUME NEW a \in mid .. end - 1 PROVE a \in from .. end - 1
    OBVIOUS
  <2> QED BY <1>1, <2>1, <2>2
<1>3. Loose(r, to2, end) /\ mid =< r.prev => from =< r.prev
  BY DEF Loose, Device
<1> QED BY <1>1, <1>2, <1>3 DEF Leads

\* The same after a copy that began inside a unit.
LEMMA LooseSame ==
    ASSUME NEW w, NEW to, NEW end, Loose(w, to, end), NEW len \in Nat, end + len =< Size
    PROVE  Leads(SameUnit(w, end, Bytes(end, len)), to, w.prev, end + len)
<1> DEFINE r == SameUnit(w, end, Bytes(end, len))
           mid == w.prev + W
<1>0. W \in Nat /\ W > 0 /\ Size \in Nat
  BY UnitSize
<1>1. /\ w.pos \in Nat /\ w.pos > 0 /\ w.pos < W /\ w.prev \in Nat /\ end \in Nat /\ end =< Size
      /\ to \subseteq 0 .. end - 1 /\ end = w.prev + w.pos /\ Image(w.flash, to)
  BY <1>0 DEF Loose, Device
<1>2. Waiting(w, end)
  BY DEF Loose, Waiting
<1>3. CASE len < W - w.pos
  <2>1. Waiting(r, end + len) /\ r.flash = w.flash /\ r.prev = w.prev
    BY <1>2, <1>3, JoinsCache
  <2> HIDE DEF r
  <2>2. end + len \in 0 .. Size
    BY <1>0, <1>1
  <2>3. to \subseteq 0 .. end + len - 1
    <3>1. ASSUME NEW a \in 0 .. end - 1 PROVE a \in 0 .. end + len - 1
      BY <1>1
    <3> QED BY <1>1, <3>1
  <2>4. Loose(r, to, end + len)
    BY <1>1, <2>1, <2>2, <2>3 DEF Loose, Waiting
  <2> QED BY <1>1, <2>1, <2>4 DEF Leads, r
<1>4. CASE ~(len < W - w.pos)
  <2>1. PICK full \in Buffer :
           /\ \A i \in 1 .. W : full[i] = w.prev + i - 1
           /\ r = WriteThrough([w EXCEPT !.flash = WriteToNAND(@, w.prev, full),
                                         !.buffer = full, !.pos = 0],
                               mid, Bytes(mid, end + len - mid))
    <3>1. W - w.pos =< len
      BY <1>0, <1>1, <1>4
    <3> QED BY <1>2, <3>1, FillsCache
  <2> DEFINE unit == [w EXCEPT !.flash = WriteToNAND(@, w.prev, full), !.buffer = full, !.pos = 0]
             rest == end + len - mid
  <2>2. /\ mid \in Nat /\ rest \in Nat /\ mid + rest = end + len /\ mid + rest =< Size
        /\ mid \in end .. w.prev + W /\ mid \in 0 .. Size /\ mid =< Size
    BY <1>0, <1>1, <1>4
  <2>3. \A i \in 1 .. W : full[i] = IF w.prev + i - 1 < mid THEN w.prev + i - 1 ELSE Erased
    BY <1>0, <1>1, <2>1
  <2> HIDE DEF mid, r, rest
  <2>4. PICK u : u = unit
    OBVIOUS
  <2>5. Emptied(u, to, w.prev, mid)
    BY <2>2, <2>3, <2>4, LooseUnit
  <2>6. PICK done \in SUBSET (0 .. mid - 1) :
           /\ to \subseteq done /\ done \subseteq to \cup (w.prev .. mid - 1)
           /\ Image(u.flash, done)
    BY <2>5 DEF Emptied
  <2>7. Leads(WriteThrough(u, mid, Bytes(mid, rest)), done, mid, mid + rest)
    BY <2>2, <2>5, <2>6, LooseThrough DEF Emptied
  <2>8. r = WriteThrough(u, mid, Bytes(mid, rest))
    BY <2>1, <2>4 DEF rest
  <2>9. w.prev =< mid /\ mid =< end + len /\ end + len \in Nat
    BY <1>1, <2>2, <1>0 DEF mid
  <2>10. Leads(r, done, mid, end + len)
    BY <2>2, <2>7, <2>8
  <2>11. Leads(r, to, w.prev, end + len)
    BY <1>1, <2>2, <2>6, <2>9, <2>10, LeadsOn
  <2> QED BY <2>11 DEF r
<1> QED BY <1>3, <1>4

LEMMA LooseFlush ==
    ASSUME NEW w, NEW to, NEW end, Loose(w, to, end)
    PROVE  \E to2 \in SUBSET (to \cup (w.prev .. end - 1)) :
              to \subseteq to2 /\ Sound(FlushCopyCache(w), to2, end)
<1> DEFINE full == Pad(SubSeq(w.buffer, 1, w.pos))
           r == FlushCopyCache(w)
<1>0. W \in Nat /\ W > 0 /\ Size \in Nat
  BY UnitSize
<1>1. /\ w.pos \in Nat /\ w.pos > 0 /\ w.pos < W /\ w.prev \in Nat /\ end \in 0 .. Size
      /\ end = w.prev + w.pos /\ Waiting(w, end)
  BY <1>0 DEF Loose, Device, Waiting
<1>2. r = [w EXCEPT !.flash = WriteToNAND(@, w.prev, full), !.buffer = full, !.pos = 0]
  BY <1>1 DEF FlushCopyCache
<1>3. /\ full \in Buffer
      /\ \A i \in 1 .. W : full[i] = IF w.prev + i - 1 < end THEN w.prev + i - 1 ELSE Erased
  BY <1>1, PaddedCache
<1> HIDE DEF full, r
<1>4. end \in end .. w.prev + W /\ end =< Size
  BY <1>0, <1>1
<1>5. Emptied(r, to, w.prev, end)
  BY <1>2, <1>3, <1>4, LooseUnit
<1>6. PICK to2 \in SUBSET (0 .. end - 1) :
         /\ to \subseteq to2 /\ to2 \subseteq to \cup (w.prev .. end - 1)
         /\ Image(r.flash, to2)
  BY <1>5 DEF Emptied
<1>7. Sound(r, to2, end)
  BY <1>1, <1>5, <1>6, EmptyIsSound DEF Emptied
<1> QED BY <1>6, <1>7 DEF r

LEMMA NowIs == /\ Now.flash = flash /\ Now.buffer = writeCache
               /\ Now.pos = currentWriteCachePos /\ Now.prev = prevDest
BY DEF Now

\* What a step makes of the device is the device after it.
LEMMA BecomesAccounts ==
    ASSUME NEW w, Becomes(w), NEW to, Accounts(w, to, asked', inside', next')
    PROVE  WriteCacheInv'
<1>1. w = [flash |-> w.flash, buffer |-> w.buffer, pos |-> w.pos, prev |-> w.prev]
  BY DEF Accounts, Sound, Loose, Device
<1>2. Now' = w
  BY <1>1 DEF Becomes, Now
<1>3. to \in SUBSET asked'
  BY DEF Accounts
<1> QED BY <1>2, <1>3 DEF WriteCacheInv

\* What a copy from `from` on leads to, when what it shares a unit with began inside a
\* unit too.
LEMMA LeadsAccounts ==
    ASSUME NEW r, NEW to, NEW from \in Nat, NEW end \in Nat, Leads(r, to, from, end),
           NEW all, NEW ins, all \ ins \subseteq to, to \subseteq all, ins \subseteq all,
           from .. end - 1 \subseteq ins
    PROVE  \E to2 : Accounts(r, to2, all, ins, end)
<1>1. PICK to2 \in SUBSET (to \cup (from .. end - 1)) :
         to \subseteq to2 /\ (Sound(r, to2, end) \/ (Loose(r, to2, end) /\ from =< r.prev))
  BY DEF Leads
<1>2. all \ ins \subseteq to2 /\ to2 \subseteq all
  BY <1>1
<1>3. ASSUME Loose(r, to2, end), from =< r.prev PROVE r.prev .. end - 1 \subseteq ins
  <2>1. r.prev \in Nat
    BY <1>3 DEF Loose, Device
  <2>2. r.prev .. end - 1 \subseteq from .. end - 1
    BY <1>3, <2>1
  <2> QED BY <2>2
<1> QED BY <1>1, <1>2, <1>3 DEF Accounts

LEMMA CopyKeeps ==
    ASSUME Gaps = {0}, WriteCacheInv, NEW dest \in 0 .. Size - 1, NEW len \in 1 .. Size - dest,
           Copy(dest, len)
    PROVE  WriteCacheInv'
<1> DEFINE r == PerformCopyWithCache(Now, dest, Bytes(dest, len))
           end == dest + len
           X == dest .. end - 1
<1>0. /\ W \in Nat /\ W > 0 /\ Size \in Nat /\ dest \in Nat /\ len \in Nat /\ len > 0
      /\ end =< Size /\ end \in Nat /\ dest \in 0 .. Size
  BY UnitSize
<1>1. /\ next =< dest /\ Becomes(r) /\ asked' = asked \cup X /\ next' = end
      /\ currentWriteCachePos # 0 => dest - next \in Gaps
      /\ inside' = IF BeginsInside(dest) THEN inside \cup X ELSE inside
  BY DEF Copy
<1>2. PICK to \in SUBSET asked : Accounts(Now, to, asked, inside, next)
  BY DEF WriteCacheInv
<1>3. /\ asked \ inside \subseteq to /\ to \subseteq asked /\ inside \subseteq asked
      /\ inside' \subseteq asked' /\ asked' \ inside' \subseteq to \cup X
  BY <1>1, <1>2 DEF Accounts
<1>4. /\ Now \in Device /\ Now.pos \in Nat /\ Now.prev \in Nat /\ Now.pos < W
      /\ next \in 0 .. Size /\ next \in Nat /\ to \subseteq 0 .. next - 1
      /\ Now.pos = currentWriteCachePos
  <2>1. Now \in Device /\ next \in 0 .. Size /\ to \subseteq 0 .. next - 1
    BY <1>2 DEF Accounts, Sound, Loose
  <2> QED BY <1>0, <2>1, NowIs DEF Device
<1> SUFFICES \E to2 : Accounts(r, to2, asked', inside', next')
  BY <1>1, BecomesAccounts
<1>5. ASSUME Now.pos = 0 PROVE Sound(Now, to, next) /\ r = WriteThrough(Now, dest, Bytes(dest, len))
  BY <1>2, <1>5 DEF Accounts, Loose, PerformCopyWithCache
<1>6. ASSUME Now.pos # 0
      PROVE  dest = next /\ r = SameUnit(Now, next, Bytes(next, len)) /\ Now.prev + Now.pos = next
  <2>1. next = Now.prev + Now.pos
    BY <1>2, <1>4, <1>6 DEF Accounts, Sound, Loose
  <2>2. dest = next
    <3>1. dest - next \in Gaps
      BY <1>1, <1>4, <1>6
    <3> QED BY <1>0, <1>4, <3>1
  <2>3. Now.prev < dest /\ dest < Now.prev + W /\ ~(dest =< Now.prev) /\ ~(Now.prev + W =< dest)
    BY <1>0, <1>4, <1>6, <2>1, <2>2
  <2>4. Padded(Now, dest) = Now
    BY <2>1, <2>2 DEF Padded
  <2>5. r = SameUnit(Padded(Now, dest), dest, Bytes(dest, len))
    BY <1>6, <2>3 DEF PerformCopyWithCache, W
  <2> HIDE DEF r
  <2> QED BY <2>1, <2>2, <2>4, <2>5
<1> HIDE DEF r
<1>7. ASSUME Sound(r, to \cup X, end) PROVE \E to2 : Accounts(r, to2, asked', inside', next')
  <2>1. to \cup X \subseteq asked'
    BY <1>1, <1>3
  <2> HIDE DEF X
  <2> QED BY <1>1, <1>3, <1>7, <2>1 DEF Accounts
<1>8. CASE Now.pos = 0 /\ Misalignment(dest) = 0
  <2>1. Sound(WriteThrough(Now, dest, Bytes(dest, len)), to \cup (dest .. dest + len - 1), dest + len)
    BY <1>0, <1>1, <1>5, <1>8, WriteThroughSound
  <2> QED BY <1>5, <1>7, <1>8, <2>1
<1>9. CASE Now.pos = 0 /\ Misalignment(dest) # 0
  <2>1. Image(Now.flash, to) /\ to \in SUBSET (0 .. dest - 1)
    <3>1. ASSUME NEW a \in 0 .. next - 1 PROVE a \in 0 .. dest - 1
      BY <1>0, <1>1, <1>4
    <3> QED BY <1>4, <1>5, <1>9, <3>1 DEF Sound, Image
  <2>2. Leads(WriteThrough(Now, dest, Bytes(dest, len)), to, dest, dest + len)
    BY <1>0, <1>4, <1>9, <2>1, LooseThrough
  <2>3. Leads(r, to, dest, end)
    BY <1>5, <1>9, <2>2
  <2>4. inside' = inside \cup X
    BY <1>1, <1>4, <1>9 DEF BeginsInside
  <2>5. asked' \ inside' \subseteq to /\ to \subseteq asked' /\ X \subseteq inside'
    BY <1>1, <1>3, <2>4
  <2> HIDE DEF end
  <2> QED BY <1>0, <1>1, <1>3, <2>3, <2>5, LeadsAccounts
<1>10. CASE Now.pos # 0 /\ Sound(Now, to, next)
  <2>1. Now.pos > 0 /\ next + len =< Size
    BY <1>0, <1>4, <1>6, <1>10
  <2>2. Sound(SameUnit(Now, next, Bytes(next, len)), to \cup (next .. next + len - 1), next + len)
    BY <1>0, <1>10, <2>1, SameUnitSound
  <2>3. dest = next /\ r = SameUnit(Now, next, Bytes(next, len))
    BY <1>6, <1>10
  <2>4. Sound(r, to \cup (next .. next + len - 1), next + len)
    BY <2>2, <2>3
  <2>5. Sound(r, to \cup X, end)
    BY <2>3, <2>4
  <2> QED BY <1>7, <2>5
<1>11. CASE Now.pos # 0 /\ Loose(Now, to, next) /\ Now.prev .. next - 1 \subseteq inside
  <2>1. next - 1 \in inside /\ next + len =< Size
    BY <1>0, <1>4, <1>6, <1>11
  <2>2. inside' = inside \cup X
    BY <1>1, <1>4, <1>11, <2>1 DEF BeginsInside
  <2>3. Leads(SameUnit(Now, next, Bytes(next, len)), to, Now.prev, next + len)
    BY <1>0, <1>11, <2>1, LooseSame
  <2>4. Leads(r, to, Now.prev, end)
    BY <1>6, <1>11, <2>3
  <2>5. asked' \ inside' \subseteq to /\ to \subseteq asked'
    BY <1>1, <1>3, <2>2
  <2>6. Now.prev .. end - 1 \subseteq inside'
    <3>1. ASSUME NEW a \in Now.prev .. end - 1 PROVE a \in Now.prev .. next - 1 \/ a \in X
      BY <1>0, <1>4, <1>6, <1>11
    <3> QED BY <1>11, <2>2, <3>1
  <2> HIDE DEF end
  <2> QED BY <1>0, <1>1, <1>3, <1>4, <2>4, <2>5, <2>6, LeadsAccounts
<1> QED BY <1>2, <1>8, <1>9, <1>10, <1>11 DEF Accounts

LEMMA EraseKeeps == ASSUME WriteCacheInv, Erase PROVE WriteCacheInv'
<1> DEFINE r == FlushCopyCache(Now)
<1>1. Becomes(r) /\ asked' = asked /\ inside' = inside /\ next' = next
  BY DEF Erase
<1>2. PICK to \in SUBSET asked : Accounts(Now, to, asked, inside, next)
  BY DEF WriteCacheInv
<1> SUFFICES \E to2 : Accounts(r, to2, asked, inside, next)
  BY <1>1, BecomesAccounts
<1>3. CASE Sound(Now, to, next)
  <2>1. Sound(r, to, next)
    BY <1>3, FlushSound
  <2> HIDE DEF r
  <2> QED BY <1>2, <2>1 DEF Accounts
<1>4. CASE Loose(Now, to, next) /\ Now.prev .. next - 1 \subseteq inside
  <2>1. PICK to2 \in SUBSET (to \cup (Now.prev .. next - 1)) : to \subseteq to2 /\ Sound(r, to2, next)
    BY <1>4, LooseFlush
  <2> HIDE DEF r
  <2>2. asked \ inside \subseteq to2 /\ to2 \subseteq asked /\ inside \subseteq asked
    BY <1>2, <1>4, <2>1 DEF Accounts
  <2> QED BY <2>1, <2>2 DEF Accounts
<1> QED BY <1>2, <1>3, <1>4 DEF Accounts

LEMMA WriteCacheInvStep == Gaps = {0} /\ WriteCacheInv /\ [Next]_vars => WriteCacheInv'
<1> SUFFICES ASSUME Gaps = {0}, WriteCacheInv, [Next]_vars PROVE WriteCacheInv'
  OBVIOUS
<1>1. ASSUME NEW dest \in 0 .. Size - 1, NEW len \in 1 .. Size - dest, Copy(dest, len)
      PROVE  WriteCacheInv'
  BY <1>1, CopyKeeps
<1>2. CASE Erase
  BY <1>2, EraseKeeps
<1>3. CASE EndOfStream \/ Ended \/ UNCHANGED vars
  <2>1. UNCHANGED <<flash, cache, asked, inside, next>>
    BY <1>3 DEF EndOfStream, Ended, vars
  <2>2. Now' = Now /\ asked' = asked /\ inside' = inside /\ next' = next
    BY <2>1 DEF Now, cache
  <2> QED BY <2>2 DEF WriteCacheInv
<1> QED BY <1>1, <1>2, <1>3 DEF Next

LEMMA WriteCacheInvInit == Init => WriteCacheInv
<1> SUFFICES ASSUME Init PROVE WriteCacheInv
  OBVIOUS
<1>0. W \in Nat /\ W > 0 /\ Size \in Nat
  BY UnitSize
<1>1. flash \in Flash /\ writeCache \in Buffer
  BY DEF Init, Flash, Buffer, W, Erased, Zero
<1>2. Now \in Device
  BY <1>0, <1>1 DEF Now, Device, Init
<1>3. \A a \in 0 .. Size - 1 : flash[a] = Erased
  BY DEF Init
<1>4. Sound(Now, {}, next)
  BY <1>0, <1>2, <1>3, NowIs DEF Sound, Init
<1>5. asked = {} /\ inside = {}
  BY DEF Init
<1>6. Accounts(Now, {}, asked, inside, next)
  BY <1>4, <1>5 DEF Accounts
<1> QED BY <1>5, <1>6 DEF WriteCacheInv

LEMMA WriteCacheInvSafe ==
    ASSUME WriteCacheInv
    PROVE  NothingLost /\ NothingElse
<1>1. PICK to \in SUBSET asked : Accounts(Now, to, asked, inside, next)
  BY DEF WriteCacheInv
<1>2. asked \ inside \subseteq to
  BY <1>1 DEF Accounts
<1>3. /\ currentWriteCachePos \in Nat /\ prevDest \in Nat /\ next \in Nat /\ next =< Size
      /\ to \subseteq 0 .. next - 1 /\ flash \in Flash /\ Size \in Nat
  <2>1. Now \in Device /\ next \in 0 .. Size /\ to \subseteq 0 .. next - 1
    BY <1>1 DEF Accounts, Sound, Loose
  <2> QED BY <2>1, NowIs, UnitSize DEF Device
<1>4. ASSUME Sound(Now, to, next)
      PROVE  /\ currentWriteCachePos > 0 =>
                   /\ next = prevDest + currentWriteCachePos
                   /\ \A i \in 1 .. currentWriteCachePos : writeCache[i] = prevDest + i - 1
             /\ \A a \in 0 .. Size - 1 :
                   flash[a] = IF a \in to /\ (currentWriteCachePos > 0 => a < prevDest)
                              THEN a ELSE Erased
  BY <1>4, NowIs DEF Sound
<1>5. ASSUME Loose(Now, to, next)
      PROVE  \A a \in 0 .. Size - 1 : flash[a] = IF a \in to THEN a ELSE Erased
  BY <1>5, NowIs DEF Loose, Image
<1>6. Sound(Now, to, next) \/ Loose(Now, to, next)
  BY <1>1 DEF Accounts
<1>7. ASSUME NEW a \in to PROVE Kept(a)
  <2>1. a \in 0 .. Size - 1 /\ a \in Nat /\ a < next
    BY <1>3
  <2>2. CASE Sound(Now, to, next) /\ currentWriteCachePos > 0 /\ prevDest =< a
    <3> DEFINE i == a - prevDest + 1
    <3>1. i \in 1 .. currentWriteCachePos /\ prevDest + i - 1 = a
      BY <1>3, <1>4, <2>1, <2>2
    <3>2. writeCache[i] = a
      BY <1>4, <2>2, <3>1
    <3> QED BY <3>1, <3>2 DEF Waits, Kept
  <2>3. CASE Sound(Now, to, next) /\ ~(currentWriteCachePos > 0 /\ prevDest =< a)
    BY <1>3, <1>4, <2>1, <2>3 DEF Kept
  <2>4. CASE Loose(Now, to, next)
    BY <1>5, <2>1, <2>4 DEF Kept
  <2> QED BY <1>6, <2>2, <2>3, <2>4
<1>8. NothingLost
  BY <1>2, <1>7 DEF NothingLost
<1>9. NothingElse
  <2>1. DOMAIN flash = 0 .. Size - 1
    BY <1>3 DEF Flash
  <2>2. \A a \in 0 .. Size - 1 : flash[a] # Erased => a \in to /\ flash[a] = a
    BY <1>4, <1>5, <1>6
  <2> QED BY <2>1, <2>2 DEF NothingElse
<1> QED BY <1>8, <1>9

\* However copies are cut and wherever they begin, when they leave no gap inside a unit,
\* each byte performCopyWithCache was given is in its place in the flash or waits in the
\* write cache for its unit, but for the copies that began inside a unit; and those take
\* nothing from the others.
THEOREM EveryByteIsWritten == ASSUME Gaps = {0} PROVE Spec => []NothingLost
<1>1. Init => WriteCacheInv
  BY WriteCacheInvInit
<1>2. WriteCacheInv /\ [Next]_vars => WriteCacheInv'
  BY WriteCacheInvStep
<1>3. WriteCacheInv => NothingLost
  BY WriteCacheInvSafe
<1> QED BY <1>1, <1>2, <1>3, PTL DEF Spec

\* Neither the padding of flushCopyCache nor what is left in the cache from before is
\* programmed in the place of a byte.
THEOREM NoStrayByte == ASSUME Gaps = {0} PROVE Spec => []NothingElse
<1>1. Init => WriteCacheInv
  BY WriteCacheInvInit
<1>2. WriteCacheInv /\ [Next]_vars => WriteCacheInv'
  BY WriteCacheInvStep
<1>3. WriteCacheInv => NothingElse
  BY WriteCacheInvSafe
<1> QED BY <1>1, <1>2, <1>3, PTL DEF Spec
=================================================================================
