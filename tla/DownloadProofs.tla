----------------------------- MODULE DownloadProofs -----------------------------
(***************************************************************************)
(* Proofs about Download, for every size of header, page, reply, chunk and *)
(* storage, every manifest that fits, any number of downloads and chunks   *)
(* of any length the network box delivers, those that go past the end of a *)
(* page included: every byte received is stored, in order and no further   *)
(* behind its place than what such chunks displaced; an update is          *)
(* requested only when all of it is; nothing else displaces a byte; and no *)
(* page is touched but those that this takes.                              *)
(***************************************************************************)
EXTENDS Download, TLAPS

Places == 0 .. StorageLength - 1
Page   == 0 .. PageLength - 1
Cells  == Nat \X Nat
Busy   == {"recv", "copy", "commit"}

TypeOK ==
    /\ storage \in [Places -> Cells] /\ cache \in [Page -> Cells]
    /\ bufferPos \in Nat /\ writePosition \in Nat /\ httpReplyLeft \in 0 .. ReplyLength
    /\ manifestLength \in Nat
    /\ chunk \in [from : Nat, length : Nat]
    /\ consumed \in Nat /\ pc \in Busy \cup {"idle", "requested"}
    /\ announced \in 0 .. MaxManifest /\ total \in Nat /\ right \in Nat
    /\ received \in 0 .. total /\ download \in Nat

\* Where the next byte goes.  The page in the cache may be full.
PlaceInv ==
    pc \in Busy =>
        /\ manifestLength =< announced /\ bufferPos =< PageLength
        /\ Displaced >= 0 /\ download # 0
        /\ \E k \in 0 .. writePosition : writePosition = k * PageLength

\* What was received is the reply, then the bytes collected and the chunk at hand.
StreamInv ==
    /\ pc = "recv" =>
           received = IF httpReplyLeft = 0 THEN ReplyLength + announced - manifestLength
                                           ELSE ReplyLength - httpReplyLeft
    /\ pc \in Busy /\ httpReplyLeft # 0 => pc # "copy" /\ manifestLength = announced
    /\ pc = "copy" => received = ReplyLength + announced - manifestLength + chunk.length

\* The chunk at hand comes next, and when a part of it went into the page
\* before, a page begins.
ChunkInv ==
    pc = "copy" =>
        /\ chunk.from = HeaderLength + announced - manifestLength
        /\ chunk.length \in 1 .. manifestLength /\ chunk.length =< PageLength
        /\ consumed < chunk.length /\ (consumed > 0 => bufferPos = 0)

\* The first C bytes of a download are in the first P places of a memory, in
\* order, each at most P - C behind its place.
Content(memory, P, C, id) ==
    /\ \A i \in 0 .. C - 1 : \E d \in 0 .. P - C : memory[i + d] = <<id, i>>
    /\ \A q \in 0 .. P - 1 : memory[q][1] = id =>
           /\ memory[q][2] < C
           /\ \A p \in 0 .. q - 1 : memory[p][1] = id => memory[p][2] < memory[q][2]

Memory == [p \in Nat |-> Held(p)]

ContentInv ==
    pc \in Busy /\ Position =< StorageLength => Content(Memory, Position, Collected, download)

DownloadInv ==
    TypeOK /\ PlaceInv /\ StreamInv /\ ChunkInv /\ ContentInv /\ RequestedIsComplete

-----------------------------------------------------------------------------
(* Numbers. *)

LEMMA SmallerBound ==
    ASSUME NEW a \in Nat, NEW b \in Nat
    PROVE  Smaller(a, b) \in Nat /\ Smaller(a, b) =< a /\ Smaller(a, b) =< b
BY DEF Smaller

LEMMA TimesMonotone ==
    ASSUME NEW a \in Int, NEW b \in Int, NEW c \in Nat, a =< b
    PROVE  a * c =< b * c
OBVIOUS

\* The page that begins below a length is one of its necessary pages.
LEMMA PageIsNecessary ==
    ASSUME NEW length \in Nat, NEW k \in Nat, k * PageLength < length
    PROVE  /\ NecessaryPages(length) \in Nat
           /\ k * PageLength + PageLength =< NecessaryPages(length) * PageLength
<1> DEFINE q == (length - 1) \div PageLength
<1>1. PageLength \in Nat \ {0}
  BY LengthAssumption
<1>2. k * PageLength \in Nat
  BY <1>1
<1>3. length # 0 /\ NecessaryPages(length) = q + 1
  BY <1>2 DEF NecessaryPages
<1>4. q \in Nat /\ length - 1 < q * PageLength + PageLength
  BY <1>1, <1>3
<1> HIDE DEF q
<1>5. k =< q
  <2>1. CASE q + 1 =< k
    <3>1. (q + 1) * PageLength =< k * PageLength
      BY <1>1, <1>4, <2>1, TimesMonotone
    <3>2. (q + 1) * PageLength = q * PageLength + PageLength
      BY <1>1, <1>4
    <3>3. q * PageLength \in Nat
      BY <1>1, <1>4
    <3> QED BY <1>1, <1>2, <1>4, <3>1, <3>2, <3>3
  <2> QED BY <1>4, <2>1
<1>6. (k + 1) * PageLength =< (q + 1) * PageLength
  BY <1>1, <1>4, <1>5, TimesMonotone
<1>7. (k + 1) * PageLength = k * PageLength + PageLength
  BY <1>1
<1> QED BY <1>3, <1>4, <1>6, <1>7

-----------------------------------------------------------------------------
(* Contents. *)

\* n places behind the first Position take the next m bytes, and junk.
LEMMA Extends ==
    ASSUME NEW n \in Nat, NEW m \in Nat, m =< n,
           Position \in Nat, Collected \in Nat, Collected =< Position,
           Position' \in Nat, Position' = Position + n,
           Collected' \in Nat, Collected' = Collected + m, download \in Nat, download # 0,
           Content(Memory, Position, Collected, download),
           \A p \in 0 .. Position - 1 : Memory[p] \in Cells /\ Memory'[p] = Memory[p],
           \A j \in 0 .. n - 1 :
               Memory'[Position + j] = IF j < m THEN <<download, Collected + j>> ELSE Junk
    PROVE  Content(Memory', Position', Collected', download)
<1>1. ASSUME NEW i \in 0 .. Collected' - 1
      PROVE  \E d \in 0 .. Position' - Collected' : Memory'[i + d] = <<download, i>>
  <2>1. CASE i < Collected
    <3> i \in 0 .. Collected - 1
      BY <2>1
    <3>1. PICK d \in 0 .. Position - Collected : Memory[i + d] = <<download, i>>
      BY DEF Content
    <3>2. i + d \in 0 .. Position - 1 /\ d \in 0 .. Position' - Collected'
      BY <2>1
    <3> QED BY <3>1, <3>2
  <2>2. CASE i >= Collected
    <3>1. /\ i - Collected \in 0 .. n - 1 /\ i - Collected < m /\ Collected + (i - Collected) = i
          /\ Position + (i - Collected) = i + (Position - Collected)
          /\ Position - Collected \in 0 .. Position' - Collected'
      BY <2>2
    <3>2. Memory'[i + (Position - Collected)] = <<download, i>>
      BY <3>1
    <3> QED BY <3>1, <3>2
  <2> QED BY <2>1, <2>2
<1>2. ASSUME NEW q \in 0 .. Position' - 1, Memory'[q][1] = download, q < Position
      PROVE  /\ Memory'[q] = Memory[q] /\ Memory[q][2] < Collected
             /\ \A p \in 0 .. q - 1 : /\ Memory'[p] = Memory[p]
                                      /\ Memory[p][1] = download => Memory[p][2] < Memory[q][2]
  <2>1. q \in 0 .. Position - 1 /\ \A p \in 0 .. q - 1 : p \in 0 .. Position - 1
    BY <1>2
  <2> QED BY <1>2, <2>1 DEF Content
<1>3. ASSUME NEW q \in 0 .. Position' - 1, Memory'[q][1] = download, q >= Position
      PROVE  q - Position < m /\ Memory'[q][2] = Collected + (q - Position)
  <2>1. q - Position \in 0 .. n - 1 /\ Position + (q - Position) = q
    BY <1>3
  <2>2. Memory'[q] = IF q - Position < m THEN <<download, Collected + (q - Position)>> ELSE Junk
    BY <2>1
  <2> QED BY <1>3, <2>2 DEF Junk
<1>4. ASSUME NEW q \in 0 .. Position' - 1, Memory'[q][1] = download,
             NEW p \in 0 .. q - 1, Memory'[p][1] = download
      PROVE  Memory'[p][2] < Memory'[q][2]
  <2>1. CASE q < Position
    BY <1>2, <1>4, <2>1
  <2>2. CASE q >= Position /\ p < Position
    <3>1. p \in 0 .. Position - 1 /\ Memory'[p] = Memory[p]
      BY <2>2
    <3>2. Memory[p][2] < Collected /\ Memory[p][2] \in Nat
      BY <1>4, <3>1 DEF Content, Cells
    <3>3. Memory'[q][2] = Collected + (q - Position) /\ q - Position \in Nat
      BY <1>3, <1>4, <2>2
    <3> QED BY <3>1, <3>2, <3>3
  <2>3. CASE q >= Position /\ p >= Position
    <3>1. p \in 0 .. Position' - 1
      OBVIOUS
    <3>2. Memory'[q][2] = Collected + (q - Position) /\ Memory'[p][2] = Collected + (p - Position)
      BY <1>3, <1>4, <2>3, <3>1
    <3> QED BY <3>2, <2>3
  <2> QED BY <2>1, <2>2, <2>3
<1>5. ASSUME NEW q \in 0 .. Position' - 1, Memory'[q][1] = download
      PROVE  Memory'[q][2] < Collected'
  <2>1. CASE q < Position
    <3>1. q \in 0 .. Position - 1
      BY <2>1
    <3>2. Memory'[q] = Memory[q] /\ Memory[q][2] < Collected /\ Memory[q][2] \in Nat
      BY <1>2, <1>5, <2>1, <3>1 DEF Cells
    <3> QED BY <3>2
  <2>2. CASE q >= Position
    BY <1>3, <1>5, <2>2
  <2> QED BY <2>1, <2>2
<1>6. \A q \in 0 .. Position' - 1 : Memory'[q][1] = download =>
          /\ Memory'[q][2] < Collected'
          /\ \A p \in 0 .. q - 1 : Memory'[p][1] = download => Memory'[p][2] < Memory'[q][2]
  BY <1>4, <1>5
<1>7. \A i \in 0 .. Collected' - 1 :
          \E d \in 0 .. Position' - Collected' : Memory'[i + d] = <<download, i>>
  BY <1>1
<1> QED BY <1>6, <1>7, Zenon DEF Content

-----------------------------------------------------------------------------
(* Each action keeps the invariant, the pages behind the update, and the       *)
(* displacement of what is stored.                                             *)

BehindKept ==
    \A i \in DOMAIN storage :
        i >= NecessaryPages(HeaderLength + announced' + Displaced') * PageLength
            => storage'[i] = storage[i]

DisplacedByCrossing ==
    pc # "idle" /\ Displaced' # Displaced =>
        pc = "copy" /\ consumed > 0 /\ Displaced' = Displaced + consumed

Kept == DownloadInv' /\ BehindKept /\ DisplacedByCrossing

\* What the invariant says of the numbers.
LEMMA Numbers ==
    ASSUME DownloadInv, pc \in Busy
    PROVE  /\ bufferPos \in Nat /\ writePosition \in Nat /\ manifestLength \in Nat
           /\ announced \in Nat /\ consumed \in Nat /\ download \in Nat /\ download # 0
           /\ HeaderLength \in Nat /\ PageLength \in Nat \ {0} /\ StorageLength \in Nat
           /\ chunk.length \in Nat /\ chunk.from \in Nat
           /\ manifestLength =< announced /\ bufferPos =< PageLength
           /\ Collected \in Nat /\ Collected =< Position /\ Position = writePosition + bufferPos
           /\ Displaced = Position - Collected /\ Displaced \in Nat
           /\ Collected =< HeaderLength + announced
<1>1. /\ bufferPos \in Nat /\ writePosition \in Nat /\ manifestLength \in Nat
      /\ announced \in Nat /\ consumed \in Nat /\ download \in Nat /\ download # 0
      /\ HeaderLength \in Nat /\ PageLength \in Nat \ {0} /\ StorageLength \in Nat
      /\ chunk.length \in Nat /\ chunk.from \in Nat
      /\ manifestLength =< announced /\ bufferPos =< PageLength /\ Displaced >= 0
  BY LengthAssumption DEF DownloadInv, TypeOK, PlaceInv
<1>2. pc = "copy" => consumed =< manifestLength
  <2> SUFFICES ASSUME pc = "copy" PROVE consumed =< manifestLength
    OBVIOUS
  <2>1. consumed < chunk.length /\ chunk.length =< manifestLength
    BY DEF DownloadInv, ChunkInv
  <2> QED BY <1>1, <2>1
<1>3. Collected \in Nat /\ Collected =< HeaderLength + announced
  BY <1>1, <1>2 DEF Collected
<1> QED BY <1>1, <1>3 DEF Position, Displaced

\* A place below the position holds a cell.
LEMMA HeldCells ==
    ASSUME DownloadInv, pc \in Busy, Position =< StorageLength
    PROVE  \A p \in 0 .. Position - 1 : Memory[p] = Held(p) /\ Memory[p] \in Cells
<1> TAKE p \in 0 .. Position - 1
<1>1. Memory[p] = Held(p) /\ p \in Nat
  BY Numbers DEF Memory
<1>2. CASE p < writePosition
  <2>1. p \in Places
    BY <1>1, <1>2, Numbers DEF Places
  <2> QED BY <1>1, <1>2, <2>1 DEF Held, DownloadInv, TypeOK
<1>3. CASE ~(p < writePosition)
  <2>1. p - writePosition \in Page
    BY <1>1, <1>3, Numbers DEF Page
  <2> QED BY <1>1, <1>3, <2>1 DEF Held, DownloadInv, TypeOK
<1> QED BY <1>2, <1>3

LEMMA ReceiveType ==
    ASSUME TypeOK, NEW n \in Nat, Receive(n)
    PROVE  /\ ReplyPart(n) \in Nat /\ ReplyPart(n) =< n /\ ReplyPart(n) =< httpReplyLeft
           /\ received' = received + n /\ received' \in 0 .. total /\ n > 0
           /\ n = ReplyPart(n) \/ ReplyPart(n) = httpReplyLeft
<1>1. ReplyLength \in Nat /\ httpReplyLeft \in Nat
  BY LengthAssumption DEF TypeOK
<1>2. /\ ReplyPart(n) \in Nat /\ ReplyPart(n) =< n /\ ReplyPart(n) =< httpReplyLeft
      /\ n = ReplyPart(n) \/ ReplyPart(n) = httpReplyLeft
  BY <1>1 DEF ReplyPart, Smaller
<1>3. n =< total - received /\ n > 0
  BY LengthAssumption DEF Receive, Smaller, TypeOK
<1> QED BY <1>2, <1>3 DEF Receive, TypeOK

LEMMA DownloadInvInit == Init => DownloadInv
<1> SUFFICES ASSUME Init PROVE DownloadInv
  OBVIOUS
<1>1. storage \in [Places -> Cells] /\ cache \in [Page -> Cells]
  BY DEF Init, Places, Page, Cells, Erased, Junk
<1>2. TypeOK
  BY <1>1, LengthAssumption DEF Init, TypeOK
<1> QED BY <1>2 DEF Init, DownloadInv, PlaceInv, StreamInv, ChunkInv, ContentInv,
                    RequestedIsComplete, Busy

LEMMA SendKeeps ==
    ASSUME DownloadInv, NEW length \in 0 .. MaxManifest, NEW matching \in 0 .. ReplyLength,
           NEW bytes \in 0 .. ReplyLength + length + 1, SendPayloadRequest(length, bytes, matching)
    PROVE  Kept
<1> USE LengthAssumption DEF SendPayloadRequest, DownloadInv
<1>1. length \in Nat /\ matching \in Nat /\ bytes \in Nat
  OBVIOUS
<1>2. cache' = [i \in Page |-> IF i < HeaderLength THEN <<download', i>> ELSE Junk]
  BY DEF TypeOK, Byte
<1>3. storage' \in [Places -> Cells] /\ cache' \in [Page -> Cells]
  <2>1. storage' = [i \in Places |-> IF i < NecessaryPages(HeaderLength + length) * PageLength
                                     THEN Erased ELSE storage[i]]
    BY DEF EraseNecessarySpace, TypeOK
  <2>2. Junk \in Cells /\ \A i \in Page : <<download', i>> \in Cells
    BY DEF Page, Cells, Junk, TypeOK
  <2>3. cache' \in [Page -> Cells]
    BY ONLY <1>2, <2>2
  <2> QED BY <2>1, <2>3 DEF TypeOK, Cells, Erased
<1>4. TypeOK'
  BY <1>1, <1>3 DEF TypeOK, Busy
<1>5. /\ writePosition' = 0 /\ Position' = HeaderLength /\ Collected' = HeaderLength
      /\ Displaced' = 0 /\ download' \in Nat \ {0}
  BY <1>1 DEF Position, Collected, Displaced, TypeOK
<1>6. PlaceInv'
  BY <1>1, <1>5 DEF PlaceInv
<1>7. StreamInv' /\ ChunkInv' /\ RequestedIsComplete'
  BY <1>1 DEF StreamInv, ChunkInv, RequestedIsComplete
<1>8. ContentInv'
  <2>1. HeaderLength \in Nat /\ PageLength \in Nat /\ HeaderLength < PageLength
    BY LengthAssumption
  <2>2. \A i \in 0 .. HeaderLength - 1 : i \in Nat /\ i \in Page /\ i < HeaderLength /\ i - 0 = i
    BY ONLY <2>1 DEF Page
  <2>3. \A i \in 0 .. HeaderLength - 1 : Held(i)' = cache'[i]
    BY <1>5, <2>2 DEF Held
  <2>4. \A i \in 0 .. HeaderLength - 1 : Memory'[i] = <<download', i>>
    BY ONLY <1>2, <2>2, <2>3 DEF Memory
  <2>5. \A i \in 0 .. HeaderLength - 1 :
            \E d \in 0 .. HeaderLength - HeaderLength : Memory'[i + d] = <<download', i>>
    <3> TAKE i \in 0 .. HeaderLength - 1
    <3>1. i + 0 = i /\ 0 \in 0 .. HeaderLength - HeaderLength
      BY <2>1
    <3> QED BY <2>4, <3>1
  <2>6. ASSUME NEW q \in 0 .. HeaderLength - 1
        PROVE  /\ Memory'[q][2] < HeaderLength
               /\ \A p \in 0 .. q - 1 : Memory'[p][2] < Memory'[q][2]
    <3>1. \A p \in 0 .. q - 1 : p \in 0 .. HeaderLength - 1 /\ p < q
      BY <2>1
    <3>2. \A p \in 0 .. HeaderLength - 1 : Memory'[p][2] = p
      BY <2>4
    <3> QED BY <2>1, <3>1, <3>2
  <2>7. Content(Memory', HeaderLength, HeaderLength, download')
    BY ONLY <2>5, <2>6 DEF Content
  <2> QED BY <1>5, <2>7 DEF ContentInv
<1>9. BehindKept
  <2>1. announced' = length /\ HeaderLength + length + 0 = HeaderLength + length
    BY <1>1
  <2>2. NecessaryPages(HeaderLength + length) \in Int
    BY <1>1 DEF NecessaryPages
  <2> QED BY <1>5, <2>1, <2>2 DEF BehindKept, EraseNecessarySpace, TypeOK, Places
<1> QED BY <1>4, <1>6, <1>7, <1>8, <1>9 DEF Kept, DisplacedByCrossing

\* A step that leaves the memory and its positions alone keeps what they hold.
LEMMA SameContent ==
    ASSUME DownloadInv, pc \in Busy, pc \in Busy <=> pc' \in Busy,
           UNCHANGED <<storage, cache, bufferPos, writePosition, manifestLength, announced,
                       download>>,
           pc # "copy", pc' = "copy" => consumed' = 0
    PROVE  /\ ContentInv' /\ BehindKept /\ DisplacedByCrossing
           /\ Position' = Position /\ Collected' = Collected /\ Displaced' = Displaced
<1>1. Position' = Position /\ Collected' = Collected /\ Displaced' = Displaced
  BY Numbers DEF Position, Collected, Displaced
<1>2. Memory' = Memory
  BY DEF Memory, Held
<1> QED BY <1>1, <1>2 DEF ContentInv, DownloadInv, BehindKept, DisplacedByCrossing

LEMMA ReplyKeeps ==
    ASSUME DownloadInv, NEW n \in 1 .. MaxChunk, WrongReply(n) \/ OnlyReply(n)
    PROVE  Kept
<1> USE DEF DownloadInv, response
<1>1. /\ ReplyPart(n) \in Nat /\ ReplyPart(n) =< n /\ ReplyPart(n) =< httpReplyLeft
      /\ received' = received + n /\ received' \in 0 .. total /\ n > 0
      /\ n = ReplyPart(n) \/ ReplyPart(n) = httpReplyLeft
  BY ReceiveType, LengthAssumption DEF WrongReply, OnlyReply
<1>2. CASE WrongReply(n)
  <2>1. /\ TypeOK' /\ pc = "recv" /\ pc' = "idle" /\ storage' = storage
        /\ UNCHANGED <<cache, bufferPos, writePosition, manifestLength, announced>>
    BY <1>1, <1>2 DEF WrongReply, Receive, TypeOK
  <2>2. Displaced' = Displaced
    BY <2>1 DEF Displaced, Position, Collected
  <2> QED BY <2>1, <2>2 DEF PlaceInv, StreamInv, ChunkInv, ContentInv, RequestedIsComplete, Busy,
                            Kept, BehindKept, DisplacedByCrossing
<1>3. CASE OnlyReply(n)
  <2>1. httpReplyLeft' = httpReplyLeft - n /\ received' = received + n /\ pc = "recv"
    BY <1>1, <1>3 DEF OnlyReply, MatchReply, Receive
  <2>2. UNCHANGED <<storage, cache, bufferPos, writePosition, manifestLength, chunk,
                    consumed, pc, announced, total, right, download>>
    BY <1>3 DEF OnlyReply
  <2>3. TypeOK'
    <3>1. n = ReplyPart(n)
      BY <1>3 DEF OnlyReply
    <3>2. httpReplyLeft' \in 0 .. ReplyLength
      BY <1>1, <2>1, <3>1, LengthAssumption DEF TypeOK
    <3> QED BY <1>1, <2>2, <3>2 DEF TypeOK
  <2>4. ContentInv' /\ BehindKept /\ DisplacedByCrossing /\ Displaced' = Displaced
    BY <2>1, <2>2, SameContent DEF Busy
  <2>5. PlaceInv' /\ ChunkInv' /\ RequestedIsComplete'
    BY <2>1, <2>2, <2>4 DEF PlaceInv, ChunkInv, RequestedIsComplete
  <2>6. StreamInv'
    <3>1. httpReplyLeft # 0 /\ httpReplyLeft \in Nat /\ n =< httpReplyLeft
      BY <1>1, <1>3 DEF OnlyReply, TypeOK
    <3>2. received = ReplyLength - httpReplyLeft /\ manifestLength = announced
      BY <2>1, <3>1 DEF StreamInv, Busy
    <3> QED BY <1>1, <2>1, <2>2, <3>1, <3>2, LengthAssumption DEF StreamInv, TypeOK
  <2> QED BY <2>3, <2>4, <2>5, <2>6 DEF Kept
<1> QED BY <1>2, <1>3

LEMMA DataKeeps ==
    ASSUME DownloadInv, NEW n \in 1 .. MaxChunk, Data(n)
    PROVE  Kept
<1> DEFINE dataLength == n - ReplyPart(n)
<1> USE DEF DownloadInv, response
<1>1. /\ ReplyPart(n) \in Nat /\ ReplyPart(n) =< n
      /\ received' = received + n /\ received' \in 0 .. total
      /\ ReplyPart(n) = httpReplyLeft /\ dataLength \in Nat \ {0}
  BY ReceiveType, LengthAssumption DEF Data
<1>2. /\ httpReplyLeft' = 0 /\ pc = "recv" /\ pc' \in {"copy", "commit"}
      /\ UNCHANGED <<storage, cache, bufferPos, writePosition, manifestLength, announced,
                     total, right, download>>
  BY <1>1 DEF Data, MatchReply, Receive, TypeOK
<1>3. /\ httpReplyLeft \in Nat /\ manifestLength \in Nat /\ announced \in Nat
      /\ manifestLength =< announced /\ ReplyLength \in Nat
  BY <1>2, LengthAssumption DEF TypeOK, PlaceInv, Busy
<1>4. received + httpReplyLeft = ReplyLength + announced - manifestLength
  BY <1>2, <1>3 DEF StreamInv, Busy, TypeOK
<1>5. ContentInv' /\ BehindKept /\ DisplacedByCrossing /\ Displaced' = Displaced
  <2>1. pc' = "copy" => consumed' = 0
    BY DEF Data
  <2> QED BY <1>2, <2>1, SameContent DEF Busy
<1>6. PlaceInv' /\ RequestedIsComplete'
  BY <1>2, <1>5 DEF PlaceInv, RequestedIsComplete, Busy
<1>7. CASE dataLength > manifestLength
  <2>1. pc' = "commit" /\ UNCHANGED <<chunk, consumed>>
    BY <1>7 DEF Data
  <2>2. TypeOK'
    BY <1>1, <1>2, <2>1, LengthAssumption DEF TypeOK, Busy
  <2>3. StreamInv' /\ ChunkInv'
    BY <1>2, <2>1 DEF StreamInv, ChunkInv
  <2> QED BY <1>5, <1>6, <2>2, <2>3 DEF Kept
<1>8. CASE ~(dataLength > manifestLength)
  <2>1. /\ pc' = "copy" /\ consumed' = 0
        /\ chunk' = [from |-> HeaderLength + received + ReplyPart(n) - ReplyLength,
                     length |-> dataLength]
    BY <1>8 DEF Data
  <2>2. /\ chunk'.from = HeaderLength + announced - manifestLength /\ chunk'.length = dataLength
        /\ HeaderLength + announced - manifestLength \in Nat
        /\ dataLength =< PageLength
    BY <1>1, <1>3, <1>4, <2>1, LengthAssumption DEF TypeOK
  <2>3. chunk' \in [from : Nat, length : Nat]
    BY <1>1, <2>1, <2>2
  <2>4. TypeOK'
    BY <1>1, <1>2, <1>3, <2>1, <2>3 DEF TypeOK, Busy
  <2>5. ChunkInv' /\ StreamInv'
    BY <1>1, <1>2, <1>3, <1>4, <1>8, <2>1, <2>2 DEF ChunkInv, StreamInv, TypeOK
  <2> QED BY <1>5, <1>6, <2>4, <2>5 DEF Kept
<1> QED BY <1>7, <1>8

-----------------------------------------------------------------------------
(* The loop that copies a chunk, and the end of the download. *)

\* What the invariant says of the chunk being copied.
LEMMA CopyNumbers ==
    ASSUME DownloadInv, pc = "copy"
    PROVE  /\ chunk.length \in Nat \ {0} /\ chunk.length =< manifestLength
           /\ chunk.length =< PageLength /\ consumed < chunk.length
           /\ Collected = chunk.from + consumed
           /\ chunk.from = HeaderLength + announced - manifestLength
           /\ consumed > 0 => bufferPos = 0
           /\ httpReplyLeft = 0
           /\ received = ReplyLength + announced - manifestLength + chunk.length
<1>1. /\ chunk.length \in Nat \ {0} /\ chunk.length =< manifestLength
      /\ chunk.length =< PageLength /\ consumed < chunk.length
      /\ chunk.from = HeaderLength + announced - manifestLength
      /\ consumed > 0 => bufferPos = 0
  BY Numbers DEF DownloadInv, ChunkInv, Busy
<1>2. httpReplyLeft = 0 /\ received = ReplyLength + announced - manifestLength + chunk.length
  BY DEF DownloadInv, StreamInv, Busy
<1> QED BY <1>1, <1>2 DEF Collected

\* memcpy of n bytes leaves what is in front of bufferPos, puts what is left of
\* the chunk behind it, and junk behind that.
LEMMA CopiedChunk ==
    ASSUME DownloadInv, pc = "copy", NEW n \in Nat, bufferPos + n =< PageLength, cache' = Copied(n)
    PROVE  /\ cache' \in [Page -> Cells]
           /\ \A i \in 0 .. bufferPos - 1 : cache'[i] = cache[i]
           /\ \A j \in 0 .. n - 1 :
                  cache'[bufferPos + j] = IF j < chunk.length - consumed
                                          THEN <<download, Collected + j>> ELSE Junk
<1>1. /\ bufferPos \in Nat /\ consumed \in Nat /\ chunk.length \in Nat /\ chunk.from \in Nat
      /\ Collected = chunk.from + consumed /\ PageLength \in Nat /\ download \in Nat
  BY Numbers, CopyNumbers DEF Busy
<1>2. cache' = [i \in Page |->
          IF i \notin bufferPos .. bufferPos + n - 1 THEN cache[i]
          ELSE LET at == consumed + i - bufferPos
               IN  IF at < chunk.length THEN Byte(chunk.from + at) ELSE Junk]
  BY DEF Copied, DownloadInv, TypeOK
<1>3. ASSUME NEW i \in Page
      PROVE  cache'[i] \in Cells
  <2>1. CASE i \notin bufferPos .. bufferPos + n - 1
    BY <1>2, <2>1 DEF DownloadInv, TypeOK
  <2>2. CASE i \in bufferPos .. bufferPos + n - 1
    <3> DEFINE at == consumed + i - bufferPos
    <3>1. at \in Nat /\ chunk.from + at \in Nat
      BY <1>1, <2>2
    <3> HIDE DEF at
    <3>2. Byte(chunk.from + at) \in Cells /\ Junk \in Cells
      BY <1>1, <3>1 DEF Byte, Cells, Junk
    <3>3. cache'[i] = IF at < chunk.length THEN Byte(chunk.from + at) ELSE Junk
      BY <1>2, <2>2 DEF at
    <3> QED BY <3>2, <3>3
  <2> QED BY <2>1, <2>2
<1>4. cache' \in [Page -> Cells]
  BY <1>2, <1>3
<1>5. ASSUME NEW i \in 0 .. bufferPos - 1 PROVE cache'[i] = cache[i]
  <2>1. i \in Page /\ i \notin bufferPos .. bufferPos + n - 1
    BY <1>1 DEF Page
  <2> QED BY <1>2, <2>1
<1>6. ASSUME NEW j \in 0 .. n - 1
      PROVE  cache'[bufferPos + j] = IF j < chunk.length - consumed
                                     THEN <<download, Collected + j>> ELSE Junk
  <2>1. /\ bufferPos + j \in Page /\ bufferPos + j \in bufferPos .. bufferPos + n - 1
        /\ consumed + (bufferPos + j) - bufferPos = consumed + j
        /\ consumed + j < chunk.length <=> j < chunk.length - consumed
        /\ chunk.from + (consumed + j) = Collected + j
    BY <1>1 DEF Page
  <2>2. cache'[bufferPos + j] = IF consumed + j < chunk.length
                                THEN Byte(chunk.from + (consumed + j)) ELSE Junk
    BY <1>2, <2>1
  <2> QED BY <2>1, <2>2 DEF Byte
<1> QED BY <1>4, <1>5, <1>6

LEMMA CopyRestKeeps == DownloadInv /\ CopyRest => Kept
<1> SUFFICES ASSUME DownloadInv, CopyRest PROVE Kept
  OBVIOUS
<1> DEFINE left == chunk.length - consumed
<1>1. /\ pc = "copy" /\ pc' = "recv" /\ bufferPos' = bufferPos + chunk.length
      /\ left < PageLength - bufferPos
      /\ manifestLength' = manifestLength - chunk.length /\ cache' = Copied(chunk.length)
      /\ UNCHANGED <<storage, writePosition, httpReplyLeft, chunk, consumed, received, announced,
                     total, right, download>>
  BY DEF CopyRest, SpaceLeftInInputBuffer, SpaceLeftInCache, response
<1>2. /\ bufferPos \in Nat /\ writePosition \in Nat /\ manifestLength \in Nat /\ consumed \in Nat
      /\ Collected \in Nat /\ Collected =< Position /\ Position = writePosition + bufferPos
      /\ Displaced = Position - Collected /\ Position \in Nat /\ left \in Nat \ {0}
      /\ chunk.length \in Nat \ {0} /\ chunk.length =< PageLength /\ PageLength \in Nat
      /\ chunk.length =< manifestLength /\ left =< chunk.length /\ download \in Nat \ {0}
      /\ announced \in Nat /\ HeaderLength \in Nat /\ manifestLength =< announced
      /\ Collected = HeaderLength + announced - manifestLength + consumed
      /\ consumed > 0 => bufferPos = 0
  BY <1>1, Numbers, CopyNumbers DEF Busy
<1>3. /\ Position' = Position + chunk.length /\ Collected' = Collected + left
      /\ Displaced' = Displaced + consumed
  BY <1>1, <1>2 DEF Position, Collected, Displaced
<1>4. bufferPos + chunk.length =< PageLength
  BY <1>1, <1>2
<1>5. /\ cache' \in [Page -> Cells]
      /\ \A i \in 0 .. bufferPos - 1 : cache'[i] = cache[i]
      /\ \A j \in 0 .. chunk.length - 1 :
             cache'[bufferPos + j] = IF j < left THEN <<download, Collected + j>> ELSE Junk
  BY <1>1, <1>2, <1>4, CopiedChunk
<1>6. TypeOK'
  BY <1>1, <1>2, <1>5 DEF DownloadInv, TypeOK, Busy
<1>7. PlaceInv'
  BY <1>1, <1>2, <1>3, <1>4 DEF DownloadInv, PlaceInv, Busy
<1>8. StreamInv' /\ ChunkInv' /\ RequestedIsComplete'
  <2>1. httpReplyLeft = 0 /\ received = ReplyLength + announced - manifestLength + chunk.length
    BY <1>1, CopyNumbers
  <2> QED BY <1>1, <1>2, <2>1, LengthAssumption DEF StreamInv, ChunkInv, RequestedIsComplete
<1>9. ContentInv'
  <2> SUFFICES ASSUME Position' =< StorageLength
               PROVE  Content(Memory', Position', Collected', download')
    BY DEF ContentInv
  <2>1. Position =< StorageLength
    BY <1>2, <1>3, LengthAssumption
  <2>2. \A p \in 0 .. Position - 1 : Memory[p] = Held(p) /\ Memory[p] \in Cells
    BY <1>1, <2>1, HeldCells DEF Busy
  <2>3. ASSUME NEW p \in 0 .. Position - 1 PROVE Memory'[p] = Memory[p]
    <3>1. p \in Nat /\ (~(p < writePosition) => p - writePosition \in 0 .. bufferPos - 1)
      BY <1>2
    <3> QED BY <1>1, <1>5, <3>1 DEF Memory, Held
  <2>4. ASSUME NEW j \in 0 .. chunk.length - 1
        PROVE  Memory'[Position + j] = IF j < left THEN <<download, Collected + j>> ELSE Junk
    <3>1. /\ Position + j \in Nat /\ ~(Position + j < writePosition)
          /\ (Position + j) - writePosition = bufferPos + j
      BY <1>2
    <3> QED BY <1>1, <1>5, <3>1 DEF Memory, Held
  <2>5. Content(Memory, Position, Collected, download)
    BY <1>1, <2>1 DEF DownloadInv, ContentInv, Busy
  <2>6. Position' \in Nat /\ Collected' \in Nat
    BY <1>2, <1>3
  <2> HIDE DEF left
  <2>7. /\ Position \in Nat /\ Collected \in Nat /\ Collected =< Position /\ download # 0
        /\ chunk.length \in Nat /\ left \in Nat /\ left =< chunk.length /\ download \in Nat
    BY <1>2
  <2>8. \A p \in 0 .. Position - 1 : Memory[p] \in Cells /\ Memory'[p] = Memory[p]
    BY <2>2, <2>3
  <2>9. Content(Memory', Position', Collected', download)
    BY ONLY <1>3, <2>4, <2>5, <2>6, <2>7, <2>8, Extends
  <2> QED BY <1>1, <2>9
<1>10. BehindKept /\ DisplacedByCrossing
  <2>1. consumed = 0 => Displaced' = Displaced
    BY <1>2, <1>3
  <2> QED BY <1>1, <1>2, <1>3, <2>1 DEF BehindKept, DisplacedByCrossing
<1> QED BY <1>6, <1>7, <1>8, <1>9, <1>10 DEF Kept, DownloadInv

\* A page written at writePosition is one of the necessary pages of what goes
\* past its beginning.
LEMMA PageWritten ==
    ASSUME TypeOK, NEW bytes \in [Page -> Cells], WritePage(bytes),
           NEW k \in 0 .. writePosition, writePosition = k * PageLength,
           HeaderLength + announced' + Displaced' \in Nat,
           writePosition < HeaderLength + announced' + Displaced'
    PROVE  /\ storage' \in [Places -> Cells]
           /\ \A i \in Places : storage'[i] =
                  IF i \in writePosition .. writePosition + PageLength - 1
                  THEN bytes[i - writePosition] ELSE storage[i]
           /\ BehindKept
<1>1. storage' = [i \in Places |-> IF i \in writePosition .. writePosition + PageLength - 1
                                   THEN bytes[i - writePosition] ELSE storage[i]]
  BY DEF WritePage, TypeOK
<1>2. writePosition \in Nat /\ PageLength \in Nat /\ k \in Nat
  BY LengthAssumption DEF TypeOK
<1>3. \A i \in Places : i \in writePosition .. writePosition + PageLength - 1
                            => i - writePosition \in Page
  BY <1>2 DEF Places, Page
<1> DEFINE length == HeaderLength + announced' + Displaced'
<1>4. length \in Nat /\ k * PageLength < length
  OBVIOUS
<1> HIDE DEF length
<1>5. /\ NecessaryPages(length) \in Nat
      /\ writePosition + PageLength =< NecessaryPages(length) * PageLength
  BY <1>2, <1>4, PageIsNecessary
<1>6. BehindKept
  <2>1. NecessaryPages(length) * PageLength \in Int
    BY <1>2, <1>5
  <2>2. \A i \in DOMAIN storage :
            i >= NecessaryPages(length) * PageLength => storage'[i] = storage[i]
    BY <1>1, <1>2, <1>5, <2>1 DEF TypeOK, Places
  <2> QED BY <2>2 DEF BehindKept, length
<1> QED BY <1>1, <1>3, <1>6 DEF TypeOK

LEMMA CopyPageKeeps == DownloadInv /\ CopyPage => Kept
<1> SUFFICES ASSUME DownloadInv, CopyPage PROVE Kept
  OBVIOUS
<1> DEFINE space == PageLength - bufferPos
           left  == chunk.length - consumed
<1>1. /\ pc = "copy" /\ left >= space
      /\ bufferPos' = 0 /\ writePosition' = writePosition + PageLength
      /\ cache' = Copied(space) /\ WritePage(cache')
      /\ UNCHANGED <<httpReplyLeft, chunk, received, announced, total, right, download>>
      /\ left = space => /\ manifestLength' = manifestLength - chunk.length /\ pc' = "recv"
                         /\ consumed' = consumed
      /\ left # space => /\ consumed' = consumed + space /\ manifestLength' = manifestLength
                         /\ pc' = pc
  BY DEF CopyPage, SpaceLeftInInputBuffer, SpaceLeftInCache, response
<1>2. /\ bufferPos \in Nat /\ writePosition \in Nat /\ manifestLength \in Nat /\ consumed \in Nat
      /\ Collected \in Nat /\ Collected =< Position /\ Position = writePosition + bufferPos
      /\ Displaced = Position - Collected /\ Position \in Nat /\ left \in Nat \ {0}
      /\ chunk.length \in Nat \ {0} /\ chunk.length =< PageLength /\ PageLength \in Nat \ {0}
      /\ chunk.length =< manifestLength /\ left =< chunk.length /\ download \in Nat \ {0}
      /\ announced \in Nat /\ HeaderLength \in Nat /\ manifestLength =< announced
      /\ Collected = HeaderLength + announced - manifestLength + consumed
      /\ bufferPos =< PageLength /\ space \in Nat
  BY <1>1, Numbers, CopyNumbers DEF Busy
<1>3. /\ Position' = Position + space /\ Collected' = Collected + space
      /\ Position' = writePosition' /\ Displaced' = Displaced
  <2>1. Position' = Position + space /\ Position' = writePosition'
    BY <1>1, <1>2 DEF Position
  <2>2. CASE left = space
    BY <1>1, <1>2, <2>1, <2>2 DEF Collected, Displaced
  <2>3. CASE left # space
    BY <1>1, <1>2, <2>1, <2>3 DEF Collected, Displaced
  <2> QED BY <2>2, <2>3
<1>4. /\ Collected' =< HeaderLength + announced
      /\ (pc' = "copy" => consumed' < chunk.length)
      /\ pc' \in {"recv", "copy"} /\ consumed' \in Nat /\ manifestLength' \in Nat
      /\ manifestLength' =< announced
  BY <1>1, <1>2, <1>3
<1>5. /\ cache' \in [Page -> Cells]
      /\ \A i \in 0 .. bufferPos - 1 : cache'[i] = cache[i]
      /\ \A j \in 0 .. space - 1 : cache'[bufferPos + j] = <<download, Collected + j>>
  <2>1. bufferPos + space =< PageLength
    BY <1>2
  <2>2. \A j \in 0 .. space - 1 : j < left
    BY <1>1, <1>2
  <2> QED BY <1>1, <1>2, <2>1, <2>2, CopiedChunk
<1>6. PICK k \in 0 .. writePosition : writePosition = k * PageLength
  BY <1>1 DEF DownloadInv, PlaceInv, Busy
<1>7. HeaderLength + announced' + Displaced' \in Nat
      /\ writePosition < HeaderLength + announced' + Displaced'
  <2>1. writePosition + PageLength =< HeaderLength + announced + Displaced
    BY <1>1, <1>2, <1>3, <1>4
  <2> QED BY <1>1, <1>2, <1>3, <2>1
<1>8. /\ storage' \in [Places -> Cells] /\ BehindKept
      /\ \A i \in Places : storage'[i] =
             IF i \in writePosition .. writePosition + PageLength - 1
             THEN cache'[i - writePosition] ELSE storage[i]
  BY <1>1, <1>5, <1>6, <1>7, PageWritten DEF DownloadInv
<1>9. TypeOK'
  BY <1>1, <1>2, <1>4, <1>5, <1>8 DEF DownloadInv, TypeOK, Busy
<1>10. PlaceInv'
  <2>1. (k + 1) * PageLength = k * PageLength + PageLength /\ k + 1 \in 0 .. writePosition'
    BY <1>1, <1>2
  <2>2. \E j \in 0 .. writePosition' : writePosition' = j * PageLength
    BY <1>1, <1>6, <2>1
  <2>3. Displaced' >= 0 /\ download' # 0 /\ bufferPos' =< PageLength /\ manifestLength' =< announced'
    BY <1>1, <1>2, <1>3, <1>4
  <2> QED BY <2>2, <2>3 DEF PlaceInv
<1>11. StreamInv' /\ ChunkInv' /\ RequestedIsComplete'
  <2>1. httpReplyLeft = 0 /\ received = ReplyLength + announced - manifestLength + chunk.length
        /\ chunk.from = HeaderLength + announced - manifestLength
    BY <1>1, CopyNumbers
  <2>2. CASE left = space
    BY <1>1, <1>2, <2>1, <2>2, LengthAssumption DEF StreamInv, ChunkInv, RequestedIsComplete
  <2>3. CASE left # space
    <3>1. /\ pc' = "copy" /\ manifestLength' = manifestLength /\ chunk' = chunk /\ bufferPos' = 0
          /\ received' = received /\ httpReplyLeft' = 0 /\ announced' = announced
      BY <1>1, <2>1, <2>3
    <3>2. ChunkInv'
      BY <1>2, <1>4, <2>1, <3>1 DEF ChunkInv
    <3> QED BY <2>1, <3>1, <3>2 DEF StreamInv, RequestedIsComplete
  <2> QED BY <2>2, <2>3
<1>12. ContentInv'
  <2> SUFFICES ASSUME Position' =< StorageLength
               PROVE  Content(Memory', Position', Collected', download')
    BY DEF ContentInv
  <2>1. Position =< StorageLength
    BY <1>2, <1>3, LengthAssumption
  <2>2. \A p \in 0 .. Position - 1 : Memory[p] = Held(p) /\ Memory[p] \in Cells
    BY <1>1, <2>1, HeldCells DEF Busy
  <2>3. ASSUME NEW p \in 0 .. Position' - 1
        PROVE  Memory'[p] = IF p < writePosition THEN storage[p] ELSE cache'[p - writePosition]
    <3>1. /\ p \in Nat /\ p \in Places /\ p < writePosition'
          /\ (p \in writePosition .. writePosition + PageLength - 1 <=> ~(p < writePosition))
      BY <1>1, <1>2, <1>3, LengthAssumption DEF Places
    <3>2. Memory'[p] = storage'[p]
      BY <3>1 DEF Memory, Held
    <3> QED BY <1>8, <3>1, <3>2
  <2>4. ASSUME NEW p \in 0 .. Position - 1 PROVE Memory'[p] = Memory[p]
    <3>1. /\ p \in 0 .. Position' - 1 /\ p \in Nat
          /\ (~(p < writePosition) => p - writePosition \in 0 .. bufferPos - 1)
      BY <1>2, <1>3
    <3> QED BY <1>5, <2>3, <3>1 DEF Memory, Held
  <2>5. ASSUME NEW j \in 0 .. space - 1
        PROVE  Memory'[Position + j] = IF j < space THEN <<download, Collected + j>> ELSE Junk
    <3>1. /\ Position + j \in 0 .. Position' - 1 /\ ~(Position + j < writePosition)
          /\ (Position + j) - writePosition = bufferPos + j /\ j < space
      BY <1>2, <1>3
    <3> QED BY <1>5, <2>3, <3>1
  <2>6. Content(Memory, Position, Collected, download)
    BY <1>1, <2>1 DEF DownloadInv, ContentInv, Busy
  <2>7. Position' \in Nat /\ Collected' \in Nat
    BY <1>2, <1>3
  <2> HIDE DEF space, left
  <2>8. /\ Position \in Nat /\ Collected \in Nat /\ Collected =< Position /\ download # 0
        /\ space \in Nat /\ space =< space /\ download \in Nat
    BY <1>2
  <2>9. \A p \in 0 .. Position - 1 : Memory[p] \in Cells /\ Memory'[p] = Memory[p]
    BY <2>2, <2>4
  <2>10. Content(Memory', Position', Collected', download)
    BY ONLY <1>3, <2>5, <2>6, <2>7, <2>8, <2>9, Extends
  <2> QED BY <1>1, <2>10
<1>13. DisplacedByCrossing
  BY <1>3 DEF DisplacedByCrossing
<1> QED BY <1>8, <1>9, <1>10, <1>11, <1>12, <1>13 DEF Kept, DownloadInv

LEMMA CommitKeeps == DownloadInv /\ Commit => Kept
<1> SUFFICES ASSUME DownloadInv, Commit PROVE Kept
  OBVIOUS
<1>1. /\ pc = "commit" /\ pc' = IF manifestLength = 0 THEN "requested" ELSE "idle"
      /\ UNCHANGED <<cache, bufferPos, writePosition, httpReplyLeft, manifestLength, chunk,
                     consumed, received, announced, total, right, download>>
  BY DEF Commit, response
<1>2. /\ bufferPos \in Nat /\ writePosition \in Nat /\ bufferPos =< PageLength
      /\ PageLength \in Nat \ {0} /\ announced \in Nat /\ HeaderLength \in Nat
      /\ Collected \in Nat /\ Collected =< Position /\ Position = writePosition + bufferPos
      /\ Displaced = Position - Collected /\ Displaced \in Nat /\ StorageLength \in Nat
      /\ Collected =< HeaderLength + announced
  BY <1>1, Numbers DEF Busy
<1>3. Position' = Position /\ Collected' = Collected /\ Displaced' = Displaced
  BY <1>1 DEF Position, Collected, Displaced
<1>4. /\ storage' \in [Places -> Cells] /\ BehindKept
      /\ Position =< StorageLength => \A p \in 0 .. Position - 1 : storage'[p] = Held(p)
  <2>1. CASE bufferPos = 0
    <3>1. storage' = storage
      BY <2>1 DEF Commit
    <3>2. \A p \in 0 .. Position - 1 : p < writePosition
      BY <1>2, <2>1
    <3> QED BY <3>1, <3>2 DEF DownloadInv, TypeOK, BehindKept, Held
  <2>2. CASE bufferPos # 0
    <3>1. PICK k \in 0 .. writePosition : writePosition = k * PageLength
      BY <1>1 DEF DownloadInv, PlaceInv, Busy
    <3>2. /\ HeaderLength + announced' + Displaced' \in Nat
          /\ writePosition < HeaderLength + announced' + Displaced'
      BY <1>1, <1>2, <1>3, <2>2
    <3>3. /\ storage' \in [Places -> Cells] /\ BehindKept
          /\ \A i \in Places : storage'[i] =
                 IF i \in writePosition .. writePosition + PageLength - 1
                 THEN cache[i - writePosition] ELSE storage[i]
      BY <1>1, <2>2, <3>1, <3>2, PageWritten DEF DownloadInv, TypeOK, Commit
    <3>4. ASSUME Position =< StorageLength, NEW p \in 0 .. Position - 1
          PROVE  storage'[p] = Held(p)
      <4>1. /\ p \in Places
            /\ (p \in writePosition .. writePosition + PageLength - 1 <=> ~(p < writePosition))
        BY <1>2, <3>4 DEF Places
      <4> QED BY <3>3, <4>1 DEF Held
    <3> QED BY <3>3, <3>4
  <2> QED BY <2>1, <2>2
<1>5. TypeOK'
  BY <1>1, <1>4 DEF DownloadInv, TypeOK, Busy
<1>6. RequestedIsComplete'
  <2> SUFFICES ASSUME pc' = "requested", Position' =< StorageLength,
                      NEW i \in 0 .. HeaderLength + announced' - 1
               PROVE  \E d \in 0 .. Displaced' : storage'[i + d] = Byte(i)'
    BY DEF RequestedIsComplete
  <2>1. Collected = HeaderLength + announced /\ i \in 0 .. Collected - 1 /\ Byte(i)' = Byte(i)
    BY <1>1, <1>2 DEF Collected, Byte
  <2>2. Content(Memory, Position, Collected, download)
    BY <1>1, <1>3 DEF DownloadInv, ContentInv, Busy
  <2>3. PICK d \in 0 .. Position - Collected : Memory[i + d] = <<download, i>>
    BY <2>1, <2>2 DEF Content
  <2>4. i + d \in 0 .. Position - 1 /\ i + d \in Nat /\ d \in 0 .. Displaced'
    BY <1>2, <1>3, <2>1
  <2>5. storage'[i + d] = Byte(i)
    BY <1>3, <1>4, <2>3, <2>4 DEF Memory, Byte
  <2> QED BY <2>1, <2>4, <2>5
<1>7. PlaceInv' /\ StreamInv' /\ ChunkInv' /\ ContentInv'
  BY <1>1 DEF PlaceInv, StreamInv, ChunkInv, ContentInv, Busy
<1> QED BY <1>3, <1>4, <1>5, <1>6, <1>7 DEF Kept, DownloadInv, DisplacedByCrossing

LEMMA DownloadStep == DownloadInv /\ [Next]_vars => Kept
<1> SUFFICES ASSUME DownloadInv, [Next]_vars PROVE Kept
  OBVIOUS
<1>1. CASE \E length \in 0 .. MaxManifest, matching \in 0 .. ReplyLength :
               \E bytes \in 0 .. ReplyLength + length + 1 :
                   SendPayloadRequest(length, bytes, matching)
  BY <1>1, SendKeeps
<1>2. CASE \E n \in 1 .. MaxChunk : WrongReply(n) \/ OnlyReply(n) \/ Data(n)
  BY <1>2, ReplyKeeps, DataKeeps
<1>3. CASE Finished
  <2>1. /\ pc = "recv" /\ pc' = "commit"
        /\ UNCHANGED <<storage, cache, bufferPos, writePosition, httpReplyLeft, manifestLength,
                       chunk, consumed, received, announced, total, right, download>>
    BY <1>3 DEF Finished, response
  <2>2. TypeOK'
    BY <2>1 DEF DownloadInv, TypeOK, Busy
  <2>3. ContentInv' /\ BehindKept /\ DisplacedByCrossing /\ Displaced' = Displaced
    BY <2>1, SameContent DEF Busy
  <2>4. PlaceInv' /\ StreamInv' /\ ChunkInv' /\ RequestedIsComplete'
    BY <2>1, <2>3 DEF DownloadInv, PlaceInv, StreamInv, ChunkInv, RequestedIsComplete, Busy
  <2> QED BY <2>2, <2>3, <2>4 DEF Kept, DownloadInv
<1>4. CASE CopyRest \/ CopyPage \/ Commit
  BY <1>4, CopyRestKeeps, CopyPageKeeps, CommitKeeps
<1>5. CASE UNCHANGED vars
  <2>1. UNCHANGED <<storage, cache, bufferPos, writePosition, httpReplyLeft, manifestLength, chunk,
                    consumed, pc, received, announced, total, right, download>>
    BY <1>5 DEF vars, response
  <2>2. TypeOK' /\ StreamInv' /\ ChunkInv'
    BY <2>1 DEF DownloadInv, TypeOK, StreamInv, ChunkInv
  <2>3. /\ Position' = Position /\ Collected' = Collected /\ Displaced' = Displaced
        /\ Memory' = Memory
    BY <2>1 DEF Position, Collected, Displaced, Memory, Held
  <2>4. PlaceInv' /\ ContentInv' /\ RequestedIsComplete'
    BY <2>1, <2>3 DEF DownloadInv, PlaceInv, ContentInv, RequestedIsComplete, Byte
  <2> QED BY <2>1, <2>2, <2>3, <2>4 DEF Kept, DownloadInv, BehindKept, DisplacedByCrossing
<1> QED BY <1>1, <1>2, <1>3, <1>4, <1>5 DEF Next, Terminated

LEMMA DownloadInvAlways == Spec => []DownloadInv
<1>1. DownloadInv /\ [Next]_vars => DownloadInv'
  BY DownloadStep DEF Kept
<1> QED BY <1>1, DownloadInvInit, PTL DEF Spec

\* Between two chunks every byte received is stored, in flash or in the cache, in
\* order and no further behind its place than what was displaced.
THEOREM EveryByteIsKept == Spec => []NothingLost
<1>1. DownloadInv => NothingLost
  <2> SUFFICES ASSUME DownloadInv, pc \in {"recv", "commit"}, Position =< StorageLength
               PROVE  /\ \A i \in 0 .. Collected - 1 :
                             \E d \in 0 .. Displaced : Held(i + d) = Byte(i)
                      /\ \A p, q \in 0 .. Position - 1 :
                             p < q /\ IsOurs(Held(p)) /\ IsOurs(Held(q)) => Held(p)[2] < Held(q)[2]
    BY DEF NothingLost
  <2>1. Content(Memory, Position, Collected, download)
    BY DEF DownloadInv, ContentInv, Busy
  <2>2. /\ Collected \in Nat /\ Position \in Nat /\ Displaced = Position - Collected
        /\ \A p \in Nat : Memory[p] = Held(p)
    BY Numbers DEF Busy, Memory
  <2>3. ASSUME NEW i \in 0 .. Collected - 1 PROVE \E d \in 0 .. Displaced : Held(i + d) = Byte(i)
    <3>1. PICK d \in 0 .. Position - Collected : Memory[i + d] = <<download, i>>
      BY <2>1 DEF Content
    <3>2. i + d \in Nat /\ d \in 0 .. Displaced
      BY <2>2
    <3> QED BY <2>2, <3>1, <3>2 DEF Byte
  <2>4. ASSUME NEW p \in 0 .. Position - 1, NEW q \in 0 .. Position - 1,
               p < q, IsOurs(Held(p)), IsOurs(Held(q))
        PROVE  Held(p)[2] < Held(q)[2]
    <3>1. p \in 0 .. q - 1 /\ p \in Nat /\ q \in Nat
      BY <2>2, <2>4
    <3>2. Memory[p][1] = download /\ Memory[q][1] = download
      BY <2>2, <2>4, <3>1 DEF IsOurs
    <3>3. Memory[p][2] < Memory[q][2]
      BY <2>1, <3>1, <3>2 DEF Content
    <3> QED BY <2>2, <3>1, <3>3
  <2> QED BY <2>3, <2>4
<1> QED BY <1>1, DownloadInvAlways, PTL

\* The update that is requested is complete: header and payload, each byte no
\* further behind its place than what was displaced.
THEOREM CompleteWhenRequested == Spec => []RequestedIsComplete
<1>1. DownloadInv => RequestedIsComplete
  BY DEF DownloadInv
<1> QED BY <1>1, DownloadInvAlways, PTL

\* Nothing displaces a byte but the end of a chunk that began in the page before.
THEOREM CrossingDisplaces == Spec => OnlyCrossingDisplaces
<1>1. DownloadInv /\ [Next]_vars
        => [pc # "idle" /\ Displaced' # Displaced =>
               pc = "copy" /\ consumed > 0 /\ Displaced' = Displaced + consumed]_vars
  BY DownloadStep DEF Kept, DisplacedByCrossing
<1> QED BY <1>1, DownloadInvAlways, PTL DEF Spec, OnlyCrossingDisplaces

\* No page is written but those that eraseNecessarySpace makes room in and those
\* that what was displaced takes, however much the server sends.
THEOREM OnlyNecessaryPagesWritten == Spec => OnlyNecessaryPages
<1>1. DownloadInv /\ [Next]_vars
        => [\A i \in DOMAIN storage :
               i >= NecessaryPages(HeaderLength + announced' + Displaced') * PageLength
                   => storage'[i] = storage[i]]_vars
  BY DownloadStep DEF Kept, BehindKept
<1> QED BY <1>1, DownloadInvAlways, PTL DEF Spec, OnlyNecessaryPages
=============================================================================
