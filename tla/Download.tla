------------------------------- MODULE Download -------------------------------
(***************************************************************************)
(* The download of a payload: the second half of checkUpdate in             *)
(* munin/Userland/userland.c.  Chunks of any length arrive; the HTTP reply  *)
(* in front of the payload is matched and dropped, and what follows is      *)
(* collected behind the header in cacheRAM, a page at a time, to be written *)
(* to updateStorage.  When as many bytes came as the manifest announces,    *)
(* the update is requested.                                                 *)
(*                                                                          *)
(* The header, the reply and a page are a few bytes long.  A byte is named  *)
(* by the download it belongs to and its place in it.  The server may send  *)
(* a wrong reply, or less or more than was announced.  A write of a page is *)
(* one action: a reboot starts the download over, and CriticalMetadata      *)
(* covers the one that happens while the update is requested.               *)
(***************************************************************************)
EXTENDS Integers

CONSTANTS HeaderLength,    \* sizeof(UpdateHeader)
          PageLength,      \* BLOCK_SIZE
          ReplyLength,     \* sizeof(EXPECTED_REPLY_UPDATE) - 1
          MaxChunk,        \* BUFFER_LENGTH of the network box
          StorageLength,   \* length of updateStorage
          MaxManifest,     \* bound: bytes a manifest announces
          MaxDownloads     \* bound: calls of checkUpdate

ASSUME LengthAssumption ==
    /\ HeaderLength \in Nat /\ PageLength \in Nat /\ HeaderLength < PageLength
    /\ ReplyLength \in Nat \ {0} /\ MaxChunk \in 1 .. PageLength
    /\ StorageLength \in Nat /\ MaxManifest \in Nat /\ MaxDownloads \in Nat
    /\ HeaderLength + MaxManifest =< StorageLength

VARIABLES storage,        \* updateStorage
          cache,          \* cacheRAM
          bufferPos, writePosition, httpReplyLeft, manifestLength,
          chunk,          \* buffer and dataLength: the payload bytes of a chunk
          consumed,       \* currentInputBufferPos
          pc,
          announced,      \* manifestLength of the header
          total, right,   \* bytes of the response, and of its reply that are right
          received,       \* bytes of the response received
          download        \* which download this is

response == <<announced, total, right, download>>
vars == <<storage, cache, bufferPos, writePosition, httpReplyLeft, manifestLength, chunk,
          consumed, pc, received, response>>

Byte(i) == <<download, i>>
Erased  == <<0, 0>>
Junk    == <<0, 1>>      \* what memory holds behind the data

Smaller(a, b) == IF a < b THEN a ELSE b

-----------------------------------------------------------------------------
Init ==
    /\ storage = [i \in 0 .. StorageLength - 1 |-> Erased]
    /\ cache = [i \in 0 .. PageLength - 1 |-> Junk]
    /\ bufferPos = 0 /\ writePosition = 0 /\ httpReplyLeft = 0 /\ manifestLength = 0
    /\ chunk = [from |-> 0, length |-> 0] /\ consumed = 0 /\ pc = "idle"
    /\ announced = 0 /\ total = 0 /\ right = 0 /\ received = 0 /\ download = 0

\* eraseNecessarySpace: the loop erases one page per BLOCK_SIZE that does not
\* fit in the last one.
NecessaryPages(length) == IF length = 0 THEN 1 ELSE (length - 1) \div PageLength + 1
EraseNecessarySpace(length) ==
    [i \in DOMAIN storage |->
        IF i < NecessaryPages(length) * PageLength THEN Erased ELSE storage[i]]

\* The header was received and validated in cacheRAM; the payload is asked for.
SendPayloadRequest(length, bytes, matching) ==
    /\ pc = "idle" /\ download < MaxDownloads
    /\ download' = download + 1
    /\ announced' = length /\ total' = bytes /\ right' = matching /\ received' = 0
    /\ storage' = EraseNecessarySpace(HeaderLength + length)
    /\ cache' = [i \in DOMAIN cache |-> IF i < HeaderLength THEN Byte(i)' ELSE Junk]
    /\ writePosition' = 0 /\ httpReplyLeft' = ReplyLength
    /\ bufferPos' = HeaderLength /\ manifestLength' = length
    /\ pc' = "recv"
    /\ UNCHANGED <<chunk, consumed>>

\* A chunk of n bytes, of which the reply takes the first.
ReplyPart(n) == Smaller(n, httpReplyLeft)
Receive(n) ==
    /\ pc = "recv" /\ n \in 1 .. Smaller(MaxChunk, total - received)
    /\ received' = received + n

WrongReply(n) ==
    /\ Receive(n)
    /\ httpReplyLeft # 0 /\ received + ReplyPart(n) > right
    /\ pc' = "idle"
    /\ UNCHANGED <<storage, cache, bufferPos, writePosition, httpReplyLeft, manifestLength, chunk,
                   consumed, response>>

MatchReply(n) ==
    /\ httpReplyLeft # 0 => received + ReplyPart(n) =< right
    /\ httpReplyLeft' = httpReplyLeft - ReplyPart(n)

OnlyReply(n) ==
    /\ Receive(n) /\ n = ReplyPart(n)
    /\ MatchReply(n)
    /\ UNCHANGED <<storage, cache, bufferPos, writePosition, manifestLength, chunk, consumed, pc,
                   response>>

\* Mutant of Data: copies what comes beyond the announced length.
DataUnbounded(n) ==
    LET dataLength == n - ReplyPart(n)
    IN  /\ Receive(n) /\ dataLength > 0
        /\ MatchReply(n)
        /\ chunk' = [from |-> HeaderLength + received + ReplyPart(n) - ReplyLength,
                     length |-> dataLength]
        /\ consumed' = 0
        /\ pc' = "copy"
        /\ UNCHANGED <<storage, cache, bufferPos, writePosition, manifestLength, response>>

\* Mutant of Data: the reply is counted, but buffer does not move past it.
DataWithReply(n) ==
    LET dataLength == n - ReplyPart(n)
    IN  /\ Receive(n) /\ dataLength > 0
        /\ MatchReply(n)
        /\ IF dataLength > manifestLength
           THEN pc' = "commit" /\ UNCHANGED <<chunk, consumed>>
           ELSE /\ chunk' = [from |-> HeaderLength + received - ReplyLength, length |-> dataLength]
                /\ consumed' = 0
                /\ pc' = "copy"
        /\ UNCHANGED <<storage, cache, bufferPos, writePosition, manifestLength, response>>

\* More data than announced ends the loop, before any of it is copied.
Data(n) ==
    LET dataLength == n - ReplyPart(n)
    IN  /\ Receive(n) /\ dataLength > 0
        /\ MatchReply(n)
        /\ IF dataLength > manifestLength
           THEN pc' = "commit" /\ UNCHANGED <<chunk, consumed>>
           ELSE /\ chunk' = [from |-> HeaderLength + received + ReplyPart(n) - ReplyLength,
                             length |-> dataLength]
                /\ consumed' = 0
                /\ pc' = "copy"
        /\ UNCHANGED <<storage, cache, bufferPos, writePosition, manifestLength, response>>

Finished ==
    /\ pc = "recv" /\ received = total
    /\ pc' = "commit"
    /\ UNCHANGED <<storage, cache, bufferPos, writePosition, httpReplyLeft, manifestLength, chunk,
                   consumed, received, response>>

-----------------------------------------------------------------------------
(* The loop that copies a chunk. *)

SpaceLeftInInputBuffer == chunk.length - consumed
SpaceLeftInCache       == PageLength - bufferPos

\* memcpy of length bytes, from what is left of the chunk.
Copied(length) ==
    [i \in DOMAIN cache |->
        IF i \notin bufferPos .. bufferPos + length - 1 THEN cache[i]
        ELSE LET at == consumed + i - bufferPos
             IN  IF at < chunk.length THEN Byte(chunk.from + at) ELSE Junk]

\* erasePage and writeToNAND of cacheRAM, at writePosition.
WritePage(bytes) ==
    storage' = [i \in DOMAIN storage |->
        IF i \in writePosition .. writePosition + PageLength - 1 THEN bytes[i - writePosition]
        ELSE storage[i]]

\* What is left of the chunk fits in the page, though it is the whole chunk
\* that is copied.
CopyRest ==
    /\ pc = "copy" /\ SpaceLeftInInputBuffer < SpaceLeftInCache
    /\ cache' = Copied(chunk.length)
    /\ bufferPos' = bufferPos + chunk.length
    /\ manifestLength' = manifestLength - chunk.length
    /\ pc' = "recv"
    /\ UNCHANGED <<storage, writePosition, httpReplyLeft, chunk, consumed, received, response>>

\* Mutant of CopyPage: goes on in the cache where it was.
CopyPageNoReset ==
    /\ pc = "copy" /\ SpaceLeftInInputBuffer >= SpaceLeftInCache
    /\ cache' = Copied(SpaceLeftInCache)
    /\ WritePage(cache')
    /\ writePosition' = writePosition + PageLength
    /\ manifestLength' = manifestLength - chunk.length
    /\ pc' = "recv"
    /\ UNCHANGED <<bufferPos, httpReplyLeft, chunk, consumed, received, response>>

CopyPage ==
    /\ pc = "copy" /\ SpaceLeftInInputBuffer >= SpaceLeftInCache
    /\ cache' = Copied(SpaceLeftInCache)
    /\ WritePage(cache')
    /\ writePosition' = writePosition + PageLength
    /\ bufferPos' = 0
    /\ IF SpaceLeftInInputBuffer = SpaceLeftInCache
       THEN /\ manifestLength' = manifestLength - chunk.length
            /\ pc' = "recv" /\ UNCHANGED consumed
       ELSE consumed' = consumed + SpaceLeftInCache /\ UNCHANGED <<manifestLength, pc>>
    /\ UNCHANGED <<httpReplyLeft, chunk, received, response>>

\* Mutant of Commit: forgets the last, incomplete page.
CommitWholePages ==
    /\ pc = "commit"
    /\ pc' = (IF manifestLength = 0 THEN "requested" ELSE "idle")
    /\ UNCHANGED <<storage, cache, bufferPos, writePosition, httpReplyLeft, manifestLength, chunk,
                   consumed, received, response>>

\* What the cache still holds is written, and the update requested if all of
\* the payload came.
Commit ==
    /\ pc = "commit"
    /\ IF bufferPos # 0 THEN WritePage(cache) ELSE UNCHANGED storage
    /\ pc' = (IF manifestLength = 0 THEN "requested" ELSE "idle")
    /\ UNCHANGED <<cache, bufferPos, writePosition, httpReplyLeft, manifestLength, chunk, consumed,
                   received, response>>

-----------------------------------------------------------------------------
Terminated ==
    (pc = "requested" \/ (pc = "idle" /\ download = MaxDownloads)) /\ UNCHANGED vars

Next ==
    \/ \E length \in 0 .. MaxManifest, matching \in 0 .. ReplyLength :
           \E bytes \in 0 .. ReplyLength + length + 1 :
               SendPayloadRequest(length, bytes, matching)
    \/ \E n \in 1 .. MaxChunk : WrongReply(n) \/ OnlyReply(n) \/ Data(n)
    \/ Finished \/ CopyRest \/ CopyPage \/ Commit \/ Terminated

Spec == Init /\ [][Next]_vars

-----------------------------------------------------------------------------
(* Properties.  A chunk that goes past the end of a page is copied at its      *)
(* whole length behind it: what follows is stored too far by what the first    *)
(* page took of the chunk.                                                     *)

\* Bytes stored in front of the next one, bytes received, and their difference.
Position  == writePosition + bufferPos
Collected == HeaderLength + announced - manifestLength + (IF pc = "copy" THEN consumed ELSE 0)
Displaced == Position - Collected

\* What is stored at a place: in flash up to writePosition, in the cache from there on.
Held(p) == IF p < writePosition THEN storage[p] ELSE cache[p - writePosition]
IsOurs(cell) == cell[1] = download

\* Between two chunks every byte of the update received so far is stored, in
\* order, and none of them further behind its place than what was displaced.
NothingLost ==
    pc \in {"recv", "commit"} /\ Position =< StorageLength =>
        /\ \A i \in 0 .. Collected - 1 : \E d \in 0 .. Displaced : Held(i + d) = Byte(i)
        /\ \A p, q \in 0 .. Position - 1 :
               p < q /\ IsOurs(Held(p)) /\ IsOurs(Held(q)) => Held(p)[2] < Held(q)[2]

\* An update is requested only when its storage holds the header and the whole
\* payload of this download, up to what was displaced.
RequestedIsComplete ==
    pc = "requested" /\ Position =< StorageLength =>
        \A i \in 0 .. HeaderLength + announced - 1 :
            \E d \in 0 .. Displaced : storage[i + d] = Byte(i)

\* Bytes are displaced by the end of a chunk that began in the page before, and
\* by nothing else.
OnlyCrossingDisplaces ==
    [][pc # "idle" /\ Displaced' # Displaced =>
           pc = "copy" /\ consumed > 0 /\ Displaced' = Displaced + consumed]_vars

\* No page is written but those eraseNecessarySpace makes room in and those that
\* what was displaced takes, also when the server sends more than the manifest
\* announced.
OnlyNecessaryPages ==
    [][\A i \in DOMAIN storage :
           i >= NecessaryPages(HeaderLength + announced' + Displaced') * PageLength
               => storage'[i] = storage[i]]_vars

\* "We downloaded the full payload" (userland.c:275): the update requested is there,
\* every byte in its place.  A chunk that goes past the end of a page refutes it.
FullPayload ==
    pc = "requested" => \A i \in 0 .. HeaderLength + announced - 1 : storage[i] = Byte(i)
=============================================================================
