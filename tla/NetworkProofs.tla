----------------------------- MODULE NetworkProofs -----------------------------
(***************************************************************************)
(* Proofs about Network, for any number of chunks, requests and errors of  *)
(* recv: the application reads what the server sent, it is told the end    *)
(* only after the last chunk, and the two buffers are a queue of chunks.   *)
(***************************************************************************)
EXTENDS Network, TLAPS

Receiving == {"recv", "filling", "mark"}

TypeOK ==
    /\ ready \in [Buffers -> BOOLEAN] /\ inUse \in [Buffers -> BOOLEAN]
    /\ nextWrite \in Buffers /\ nextRead \in Buffers /\ picked \in Buffers
    /\ buffer \in [Buffers -> Int] /\ length \in [Buffers -> Int]
    /\ over \in BOOLEAN /\ open \in BOOLEAN
    /\ total \in Nat /\ sent \in Nat /\ taken \in Nat
    /\ dpc \in {"none", "loop"} \cup Receiving
    /\ apc \in {"idle", "poll", "get", "read", "close", "release", "giveup"}

\* Chunks handed to the queue, and chunks the application has taken from it.
Handed == IF dpc = "mark" THEN sent - 1 ELSE sent
Drawn  == IF apc = "read" THEN taken + 1 ELSE taken

\* The ready buffers follow nextRead, up to nextWrite, with the last chunks received.
FlagsInv ==
    /\ ready[Other(nextRead)] => ready[nextRead]
    /\ nextWrite = nextRead <=> (ready[nextRead] <=> ready[Other(nextRead)])
    /\ ready[nextRead] =>
           buffer[nextRead] = IF ready[Other(nextRead)] THEN Handed - 1 ELSE Handed
    /\ ready[Other(nextRead)] => buffer[Other(nextRead)] = Handed
    /\ \A b \in Buffers : ready[b] => length[b] = buffer[b]

\* The download thread writes to the buffer that comes next, which is neither ready
\* nor being read.
ThreadInv ==
    /\ dpc \in Receiving => picked = nextWrite /\ ~ready[picked] /\ ~inUse[picked]
    /\ dpc = "mark" => buffer[picked] = sent /\ sent > 0
    /\ dpc = "filling" => sent < total
    /\ sent =< total
    /\ over => sent = total /\ dpc \in {"none", "loop"}

\* The application reads the buffer before nextRead, which is marked as in use.
ReaderInv ==
    /\ apc = "read" => /\ held = Other(nextRead) /\ inUse[held] /\ ~ready[held]
                       /\ buffer[held] = taken + 1 /\ heldLength = taken + 1
    /\ apc = "get" => ready[nextRead]

\* Every chunk is waiting, or was drawn, until the application gives the session up.
CountInv ==
    /\ apc \in {"poll", "get", "read"} =>
           Handed = IF ~ready[nextRead] THEN Drawn
                    ELSE IF ready[Other(nextRead)] THEN Drawn + 2 ELSE Drawn + 1
    /\ EverythingRead

NetworkInv == TypeOK /\ FlagsInv /\ ThreadInv /\ ReaderInv /\ CountInv

-----------------------------------------------------------------------------
LEMMA TwoBuffers ==
    ASSUME NEW b \in Buffers
    PROVE  /\ Other(b) \in Buffers /\ Other(b) # b /\ Other(Other(b)) = b
           /\ \A c \in Buffers : c = b \/ c = Other(b)
BY DEF Buffers, Other

LEMMA NetworkInvInit == Init => NetworkInv
<1> SUFFICES ASSUME Init PROVE NetworkInv
  OBVIOUS
<1>1. TypeOK
  <2>1. 0 \in Buffers
    BY DEF Buffers
  <2>2. \A v : [b \in Buffers |-> v] \in [Buffers -> {v}]
    OBVIOUS
  <2>3. ready \in [Buffers -> BOOLEAN] /\ inUse \in [Buffers -> BOOLEAN]
    BY <2>2 DEF Init
  <2>4. buffer \in [Buffers -> Int] /\ length \in [Buffers -> Int]
    BY <2>2 DEF Init
  <2>5. nextWrite \in Buffers /\ nextRead \in Buffers /\ picked \in Buffers
    BY <2>1 DEF Init
  <2>6. total \in Nat /\ sent \in Nat /\ taken \in Nat
    BY DEF Init
  <2> QED BY <2>3, <2>4, <2>5, <2>6 DEF Init, TypeOK
<1>2. FlagsInv /\ ThreadInv /\ ReaderInv /\ CountInv
  BY DEF Init, FlagsInv, ThreadInv, ReaderInv, CountInv, Receiving, Buffers, Other, Handed,
         EverythingRead
<1> QED BY <1>1, <1>2 DEF NetworkInv

LEMMA NetworkTypeStep == TypeOK /\ FlagsInv /\ [Next]_vars => TypeOK'
<1> SUFFICES ASSUME TypeOK, FlagsInv, [Next]_vars PROVE TypeOK'
  OBVIOUS
<1> USE DEF TypeOK, Receiving, vars, meta, data, server, app, thread
<1>1. CASE Download
  <2>1. \A b \in Buffers : Other(b) \in Buffers
    BY TwoBuffers
  <2>2. CASE Pick
    BY <2>2 DEF Pick, PickBufferWrite, NoBuffer
  <2>3. CASE Receive \/ Filled
    BY <2>3 DEF Receive, Filled, Torn
  <2>4. CASE ReceiveEnd \/ ReceiveError \/ DownloadEnds
    BY <2>4 DEF ReceiveEnd, ReceiveError, DownloadEnds
  <2>5. CASE Mark
    BY <2>1, <2>5 DEF Mark
  <2> QED BY <1>1, <2>2, <2>3, <2>4, <2>5 DEF Download
<1>2. CASE Application
  <2>1. CASE HasData \/ RequestFinished \/ ReadChunk \/ CloseSession
    BY <2>1 DEF HasData, RequestFinished, ReadChunk, CloseSession
  <2>2. CASE GetData
    <3>1. ReadTurn \in Buffers /\ \A b \in Buffers : Other(b) \in Buffers
      BY TwoBuffers DEF ReadTurn, Buffers
    <3>2. ready' \in [Buffers -> BOOLEAN] /\ inUse' \in [Buffers -> BOOLEAN]
      BY <2>2, <3>1 DEF GetData
    <3>3. nextRead' \in Buffers /\ apc' \in {"read", "poll", "giveup"}
      BY <2>2, <3>1 DEF GetData
    <3> QED BY <2>2, <3>2, <3>3 DEF GetData
  <2>3. CASE ReleaseData
    BY <2>3 DEF ReleaseData, Buffers
  <2> QED BY <1>2, <2>1, <2>2, <2>3 DEF Application
<1>3. CASE \E n \in 0 .. MaxChunks : NewRequest(n)
  <2>1. PICK n \in 0 .. MaxChunks : NewRequest(n)
    BY <1>3
  <2>2. ready' \in [Buffers -> BOOLEAN] /\ inUse' \in [Buffers -> BOOLEAN]
    BY <2>1 DEF NewRequest
  <2>3. total' \in Nat /\ nextWrite' \in Buffers /\ nextRead' \in Buffers
    BY <2>1, BoundAssumption DEF NewRequest, Buffers
  <2> QED BY <2>1, <2>2, <2>3 DEF NewRequest
<1>4. CASE UNCHANGED vars
  BY <1>4
<1> QED BY <1>1, <1>2, <1>3, <1>4 DEF Next, Terminated

-----------------------------------------------------------------------------
(* The parts of the invariant, one action at a time. *)

LEMMA DownloadKeepsInv == NetworkInv /\ Download => (FlagsInv /\ ThreadInv /\ ReaderInv /\ CountInv)'
<1> SUFFICES ASSUME NetworkInv, Download
             PROVE  (FlagsInv /\ ThreadInv /\ ReaderInv /\ CountInv)'
  OBVIOUS
<1> USE DEF NetworkInv, TypeOK, FlagsInv, ThreadInv, ReaderInv, CountInv, EverythingRead, Handed, Drawn,
            Receiving, Buffers, Other, meta, data, server, app, thread
<1>1. CASE Pick
  BY <1>1 DEF Pick, PickBufferWrite, NoBuffer
<1>2. CASE Receive
  BY <1>2 DEF Receive
<1>3. CASE Filled
  BY <1>3 DEF Filled
<1>4. CASE ReceiveEnd \/ ReceiveError \/ DownloadEnds
  BY <1>4 DEF ReceiveEnd, ReceiveError, DownloadEnds
<1>5. CASE Mark
  BY <1>5 DEF Mark
<1> QED BY <1>1, <1>2, <1>3, <1>4, <1>5 DEF Download

LEMMA ApplicationKeepsInv ==
    NetworkInv /\ Application => (FlagsInv /\ ThreadInv /\ ReaderInv /\ CountInv)'
<1> SUFFICES ASSUME NetworkInv, Application
             PROVE  (FlagsInv /\ ThreadInv /\ ReaderInv /\ CountInv)'
  OBVIOUS
<1> USE DEF NetworkInv, TypeOK, FlagsInv, ThreadInv, ReaderInv, CountInv, EverythingRead, Handed, Drawn,
            Receiving, Buffers, Other, meta, data, server, app, thread
<1>1. CASE HasData
  BY <1>1 DEF HasData, HaveBufferReady
<1>2. CASE RequestFinished
  BY <1>2 DEF RequestFinished, HaveBufferReady
<1>3. CASE GetData
  BY <1>3 DEF GetData, ReadTurn, PickBufferRead, NoBuffer
<1>4. CASE ReadChunk
  BY <1>4 DEF ReadChunk
<1>5. CASE CloseSession \/ ReleaseData
  BY <1>5 DEF CloseSession, ReleaseData
<1> QED BY <1>1, <1>2, <1>3, <1>4, <1>5 DEF Application

LEMMA NetworkInvStep == NetworkInv /\ [Next]_vars => NetworkInv'
<1> SUFFICES ASSUME NetworkInv, [Next]_vars PROVE NetworkInv'
  OBVIOUS
<1>1. TypeOK'
  BY NetworkTypeStep DEF NetworkInv
<1>2. (FlagsInv /\ ThreadInv /\ ReaderInv /\ CountInv)'
  <2>1. CASE Download \/ Application
    BY <2>1, DownloadKeepsInv, ApplicationKeepsInv
  <2>2. CASE \E n \in 0 .. MaxChunks : NewRequest(n)
    <3> PICK n \in 0 .. MaxChunks : NewRequest(n)
      BY <2>2
    <3> QED BY BoundAssumption DEF NewRequest, FlagsInv, ThreadInv, ReaderInv, CountInv,
               EverythingRead, Handed, Drawn, Receiving, Buffers, Other
  <2>3. CASE UNCHANGED vars
    BY <2>3 DEF NetworkInv, FlagsInv, ThreadInv, ReaderInv, CountInv, EverythingRead, Handed, Drawn,
                vars, meta, data, server, app, thread
  <2> QED BY <2>1, <2>2, <2>3 DEF Next, Terminated
<1> QED BY <1>1, <1>2 DEF NetworkInv

LEMMA NetworkInvAlways == Spec => []NetworkInv
BY NetworkInvInit, NetworkInvStep, PTL DEF Spec

\* The download thread never writes to the buffer the application reads: it holds the
\* next chunk, with its own length.
THEOREM ChunksReadIntact == Spec => []ReadIntact
<1>1. NetworkInv => ReadIntact
  BY DEF NetworkInv, ReaderInv, ReadIntact
<1> QED BY <1>1, NetworkInvAlways, PTL

\* The end of a request is told after the last chunk was read.
THEOREM AllChunksRead == Spec => []EverythingRead
<1>1. NetworkInv => EverythingRead
  BY DEF NetworkInv, CountInv
<1> QED BY <1>1, NetworkInvAlways, PTL

-----------------------------------------------------------------------------
(* The two buffers implement a queue: a filled buffer is marked, and so put in *)
(* the queue, GetData takes the first chunk, a new request empties the queue. *)

NextChunk == IF dpc = "mark" THEN sent ELSE sent + 1

QueueStep == [Queue!Next]_<<Waiting, NextChunk>>

LEMMA QueueInit == Init => Queue!Init
BY DEF Init, Queue!Init, Waiting, Buffers

LEMMA ThreadStepsQueue == NetworkInv /\ Download => QueueStep
<1> SUFFICES ASSUME NetworkInv, Download PROVE QueueStep
  OBVIOUS
<1> USE DEF NetworkInv, TypeOK, Receiving, Buffers, Other, meta, data, server, app, thread, QueueStep,
            NextChunk
<1>1. CASE Pick \/ ReceiveEnd \/ ReceiveError \/ DownloadEnds
  BY <1>1 DEF Pick, ReceiveEnd, ReceiveError, DownloadEnds, Waiting
<1>2. CASE Receive \/ Filled
  BY <1>2 DEF Receive, Filled, Waiting, ThreadInv, FlagsInv
<1>3. CASE Mark
  <2>1. Len(Waiting) < 2 /\ Waiting' = Append(Waiting, sent)
    <3>1. picked = nextWrite /\ ~ready[picked] /\ buffer[picked] = sent
      BY <1>3 DEF Mark, ThreadInv
    <3>2. ready' = [ready EXCEPT ![picked] = TRUE] /\ nextRead' = nextRead /\ buffer' = buffer
      BY <1>3 DEF Mark
    <3>3. CASE ready[nextRead]
      <4>1. picked = Other(nextRead)
        BY <3>1, <3>3
      <4>2. Waiting = <<buffer[nextRead]>> /\ Waiting' = <<buffer[nextRead], sent>>
        BY <3>1, <3>2, <3>3, <4>1 DEF Waiting
      <4> QED BY <4>2
    <3>4. CASE ~ready[nextRead]
      <4>1. picked = nextRead /\ ~ready[Other(nextRead)]
        BY <3>1, <3>4 DEF FlagsInv
      <4>2. Waiting = <<>> /\ Waiting' = <<sent>>
        BY <3>1, <3>2, <3>4, <4>1 DEF Waiting
      <4> QED BY <4>2
    <3> QED BY <3>3, <3>4
  <2>2. NextChunk = sent /\ NextChunk' = sent + 1
    BY <1>3 DEF Mark
  <2> QED BY <2>1, <2>2 DEF Queue!Next, Queue!Put
<1> QED BY <1>1, <1>2, <1>3 DEF Download

LEMMA ApplicationStepsQueue == NetworkInv /\ Application => QueueStep
<1> SUFFICES ASSUME NetworkInv, Application PROVE QueueStep
  OBVIOUS
<1> USE DEF NetworkInv, TypeOK, Buffers, Other, meta, data, server, app, thread, QueueStep, NextChunk
<1>1. CASE HasData \/ RequestFinished \/ ReadChunk \/ CloseSession \/ ReleaseData
  BY <1>1 DEF HasData, RequestFinished, ReadChunk, CloseSession, ReleaseData, Waiting
<1>2. CASE GetData
  <2>1. ready[nextRead] /\ ReadTurn = nextRead
    BY <1>2 DEF GetData, ReaderInv, ReadTurn, PickBufferRead, NoBuffer
  <2>2. Waiting # <<>> /\ Waiting' = Tail(Waiting)
    BY <1>2, <2>1 DEF GetData, Waiting, FlagsInv
  <2> QED BY <1>2, <2>2 DEF GetData, Queue!Next, Queue!Take
<1> QED BY <1>1, <1>2 DEF Application

LEMMA StepsQueue == NetworkInv /\ [Next]_vars => QueueStep
<1> SUFFICES ASSUME NetworkInv, [Next]_vars PROVE QueueStep
  OBVIOUS
<1>1. CASE \E n \in 0 .. MaxChunks : NewRequest(n)
  BY <1>1 DEF NewRequest, QueueStep, Queue!Next, Queue!Reset, Waiting, NextChunk, Buffers
<1>2. CASE UNCHANGED vars
  BY <1>2 DEF vars, meta, data, server, app, thread, QueueStep, Waiting, NextChunk
<1> QED BY <1>1, <1>2, ThreadStepsQueue, ApplicationStepsQueue DEF Next, Terminated

\* The network box delivers the chunks of a response in order, each of them once, with
\* at most two of them waiting.
THEOREM BuffersAreAQueue == Spec => QueueSpec
<1>1. NetworkInv /\ [Next]_vars => [Queue!Next]_<<Waiting, IF dpc = "mark" THEN sent ELSE sent + 1>>
  BY StepsQueue DEF QueueStep, NextChunk
<1> QED BY <1>1, QueueInit, NetworkInvAlways, PTL DEF Spec, QueueSpec, Queue!Spec
=============================================================================
