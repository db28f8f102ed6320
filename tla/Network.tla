------------------------------- MODULE Network -------------------------------
(***************************************************************************)
(* The network box of Munin (munin/integration/mbedOS/network/network.cpp): *)
(* a download thread fills two buffers from a socket while the application  *)
(* empties them.  bufferMeta, guarded by dataMutex, says which buffer is    *)
(* ready, which one the application reads, and whose turn it is;            *)
(* downloadIsOver and the buffers themselves are shared without the mutex.  *)
(*                                                                          *)
(* Each critical section of dataMutex is one action, and so is each access  *)
(* outside of it.  recv fills a buffer in two actions, so that it can be    *)
(* caught half written.  Chunks are numbered by the server.  The            *)
(* application is reduced to its calls: checkUpdate of                      *)
(* munin/Userland/userland.c polls, takes a chunk, reads it, and closes the *)
(* session at the end or when a chunk does not suit it.                     *)
(***************************************************************************)
EXTENDS Integers, Sequences

CONSTANTS MaxChunks,     \* bound: chunks of a response
          MaxRequests,   \* bound: requests
          MaxErrors      \* bound: errors of recv on an open socket

ASSUME BoundAssumption == MaxChunks \in Nat /\ MaxRequests \in Nat /\ MaxErrors \in Nat

Buffers == {0, 1}
NoBuffer == 255          \* 0xff
Torn == -1               \* a buffer recv is writing to

VARIABLES ready,         \* bufferMeta: BUFFER_x_READY
          inUse,         \* bufferMeta: BUFFER_x_BEING_CONSUMED
          nextWrite,     \* bufferMeta: NEXT_BUFFER_WRITE
          nextRead,      \* bufferMeta: NEXT_BUFFER_READ
          buffer,        \* buffer0 and buffer1: the chunk each holds
          length,        \* buffer0Length, buffer1Length: the chunk whose length it is
          over,          \* downloadIsOver
          open,          \* the socket is connected
          total,         \* chunks of the response
          sent,          \* chunks received from the socket
          errors,        \* errors of recv so far
          dpc,           \* where the download thread is
          picked,        \* its bufferToPick
          apc,           \* where the application is
          held,          \* transferData: the buffer and the length it was given
          heldLength,
          taken,         \* chunks it has read
          requests       \* requests so far

meta   == <<ready, inUse, nextWrite, nextRead>>
data   == <<buffer, length>>
server == <<total, sent, errors>>
app    == <<apc, held, heldLength, taken, requests>>
thread == <<dpc, picked>>
vars   == <<meta, data, over, open, server, thread, app>>

Other(b) == 1 - b

-----------------------------------------------------------------------------
\* Mutant of PickBufferWrite: the buffer the application reads is not busy.
PickBufferWriteReady == IF ready[nextWrite] THEN NoBuffer ELSE nextWrite

PickBufferWrite ==
    IF ready[nextWrite] \/ inUse[nextWrite] THEN NoBuffer ELSE nextWrite

PickBufferRead  == IF ready[nextRead] THEN nextRead ELSE NoBuffer
HaveBufferReady == \E b \in Buffers : ready[b]

Init ==
    /\ ready = [b \in Buffers |-> FALSE] /\ inUse = [b \in Buffers |-> FALSE]
    /\ nextWrite = 0 /\ nextRead = 0
    /\ buffer = [b \in Buffers |-> 0] /\ length = [b \in Buffers |-> 0]
    /\ over = FALSE /\ open = FALSE
    /\ total = 0 /\ sent = 0 /\ errors = 0
    /\ dpc = "none" /\ picked = 0
    /\ apc = "idle" /\ held = NoBuffer /\ heldLength = 0 /\ taken = 0 /\ requests = 0

-----------------------------------------------------------------------------
(* downloadData. *)

Pick ==
    /\ dpc = "loop" /\ ~over
    /\ PickBufferWrite # NoBuffer
    /\ picked' = PickBufferWrite
    /\ dpc' = "recv"
    /\ UNCHANGED <<meta, data, over, open, server, app>>

\* socket.recv, outside of the mutex.
Receive ==
    /\ dpc = "recv" /\ open /\ sent < total
    /\ buffer' = [buffer EXCEPT ![picked] = Torn]
    /\ dpc' = "filling"
    /\ UNCHANGED <<meta, length, over, open, server, picked, app>>

Filled ==
    /\ dpc = "filling"
    /\ buffer' = [buffer EXCEPT ![picked] = sent + 1]
    /\ sent' = sent + 1
    /\ dpc' = "mark"
    /\ UNCHANGED <<meta, length, over, open, total, errors, picked, app>>

\* Mutant of ReceiveEnd: downloadIsOver stays false.
ReceiveEndForgotten ==
    /\ dpc = "recv" /\ open /\ sent = total
    /\ dpc' = "loop"
    /\ UNCHANGED <<meta, data, over, open, server, picked, app>>

ReceiveEnd ==
    /\ dpc = "recv" /\ open /\ sent = total
    /\ over' = TRUE
    /\ dpc' = "loop"
    /\ UNCHANGED <<meta, data, open, server, picked, app>>

\* The error is printed and the loop goes on.
ReceiveError ==
    /\ dpc = "recv"
    /\ IF open THEN errors < MaxErrors /\ errors' = errors + 1 ELSE UNCHANGED errors
    /\ dpc' = "loop"
    /\ UNCHANGED <<meta, data, over, open, total, sent, picked, app>>

Mark ==
    /\ dpc = "mark"
    /\ ready' = [ready EXCEPT ![picked] = TRUE]
    /\ nextWrite' = Other(nextWrite)
    /\ length' = [length EXCEPT ![picked] = sent]
    /\ dpc' = "loop"
    /\ UNCHANGED <<inUse, nextRead, buffer, over, open, server, picked, app>>

\* The thread ends itself.
DownloadEnds ==
    /\ dpc = "loop" /\ over
    /\ dpc' = "none"
    /\ UNCHANGED <<meta, data, over, open, server, picked, app>>

-----------------------------------------------------------------------------
(* The calls of the application. *)

\* newRequest: a download thread left over is deleted, which terminates it.
NewRequest(chunks) ==
    /\ apc = "idle" /\ requests < MaxRequests
    /\ requests' = requests + 1
    /\ open' = TRUE /\ total' = chunks /\ sent' = 0
    /\ over' = FALSE
    /\ ready' = [b \in Buffers |-> FALSE] /\ inUse' = [b \in Buffers |-> FALSE]
    /\ nextWrite' = 0 /\ nextRead' = 0
    /\ dpc' = "loop"
    /\ apc' = "poll" /\ taken' = 0
    /\ UNCHANGED <<data, errors, picked, held, heldLength>>

\* proxyRequestHasData, when the answer is NETWORK_HAS_DATA.
HasData ==
    /\ apc = "poll" /\ HaveBufferReady
    /\ apc' = "get"
    /\ UNCHANGED <<meta, data, over, open, server, thread, held, heldLength, taken, requests>>

\* Mutant of RequestFinished: the end of the download is enough.
RequestFinishedEarly ==
    /\ apc = "poll" /\ over
    /\ apc' = "close"
    /\ UNCHANGED <<meta, data, over, open, server, thread, held, heldLength, taken, requests>>

\* ... and when it is NETWORK_FINISHED.
RequestFinished ==
    /\ apc = "poll" /\ ~HaveBufferReady /\ over
    /\ apc' = "close"
    /\ UNCHANGED <<meta, data, over, open, server, thread, held, heldLength, taken, requests>>

\* consumeData.  pickBufferRead is tested for zero only: no buffer, 0xff, is
\* handled like buffer 1.
ReadTurn == IF PickBufferRead # 0 THEN 1 ELSE 0

\* Mutant of GetData: does not flip NEXT_BUFFER_READ.
GetDataSameTurn ==
    /\ apc = "get" /\ ready[ReadTurn]
    /\ inUse' = [inUse EXCEPT ![Other(ReadTurn)] = FALSE, ![ReadTurn] = TRUE]
    /\ ready' = [ready EXCEPT ![ReadTurn] = FALSE]
    /\ held' = ReadTurn /\ heldLength' = length[ReadTurn]
    /\ apc' = "read"
    /\ UNCHANGED <<nextRead, nextWrite, data, over, open, server, thread, taken, requests>>

GetData ==
    /\ apc = "get"
    /\ LET b == ReadTurn
       IN  IF ready[b]
           THEN /\ inUse' = [inUse EXCEPT ![Other(b)] = FALSE, ![b] = TRUE]
                /\ ready' = [ready EXCEPT ![b] = FALSE]
                /\ nextRead' = Other(nextRead)
                /\ held' = b /\ heldLength' = length[b]
                /\ apc' = "read"
           ELSE /\ inUse' = [inUse EXCEPT ![Other(b)] = FALSE]
                /\ held' = NoBuffer /\ apc' \in {"poll", "giveup"}
                /\ UNCHANGED <<ready, nextRead, heldLength>>
    /\ UNCHANGED <<nextWrite, data, over, open, server, thread, taken, requests>>

\* The application has copied the chunk, and polls again ...
ReadChunk ==
    /\ apc = "read"
    /\ taken' = taken + 1
    /\ apc' = "poll"
    /\ UNCHANGED <<meta, data, over, open, server, thread, held, heldLength, requests>>

\* ... or the response is not what it expects, or has ended:
\* proxyCloseSession closes the socket, while the download thread goes on, and
\* then calls proxyReleaseData.
CloseSession ==
    /\ apc \in {"read", "giveup", "close"}
    /\ open' = (open /\ over)
    /\ apc' = "release" /\ held' = NoBuffer
    /\ UNCHANGED <<meta, data, over, server, thread, heldLength, taken, requests>>

\* proxyReleaseData, which checkUpdate also calls by itself at the end of a
\* manifest.
ReleaseData ==
    /\ apc \in {"close", "release"}
    /\ inUse' = [b \in Buffers |-> FALSE]
    /\ open' = (open /\ ~(over /\ ~HaveBufferReady))
    /\ apc' = "idle" /\ held' = NoBuffer
    /\ UNCHANGED <<ready, nextWrite, nextRead, data, over, server, thread, heldLength, taken,
                   requests>>

-----------------------------------------------------------------------------
Terminated == apc = "idle" /\ requests = MaxRequests /\ UNCHANGED vars

Download == Pick \/ Receive \/ Filled \/ ReceiveEnd \/ ReceiveError \/ Mark \/ DownloadEnds

Application == HasData \/ RequestFinished \/ GetData \/ ReadChunk \/ CloseSession \/ ReleaseData

Next ==
    \/ Download \/ Application \/ Terminated
    \/ \E n \in 0 .. MaxChunks : NewRequest(n)

\* The scheduler runs both threads, and the server answers every recv.
Fairness == WF_vars(Download) /\ WF_vars(Application)

Spec == Init /\ [][Next]_vars /\ Fairness

-----------------------------------------------------------------------------
(* Properties. *)

\* While the application reads a buffer it holds the chunk that follows those
\* already read, with its length: the download thread, which fills buffers
\* outside of the mutex, never writes to that one.
ReadIntact ==
    apc = "read" => buffer[held] = taken + 1 /\ heldLength = taken + 1

\* The application is told that the request is finished only after it was given
\* every chunk, although downloadIsOver is written outside of the mutex.
EverythingRead == apc = "close" => taken = total

\* The two buffers and their flags are a queue of chunks.
Waiting ==
    IF ~ready[nextRead] THEN <<>>
    ELSE IF ~ready[Other(nextRead)] THEN <<buffer[nextRead]>>
    ELSE <<buffer[nextRead], buffer[Other(nextRead)]>>
Queue == INSTANCE Channel
           WITH queue <- Waiting, next <- (IF dpc = "mark" THEN sent ELSE sent + 1)
QueueSpec == Queue!Spec

\* Neither thread waits for the other for ever: every request is closed.
RequestEnds == (apc # "idle") ~> (apc = "idle")
=============================================================================
