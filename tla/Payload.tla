------------------------------- MODULE Payload -------------------------------
(***************************************************************************)
(* From the moves of an update to the commands the device reads: Hugin's    *)
(* scheduler, then the encoder, then the decoder twice: once on Hugin's     *)
(* side, where Encoder::validate compares the commands before a patch is    *)
(* shipped, and once on the device (runCommands of munin/Bytecode/          *)
(* execution.c), which starts from a context of its own.                   *)
(***************************************************************************)
EXTENDS Scheduler, Encoding

VARIABLES
    phase,   \* "schedule", "refused", "encoded", "validated" or "received"
    stream,  \* the bits of the commands
    hugin,   \* what validate decodes from them
    device   \* what the device decodes from them
pvars == <<vars, phase, stream, hugin, device>>

Unread == [cmds |-> <<>>, ctx |-> HuginContext]

PayloadInit ==
    /\ Init
    /\ phase = "schedule" /\ stream = <<>>
    /\ hugin = Unread /\ device = Unread

\* The steps of the scheduler.
Schedule == Next /\ UNCHANGED <<phase, stream, hugin, device>>

\* encode.  When one of its assertions fails there is no stream.
EncodePlan ==
    /\ phase = "schedule" /\ pc = "done"
    /\ LET end == Encode(s.cmds)
       IN  /\ phase' = IF end.ok THEN "encoded" ELSE "refused"
           /\ stream' = IF end.ok THEN end.stream ELSE <<>>
    /\ UNCHANGED <<vars, hugin, device>>

\* validate decodes the stream again.
Validate ==
    /\ phase = "encoded" /\ phase' = "validated"
    /\ hugin' = Decode(stream, HuginContext, <<>>)
    /\ UNCHANGED <<vars, stream, device>>

\* The device decodes it when the update runs.
RunCommands ==
    /\ phase = "validated" /\ phase' = "received"
    /\ device' = Decode(stream, DeviceContext, <<>>)
    /\ UNCHANGED <<vars, stream, hugin>>

\* Nothing follows an abort, a refusal or the reception.
Stopped == (pc = "aborted" \/ phase \in {"refused", "received"}) /\ UNCHANGED pvars

PayloadNext == Schedule \/ EncodePlan \/ Validate \/ RunCommands \/ Stopped
PayloadSpec == PayloadInit /\ [][PayloadNext]_pvars

-----------------------------------------------------------------------------
\* A decoder stops at the mark of the end, in the last byte of the stream, whatever the
\* bits before it: it reads no bit beyond, and what follows the commands in an update
\* begins where runCommands says.
StopsAtTheEnd(side) == ~side.ctx.past /\ EndOfCommands(side.ctx) = Len(stream)

\* validate: the commands that come out are those that went in.  (The length of an
\* ERASE means nothing and is not sent; see the README.)
Sent(c) == IF c.command = "ERASE" THEN [c EXCEPT !.length = 0] ELSE c
RoundTrip ==
    phase \in {"validated", "received"} =>
        hugin.cmds = [i \in DOMAIN s.cmds |-> Sent(s.cmds[i])] /\ StopsAtTheEnd(hugin)

\* What the device decodes is the plan, from the first REBASE on, although it starts
\* with another base.
FirstRebase == SelectInSeq(s.cmds, LAMBDA c : c.command = "REBASE")
DeviceAgreesAfterRebase ==
    phase = "received" =>
        /\ StopsAtTheEnd(device) /\ Len(device.cmds) = Len(hugin.cmds)
        /\ FirstRebase # 0 =>
             \A i \in FirstRebase .. Len(s.cmds) : device.cmds[i] = hugin.cmds[i]

\* "We make sure the payload is properly encoded and decoded" (validation.cpp): the
\* device decodes what was validated.
DeviceDecodesThePlan == phase = "received" => device.cmds = hugin.cmds

\* Any plan can be encoded: assert(numberOfBitsNecessary(output) <= blockIDBits)
\* (encoder.cpp) holds for every block number.
PlanIsEncoded == phase # "refused"
=============================================================================
