---------------------------- MODULE DurableRecord ----------------------------
(***************************************************************************)
(* What the two update-metadata pages of Munin promise to the rest of the  *)
(* bootloader: one record that survives power losses, made of the address  *)
(* of the update to install and of the number of installation steps        *)
(* already taken, and that changes in one piece.  Nothing in this module   *)
(* knows about pages, bit fields or flash commands: MetadataPages is shown *)
(* to implement it.                                                        *)
(***************************************************************************)
EXTENDS Naturals

CONSTANTS Locations,    \* addresses an update may be stored at
          Factory       \* the address in the factory image (0 in core.c)

VARIABLES location,     \* getMetadata()->location
          counter       \* getCurrentCounter()

vars == <<location, counter>>

Init == location = Factory /\ counter = 0

\* requestUpdate: a new update starts from step 0.
Request(loc) == location' = loc /\ counter' = 0

\* startUpdate: the same update starts again from step 0.
Restart == counter' = 0 /\ UNCHANGED location

\* incrementCounter: exactly one more step is remembered.
Advance == counter' = counter + 1 /\ UNCHANGED location

Next == (\E loc \in Locations : Request(loc)) \/ Restart \/ Advance

Spec == Init /\ [][Next]_vars
=============================================================================
