--------------------------- MODULE InstalledVersion ---------------------------
(***************************************************************************)
(* What the critical metadata page promises: the device always knows which *)
(* version it runs and which challenge the next update must answer.  The   *)
(* two change together, in one step, and only by installing an update that *)
(* was made for the version installed before.                              *)
(***************************************************************************)
EXTENDS Naturals

CONSTANTS Headers,            \* the update headers in circulation
          FactoryVersion, FactoryChallenge

VARIABLES version,            \* criticalMetadata.versionID
          challenge           \* criticalMetadata.updateChallenge

vars == <<version, challenge>>

Init == version = FactoryVersion /\ challenge = FactoryChallenge

Install(h) ==
    /\ h.oldVersionID = version /\ h.answers = challenge
    /\ h.versionID > version
    /\ version' = h.versionID /\ challenge' = h.signature

Next == \E h \in Headers : Install(h)

Spec == Init /\ [][Next]_vars
=============================================================================
