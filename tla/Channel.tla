------------------------------- MODULE Channel -------------------------------
(***************************************************************************)
(* What the network box of Munin promises to the application: the chunks   *)
(* of a response arrive in the order the server sent them, each of them    *)
(* once, at most two of them waiting.  Network is shown to implement it.   *)
(***************************************************************************)
EXTENDS Naturals, Sequences

VARIABLES queue,        \* chunks received and not yet handed to the application
          next          \* chunk the server sends next

Init == queue = <<>> /\ next = 1

\* A request: what is left of the response before is dropped.
Reset == queue' = <<>> /\ next' = 1

Put  == Len(queue) < 2 /\ queue' = Append(queue, next) /\ next' = next + 1
Take == queue # <<>> /\ queue' = Tail(queue) /\ UNCHANGED next

Next == Reset \/ Put \/ Take

Spec == Init /\ [][Next]_<<queue, next>>
=============================================================================
