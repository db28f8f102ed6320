-------------------------- MODULE MCCriticalMetadata --------------------------
(* Two generations of updates; the first exists in two forms, one of which    *)
(* does not decode.                                                           *)
EXTENDS CriticalMetadata

CONSTANT CacheWord     \* a word of page data

Header(from, to, bad) ==
    [oldVersionID |-> from, versionID |-> to, answers |-> 100 + from,
     signature |-> 100 + to, malformed |-> bad]

MCHeaders == {Header(1, 2, FALSE), Header(1, 2, TRUE), Header(2, 4, FALSE)}

\* A cache page may be blank, hold data, or look like metadata of another device.
MCCachePages == {[w \in Words |-> Blank], [w \in Words |-> CacheWord],
                 [ErasedPage EXCEPT ![challengeF] = 104, ![versionF] = 4, ![validF] = Valid]}
=============================================================================
