------------------------------ MODULE MCPayload ------------------------------
EXTENDS Payload

\* Images in which no byte of the old one appears twice.
Rearrangements == {t \in [Bytes -> Bytes \cup {Nothing}] :
                      \A a, b \in Bytes : t[a] = t[b] /\ t[a] # Nothing => a = b}
\* Images where it may, the last block having bytes of the two others.
Repetitions == {t \in [Bytes -> Bytes \cup {Nothing}] : t[3] = Nothing /\ t[4] = 0 /\ t[5] = 2}
MCTargets == Rearrangements \cup Repetitions

\* The two last blocks change places, or the two before the last.
Swap(b, c) == [a \in Bytes |-> CASE BlockOf(a) = b -> Base(c) + Offset(a)
                                 [] BlockOf(a) = c -> Base(b) + Offset(a)
                                 [] OTHER -> Nothing]
HighSwap == {Swap(NbBlocks - 2, NbBlocks - 1), Swap(NbBlocks - 3, NbBlocks - 2)}
=============================================================================
