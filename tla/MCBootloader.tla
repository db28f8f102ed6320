----------------------------- MODULE MCBootloader -----------------------------
(* Version 1 may be replaced by two updates that move blocks and end with a   *)
(* delta, one that fills its block and one that does not, and by one whose    *)
(* delta does not validate.  Words are numbers, so that one page can hold     *)
(* metadata and then cache data.                                              *)
EXTENDS Bootloader

MCImage == [b \in Blocks |-> [w \in Words |-> 20 + b * BlockSize + w]]

Add(words) == [insert |-> FALSE, data |-> words]
Insert(words) == [insert |-> TRUE, data |-> words]

Exchange == <<Copy(<<1, 0>>, 4, <<CACHE_BUF, 0>>), Erase(1), Copy(<<0, 0>>, 4, <<1, 0>>),
              FlushAndPartialCommit(0, 4)>>
Inside == <<LoadAndFlush(1), Copy(<<CACHE_BUF, 2>>, 2, <<1, 0>>), ChainedSkip(1),
            ChainedCopy(<<CACHE_BUF, 0>>, 1)>>

Header(v, bad, p, d) ==
    [oldVersionID |-> 1, versionID |-> v, answers |-> 11, signature |-> 10 + v,
     malformed |-> bad, prog |-> p, patch |-> d, start |-> 0]

MCHeaders == {Header(2, FALSE, Exchange, <<Add(<<1, 1>>), Insert(<<50>>)>>),
              Header(3, FALSE, Inside, <<Add(<<1, 1, 1>>), Insert(<<51>>)>>),
              Header(2, TRUE, Inside, <<Add(<<1>>), Insert(<<>>)>>)}

\* Where power may be lost anywhere: one with two ERASEs, and the one that fails.
FewHeaders == {h \in MCHeaders : (h.prog = Exchange) # h.malformed}

\* The hypotheses of BootloaderProofs hold here.
Moved(h) == VMFlash(h.prog, OldImage)
ASSUME HeadersAreInstallable ==
    \A h \in Headers : ~h.malformed =>
        /\ Cmd!Replayable(h.prog)
        /\ \A b \in Blocks : Cmd!Final(h.prog).mem[b] = Moved(h)[b]
        /\ Moved(h) \in [Blocks -> [Words -> 0 .. WordSize - 1]]
        /\ 0 < Len(h.patch) /\ WordsBefore(h.patch, Len(h.patch)) =< BlockSize
=============================================================================
