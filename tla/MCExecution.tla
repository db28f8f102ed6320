------------------------------ MODULE MCExecution ------------------------------
(* Programs Hugin emits: the expected results of its scheduler's tests        *)
(* (hugin/Scheduler/static_tests.cpp), on blocks of four words.               *)
EXTENDS Execution

MCImage == [b \in Blocks |-> [w \in Words |-> b * BlockSize + w]]

\* firstPassTest: moves inside a block.
InsideBlock == <<UseBlock(0), LoadAndFlush(0), Copy(<<CACHE_BUF, 1>>, 1, <<0, 0>>),
                 Copy(<<CACHE_BUF, 1>>, 1, <<0, 1>>), Copy(<<CACHE_BUF, 2>>, 2, <<0, 2>>)>>

\* secondPassTest: one block depends on another.
Dependency == <<Erase(1), UseBlock(0), Copy(<<0, 1>>, 2, <<1, 1>>), LoadAndFlush(0),
                Copy(<<CACHE_BUF, 1>>, 1, <<0, 2>>)>>

\* thirdPassSimpleChain: a cycle, whose last link waits in the cache.
Cycle == <<Copy(<<1, 2>>, 1, <<CACHE_BUF, 0>>), Erase(1), Copy(<<0, 1>>, 1, <<1, 2>>),
           Erase(0), Copy(<<2, 0>>, 1, <<0, 1>>), Erase(2),
           Copy(<<CACHE_BUF, 0>>, 1, <<2, 3>>)>>

\* thirdPassTestWithFullRecovery: a cycle where every block keeps its own rest.
Recovery == <<LoadAndFlush(1), Copy(<<CACHE_BUF, 0>>, 1, <<1, 0>>), UseBlock(0),
              ChainedCopy(<<0, 1>>, 1), ChainedCopy(<<CACHE_BUF, 2>>, 2),
              Copy(<<0, 0>>, 1, <<CACHE_BUF, 0>>), Copy(<<0, 2>>, 2, <<CACHE_BUF, 2>>),
              FlushAndPartialCommit(0, 1), ChainedCopy(<<2, 1>>, 1),
              ChainedCopy(<<CACHE_BUF, 2>>, 2), Copy(<<2, 0>>, 1, <<CACHE_BUF, 0>>),
              Copy(<<2, 2>>, 2, <<CACHE_BUF, 2>>), FlushAndPartialCommit(2, 4)>>

\* forthPassTestWithCompetitiveRead: an exchange through the cache, which is
\* rearranged in place.
Exchange == <<Copy(<<1, 1>>, 3, <<CACHE_BUF, 0>>), FlushAndPartialCommit(1, 1),
              ChainedCopy(<<0, 0>>, 2), Copy(<<CACHE_BUF, 1>>, 2, <<CACHE_BUF, 0>>),
              ChainedCopy(<<0, 2>>, 2), FlushAndPartialCommit(0, 4)>>

\* createChains of scheduler_codegen_optim.cpp: copies with a hole in between;
\* and the whole cache written back to a block.
Holes == <<LoadAndFlush(2), Copy(<<CACHE_BUF, 3>>, 1, <<2, 0>>), ChainedSkip(1),
           ChainedCopy(<<CACHE_BUF, 0>>, 1), Erase(1), Commit(1)>>

MCPrograms == {InsideBlock, Dependency, Cycle, Recovery, Exchange, Holes}

ASSUME ProgramsAreAccepted == \A p \in Programs : VMAccepts(p, OldImage)

\* The hypotheses of the proofs hold for them.
ASSUME ProgramsAreReplayable == \A p \in Programs : Replayable(p) /\ AgreesWithVM(p)
=============================================================================
