-------------------------------- MODULE MCDelta --------------------------------
(* Deltas that end inside a block, at its end, and with an empty last insert,  *)
(* on blocks of three words.                                                   *)
EXTENDS Delta

MCImages == {[b \in Blocks |-> [w \in Words |-> b * BlockSize + w]]}

Add(words) == [insert |-> FALSE, data |-> words]
Insert(words) == [insert |-> TRUE, data |-> words]

OneBlock == {<<>>, <<Add(<<1, 2>>), Insert(<<>>)>>,
             <<Add(<<1>>), Insert(<<9>>)>>,
             <<Add(<<>>), Insert(<<7, 8, 9>>)>>,
             <<Add(<<1, 1, 1>>), Insert(<<>>)>>,
             <<Add(<<2>>), Insert(<<9>>), Add(<<1>>), Insert(<<>>)>>}
SeveralBlocks == {<<Add(<<1, 2, 3, 4>>), Insert(<<9>>)>>,
                  <<Add(<<1, 1>>), Insert(<<8, 9>>), Add(<<1, 1, 1>>), Insert(<<>>)>>,
                  <<Add(<<1, 2, 3>>), Insert(<<6, 7, 8>>)>>}
MCPatches == OneBlock \cup SeveralBlocks
=============================================================================
