----------------------------- MODULE MCSyncBlocks -----------------------------
(***************************************************************************)
(* Values for SyncBlocks' constants.                                       *)
(***************************************************************************)
EXTENDS SyncBlocks

\* Block 1 leads to no row; block 2 has events and a transaction with a
\* message; block 3 has a transaction only.
ThreeBlocks ==
    <<[events |-> 0, txs |-> 0], [events |-> 2, txs |-> 2], [events |-> 0, txs |-> 1]>>

TwoBlocks == <<[events |-> 0, txs |-> 0], [events |-> 2, txs |-> 2]>>

BothCutoffs == <<2, 3>>
SecondBlock == <<2>>
NoCutoff == <<>>

\* The rows of block 2's events sit under a unique key.
KeyedEvents == [block : {2}, handler : {"events"}, n : 1..2]
NoKeys == {}
===============================================================================
