------------------------------ MODULE BlockStore ------------------------------
(***************************************************************************)
(* What the indexer promises of its own Postgres database, whatever        *)
(* happens to the process: the rows of a block appear all together, in     *)
(* height order, in the step that moves Chain.blockHeight to the block,    *)
(* and a one-shot snapshot is in place before the first block at or above  *)
(* its cutoff.  SyncBlocks is the sync loop that implements this.          *)
(*                                                                         *)
(* One exception is part of the promise as the code keeps it: the Chain    *)
(* row is created with height 1 (sync_chain.ts:48), so height 1 does not   *)
(* tell whether block 1 was indexed, and block 1 may be applied again for  *)
(* as long as it is the newest block.                                      *)
(***************************************************************************)
EXTENDS Naturals

CONSTANTS
    LastBlock,  \* the last height blocksync-core ever produces
    Writers,    \* the handlers that write rows
    MaxWrites,  \* the most rows a handler writes for a block
    Writes,     \* Writes[b][h]: how many rows handler h writes for block b
    Snapshots,  \* the one-shot snapshots, each with ...
    Cutoff      \* ... the height it is due at, 0 when it is not configured

VARIABLES
    blockHeight,  \* Chain.blockHeight, 0 while the Chain row does not exist
    rows,         \* how many times each row was inserted
    snapDone      \* the snapshots whose completed_at is set

storeVars == <<blockHeight, rows, snapDone>>

Blocks == 1..LastBlock

\* The rows the handlers insert, each named by its block, handler and
\* position among that handler's statements.
Row == {r \in [block: Blocks, handler: Writers, n: 1..MaxWrites] :
            r.n <= Writes[r.block][r.handler]}

\* A snapshot that has to be in place before block b is indexed.
DueAt(s, b) == Cutoff[s] # 0 /\ Cutoff[s] <= b

Init ==
    /\ blockHeight = 0
    /\ rows = [r \in Row |-> 0]
    /\ snapDone = {}

CreateChain ==
    /\ blockHeight = 0
    /\ blockHeight' = 1
    /\ UNCHANGED <<rows, snapDone>>

\* Every row of every block up to b is there.
Complete(b) == \A r \in Row : r.block <= b => rows[r] >= 1

TakeSnapshot(s) ==
    /\ blockHeight >= 1
    /\ DueAt(s, blockHeight + 1)
    /\ s \notin snapDone
    /\ snapDone' = snapDone \cup {s}
    /\ UNCHANGED <<blockHeight, rows>>

Apply(b) ==
    /\ blockHeight >= 1
    /\ \/ b = 1 /\ blockHeight = 1
       \/ b = blockHeight + 1 /\ Complete(blockHeight)
    /\ \A s \in Snapshots : DueAt(s, b) => s \in snapDone
    /\ rows' = [r \in Row |-> rows[r] + IF r.block = b THEN 1 ELSE 0]
    /\ blockHeight' = b
    /\ UNCHANGED snapDone

Next ==
    \/ CreateChain
    \/ \E s \in Snapshots : TakeSnapshot(s)
    \/ \E b \in Blocks : Apply(b)

Spec == Init /\ [][Next]_storeVars
===============================================================================
