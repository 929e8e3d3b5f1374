------------------------------ MODULE SyncBlocks ------------------------------
(***************************************************************************)
(* The sync loop: startSync (sync/sync_blocks.ts), the chain row it starts *)
(* from (sync/sync_chain.ts), the per-block transaction (withTransaction)  *)
(* and the routing of every statement through the global currentPool       *)
(* (dbQuery, postgres/client.ts).                                          *)
(*                                                                         *)
(* One process runs the loop.  Per block it starts three handlers at once  *)
(* (Promise.all); each issues its statements one by one and may await      *)
(* something else, such as an archive query, before any of them.  When one *)
(* handler rejects, the loop rolls back and retries while the others keep  *)
(* running: a statement picks its connection when it is issued, so such a  *)
(* straggler writes to whatever currentPool holds at that moment, the      *)
(* transaction of a later attempt or, when it is undefined, the pool,      *)
(* where every statement commits by itself.                                *)
(*                                                                         *)
(* A client runs its statements in the order they are issued, so a         *)
(* statement is issued and executed in one step here; only the sweep keeps *)
(* a step between its execution and the COMMIT that its answer triggers.   *)
(***************************************************************************)
EXTENDS Naturals

CONSTANTS
    LastBlock,    \* bound: blocksync-core never goes beyond this height
    MaxWrites,    \* the most rows a handler writes for a block
    Writes,       \* Writes[b][h]: how many rows handler h writes for block b
    Keyed,        \* the rows under a unique key: a second insert fails
    NumSnapshots, \* the one-shot snapshots: 1 is ensureDaodaoSnapshot, 2
                  \* ensureV7Snapshot, in the order of the calls
    Cutoff,       \* the height each is due at, 0 when it is not configured
    Faults,       \* the kinds of fault that may happen, a subset of FaultKinds
    MaxFaults,    \* bound: how many faults happen in a behaviour
    MaxAttempts,  \* bound: how many block transactions a process opens
    PollLimit,    \* empty polls in a row before an error (25 in the code)
    ErrorLimit,   \* errors in a row before the loop gives up (3 in the code)
    Rejection     \* what an unhandled rejection does, "exit" and/or "stall"

(***************************************************************************)
(* crash      the process dies                                             *)
(* db         a statement of the loop itself fails: the block read, BEGIN, *)
(*            the sweep, or a COMMIT that is not applied                   *)
(* archive    a handler throws between two statements (an archive query    *)
(*            fails, a message does not decode); a snapshot throws         *)
(* sql        a handler's statement fails in Postgres                      *)
(* timeout    the client gives up on a handler's statement, which the      *)
(*            server still executes                                        *)
(* commitLost the COMMIT is applied but its answer never arrives           *)
(***************************************************************************)
FaultKinds == {"crash", "db", "archive", "sql", "timeout", "commitLost"}

Writers  == {"events", "txs"}
Handlers == Writers \cup {"chain"}
Attempts == 1..MaxAttempts
Tasks    == Attempts \X Handlers
Snapshots == 1..NumSnapshots

VARIABLES
    core,           \* the newest height in blocksync-core's database
    \* what Postgres holds
    blockHeight, rows, snapDone,
    \* the open transaction: nothing is pending while none is open
    pending,        \* rows inserted in it
    pendingHeight,  \* Chain.blockHeight as updated in it, 0 if not
    pendingSnaps,   \* snapshots finished in it
    aborted,        \* a statement of it failed: Postgres refuses the rest
    \* the loop
    pc, currentBlock, count, errorCount,
    nextSnap,       \* the snapshot whose ensure... call is next
    \* the handlers it started, by attempt: attempts before the last one
    \* that still run are stragglers
    attempt, taskBlock, next, state,
    faults          \* how many faults happened

store    == <<blockHeight, rows, snapDone>>
txn      == <<pending, pendingHeight, pendingSnaps, aborted>>
counters == <<currentBlock, count, errorCount, nextSnap>>
tasks    == <<attempt, taskBlock, next, state>>
vars     == <<core, store, txn, pc, counters, tasks, faults>>

Store == INSTANCE BlockStore
Blocks == Store!Blocks
Row    == Store!Row

NoRows == [r \in Row |-> 0]

ASSUME ConstantsAssumption ==
    /\ LastBlock \in Nat \ {0}
    /\ MaxWrites \in Nat
    /\ Writes \in [1..LastBlock -> [Writers -> 0..MaxWrites]]
    /\ NumSnapshots \in Nat
    /\ Cutoff \in [1..NumSnapshots -> Nat]
    /\ MaxFaults \in Nat
    /\ MaxAttempts \in Nat
    /\ PollLimit \in Nat
    /\ ErrorLimit \in Nat
    /\ Rejection \subseteq {"exit", "stall"}

----------------------------------------------------------------------------

Fault(kind) ==
    /\ kind \in Faults
    /\ faults < MaxFaults
    /\ faults' = faults + 1

NoTxn ==
    /\ pending' = NoRows
    /\ pendingHeight' = 0
    /\ pendingSnaps' = {}
    /\ aborted' = FALSE

\* currentPool holds the open transaction's client.
OnClient == pc \in {"snapshot", "handlers", "swept"}

\* The catch block: the transaction, if one is open, is rolled back, the
\* error counted and a pause taken.
Retry ==
    /\ NoTxn
    /\ pc' = "backoff"
    /\ count' = 0
    /\ errorCount' = errorCount + 1
    /\ UNCHANGED <<store, currentBlock, nextSnap, tasks>>

\* The process ends: its handlers with it, and Postgres rolls back.
Die ==
    /\ NoTxn
    /\ pc' = "down"
    /\ currentBlock' = 0 /\ count' = 0 /\ errorCount' = 0 /\ nextSnap' = 1
    /\ attempt' = 0
    /\ taskBlock' = [a \in Attempts |-> 0]
    /\ next' = [t \in Tasks |-> 1]
    /\ state' = [t \in Tasks |-> "idle"]
    /\ UNCHANGED store

Init ==
    /\ core = 0
    /\ blockHeight = 0 /\ rows = NoRows /\ snapDone = {}
    /\ pending = NoRows /\ pendingHeight = 0
    /\ pendingSnaps = {} /\ aborted = FALSE
    /\ pc = "down"
    /\ currentBlock = 0 /\ count = 0 /\ errorCount = 0 /\ nextSnap = 1
    /\ attempt = 0
    /\ taskBlock = [a \in Attempts |-> 0]
    /\ next = [t \in Tasks |-> 1]
    /\ state = [t \in Tasks |-> "idle"]
    /\ faults = 0

----------------------------------------------------------------------------
(* The environment. *)

\* blocksync-core stores the chain's next block.
CoreProduces ==
    /\ core < LastBlock
    /\ core' = core + 1
    /\ UNCHANGED <<store, txn, pc, counters, tasks, faults>>

Crash ==
    /\ pc # "down"
    /\ Fault("crash")
    /\ Die
    /\ UNCHANGED core

----------------------------------------------------------------------------
(* Start. *)

\* syncChain waits for blocksync-core and creates the Chain row with height 1.
SyncChain ==
    /\ pc = "down"
    /\ core > 0
    /\ blockHeight' = IF blockHeight = 0 THEN 1 ELSE blockHeight
    /\ pc' = "start"
    /\ UNCHANGED <<core, rows, snapDone, txn, counters, tasks, faults>>

\* Bugs: resuming at the stored block, resuming before it, skipping a block.
ResumeAtStored(h) == h
ResumeAtPrevious(h) == IF h > 1 THEN h - 1 ELSE h
ResumeTooFar(h) == h + 2

\* Where startSync resumes, given the stored height.
ResumeAt(h) == IF h # 1 THEN h + 1 ELSE h

StartSync ==
    /\ pc = "start"
    /\ currentBlock' = ResumeAt(blockHeight)
    /\ pc' = "fetch"
    /\ UNCHANGED <<core, store, txn, count, errorCount, nextSnap, tasks, faults>>

----------------------------------------------------------------------------
(* The loop, up to the block's transaction. *)

\* Bug: the newest block is taken to be incomplete still.
FetchBehind ==
    /\ pc = "fetch"
    /\ currentBlock < core
    /\ pc' = "ready"
    /\ nextSnap' = 1
    /\ UNCHANGED <<core, store, txn, currentBlock, count, errorCount, tasks, faults>>

FetchBlock ==
    /\ pc = "fetch"
    /\ currentBlock <= core
    /\ pc' = "ready"
    /\ nextSnap' = 1
    /\ UNCHANGED <<core, store, txn, currentBlock, count, errorCount, tasks, faults>>

\* Bug: the limit is compared after the increment.
PollOnceMore ==
    /\ pc = "fetch"
    /\ currentBlock > core
    /\ count <= PollLimit
    /\ count' = count + 1
    /\ UNCHANGED <<core, store, txn, pc, currentBlock, errorCount, nextSnap>>
    /\ UNCHANGED <<tasks, faults>>

\* getCoreBlock returns null: wait for the block, but not for ever.
PollAgain ==
    /\ pc = "fetch"
    /\ currentBlock > core
    /\ count < PollLimit
    /\ count' = count + 1
    /\ UNCHANGED <<core, store, txn, pc, currentBlock, errorCount, nextSnap>>
    /\ UNCHANGED <<tasks, faults>>

PollGivesUp ==
    /\ pc = "fetch"
    /\ currentBlock > core
    /\ count >= PollLimit
    /\ Retry
    /\ UNCHANGED <<core, faults>>

\* The block read, or BEGIN, fails.
LoopQueryFails ==
    /\ pc \in {"fetch", "ready"}
    /\ Fault("db")
    /\ Retry
    /\ UNCHANGED core

\* Bug: the snapshot is taken after the block at its cutoff.
NeedsSnapshotLate(s) ==
    Cutoff[s] # 0 /\ Cutoff[s] < currentBlock /\ s \notin snapDone

\* ensureDaodaoSnapshot and ensureV7Snapshot: is this one still to be taken?
NeedsSnapshot(s) == Store!DueAt(s, currentBlock) /\ s \notin snapDone

SkipSnapshot ==
    /\ pc = "ready"
    /\ nextSnap \in Snapshots
    /\ ~ NeedsSnapshot(nextSnap)
    /\ nextSnap' = nextSnap + 1
    /\ UNCHANGED <<core, store, txn, pc, currentBlock, count, errorCount>>
    /\ UNCHANGED <<tasks, faults>>

\* It runs in a transaction of its own, with currentPool set to its client.
BeginSnapshot ==
    /\ pc = "ready"
    /\ nextSnap \in Snapshots
    /\ NeedsSnapshot(nextSnap)
    /\ NoTxn
    /\ pc' = "snapshot"
    /\ UNCHANGED <<core, store, counters, tasks, faults>>

\* runSnapshot reads the archive, writes its rows and the completed_at mark.
TakeSnapshot ==
    /\ pc = "snapshot"
    /\ pendingSnaps = {}
    /\ ~ aborted
    /\ pendingSnaps' = {nextSnap}
    /\ UNCHANGED <<core, store, pending, pendingHeight, aborted>>
    /\ UNCHANGED <<pc, counters, tasks, faults>>

SnapshotFails ==
    /\ pc = "snapshot"
    /\ pendingSnaps = {}
    /\ \/ aborted /\ UNCHANGED faults
       \/ Fault("archive")
    /\ Retry
    /\ UNCHANGED core

\* Bug: the height is not part of what is committed with the block.
CommitRowsOnly ==
    /\ rows' = [r \in Row |-> rows[r] + pending[r]]
    /\ snapDone' = snapDone \cup pendingSnaps
    /\ UNCHANGED blockHeight

\* What COMMIT leaves behind.  Of an aborted transaction that is nothing, and
\* the caller sees no error: Postgres answers the COMMIT with ROLLBACK.
CommitTxn ==
    IF aborted
    THEN UNCHANGED store
    ELSE /\ rows' = [r \in Row |-> rows[r] + pending[r]]
         /\ blockHeight' = IF pendingHeight = 0 THEN blockHeight ELSE pendingHeight
         /\ snapDone' = snapDone \cup pendingSnaps

CommitSnapshot ==
    /\ pc = "snapshot"
    /\ pendingSnaps # {}
    /\ CommitTxn
    /\ NoTxn
    /\ nextSnap' = nextSnap + 1
    /\ pc' = "ready"
    /\ UNCHANGED <<core, currentBlock, count, errorCount, tasks, faults>>

----------------------------------------------------------------------------
(* The block's transaction. *)

\* A handler with nothing to write returns at once (no transactions, or no
\* event that leads to a row).
Starting(h) ==
    IF h = "chain" \/ Writes[currentBlock][h] = 0 THEN "done" ELSE "running"

\* BEGIN, and the three handlers start.  updateChain issues its one statement
\* at once, on the client; it succeeds unless "sql" strikes it.
StartHandlers ==
    /\ pc = "ready"
    /\ nextSnap \notin Snapshots
    /\ attempt < MaxAttempts
    /\ attempt' = attempt + 1
    /\ taskBlock' = [taskBlock EXCEPT ![attempt + 1] = currentBlock]
    /\ pc' = "handlers"
    /\ \/ /\ state' = [t \in Tasks |-> IF t[1] = attempt + 1 THEN Starting(t[2]) ELSE state[t]]
          /\ pendingHeight' = currentBlock
          /\ UNCHANGED <<aborted, faults>>
       \/ /\ Fault("sql")
          /\ state' = [t \in Tasks |-> IF t = <<attempt + 1, "chain">> THEN "failed"
                                       ELSE IF t[1] = attempt + 1 THEN Starting(t[2])
                                       ELSE state[t]]
          /\ aborted' = TRUE
          /\ UNCHANGED pendingHeight
    /\ UNCHANGED <<core, store, pending, pendingSnaps, counters, next>>

\* The row a task's next statement inserts.
RowOf(t) == [block |-> taskBlock[t[1]], handler |-> t[2], n |-> next[t]]

\* A unique key forbids it: the row is there, or pending on the connection.
Duplicate(r) == r \in Keyed /\ rows[r] + pending[r] > 0

\* dbQuery: the open transaction's client, or else the pool, which commits.
Insert(r) ==
    IF OnClient
    THEN pending' = [pending EXCEPT ![r] = @ + 1] /\ UNCHANGED rows
    ELSE rows' = [rows EXCEPT ![r] = @ + 1] /\ UNCHANGED pending

Refused(t) == (OnClient /\ aborted) \/ Duplicate(RowOf(t))

\* A handler's error rejects the handler, but syncTransactions only logs the
\* error of insertBlock and returns.
FailTask(t) ==
    /\ state' = [state EXCEPT ![t] = IF t[2] = "txs" THEN "done" ELSE "failed"]
    /\ UNCHANGED next

StatementSucceeds(t) ==
    /\ state[t] = "running"
    /\ ~ Refused(t)
    /\ Insert(RowOf(t))
    /\ next' = [next EXCEPT ![t] = @ + 1]
    /\ state' = [state EXCEPT ![t] =
                    IF next[t] = Writes[taskBlock[t[1]]][t[2]] THEN "done" ELSE @]
    /\ UNCHANGED <<core, blockHeight, snapDone, pendingHeight, pendingSnaps, aborted>>
    /\ UNCHANGED <<pc, counters, attempt, taskBlock, faults>>

StatementFails(t) ==
    /\ state[t] = "running"
    /\ \/ Refused(t) /\ UNCHANGED faults
       \/ Fault("sql")
    /\ aborted' = (OnClient \/ aborted)
    /\ FailTask(t)
    /\ UNCHANGED <<core, store, pending, pendingHeight, pendingSnaps>>
    /\ UNCHANGED <<pc, counters, attempt, taskBlock>>

\* query_timeout: the handler sees an error, the server executes the statement.
StatementTimesOut(t) ==
    /\ state[t] = "running"
    /\ ~ Refused(t)
    /\ Fault("timeout")
    /\ Insert(RowOf(t))
    /\ FailTask(t)
    /\ UNCHANGED <<core, blockHeight, snapDone, pendingHeight, pendingSnaps, aborted>>
    /\ UNCHANGED <<pc, counters, attempt, taskBlock>>

\* An error between statements.  syncTransactions decodes every message before
\* its first statement, outside the try that swallows.
HandlerThrows(t) ==
    /\ state[t] = "running"
    /\ t[2] = "events" \/ next[t] = 1
    /\ Fault("archive")
    /\ state' = [state EXCEPT ![t] = "failed"]
    /\ UNCHANGED <<core, store, txn, pc, counters, attempt, taskBlock, next>>

InState(s) == {h \in Handlers : state[<<attempt, h>>] = s}

\* Promise.all rejects as soon as one handler has; the others are not stopped.
AttemptFails ==
    /\ pc = "handlers"
    /\ InState("failed") # {}
    /\ Retry
    /\ UNCHANGED <<core, faults>>

\* Bug: syncTransactions is not awaited.
SweepEarly ==
    /\ pc = "handlers"
    /\ {"events", "chain"} \subseteq InState("done")
    /\ ~ aborted
    /\ pc' = "swept"
    /\ UNCHANGED <<core, store, txn, counters, tasks, faults>>

\* Promise.all resolves, and deleteExpiredAuthzGrants runs on the client.
Sweep ==
    /\ pc = "handlers"
    /\ InState("done") = Handlers
    /\ ~ aborted
    /\ pc' = "swept"
    /\ UNCHANGED <<core, store, txn, counters, tasks, faults>>

SweepFails ==
    /\ pc = "handlers"
    /\ InState("done") = Handlers
    /\ \/ aborted /\ UNCHANGED faults
       \/ Fault("db")
    /\ Retry
    /\ UNCHANGED core

Commit ==
    /\ pc = "swept"
    /\ CommitTxn
    /\ NoTxn
    /\ pc' = "fetch"
    /\ currentBlock' = currentBlock + 1
    /\ count' = 0 /\ errorCount' = 0
    /\ UNCHANGED <<core, nextSnap, tasks, faults>>

CommitFails ==
    /\ pc = "swept"
    /\ Fault("db")
    /\ Retry
    /\ UNCHANGED core

\* The COMMIT took effect, but the loop sees an error and retries the block.
CommitLost ==
    /\ pc = "swept"
    /\ Fault("commitLost")
    /\ CommitTxn
    /\ NoTxn
    /\ pc' = "backoff"
    /\ count' = 0
    /\ errorCount' = errorCount + 1
    /\ UNCHANGED <<core, currentBlock, nextSnap, tasks>>

----------------------------------------------------------------------------
(* After an error. *)

\* Bug: the error that reaches the limit is neither retried nor rethrown.
TryAgainBelow ==
    /\ pc = "backoff"
    /\ errorCount < ErrorLimit
    /\ pc' = "fetch"
    /\ UNCHANGED <<core, store, txn, counters, tasks, faults>>

TryAgain ==
    /\ pc = "backoff"
    /\ errorCount <= ErrorLimit
    /\ pc' = "fetch"
    /\ UNCHANGED <<core, store, txn, counters, tasks, faults>>

\* startSync rethrows.  Nobody handles the rejection: Node exits and the
\* supervisor restarts the process, ...
Exit ==
    /\ pc = "backoff"
    /\ errorCount > ErrorLimit
    /\ "exit" \in Rejection
    /\ Die
    /\ UNCHANGED <<core, faults>>

\* ... unless an error reporter's hook keeps it alive, without a sync loop.
Stall ==
    /\ pc = "backoff"
    /\ errorCount > ErrorLimit
    /\ "stall" \in Rejection
    /\ pc' = "stalled"
    /\ UNCHANGED <<core, store, txn, counters, tasks, faults>>

----------------------------------------------------------------------------

Starts == SyncChain \/ StartSync

Loop ==
    \/ FetchBlock \/ PollAgain \/ PollGivesUp
    \/ SkipSnapshot \/ BeginSnapshot \/ TakeSnapshot \/ CommitSnapshot
    \/ StartHandlers \/ AttemptFails \/ Sweep \/ Commit
    \/ TryAgain \/ Exit \/ Stall

Handler(t) == StatementSucceeds(t) \/ StatementFails(t) \/ StatementTimesOut(t)
                 \/ HandlerThrows(t)

LoopFaults ==
    Crash \/ LoopQueryFails \/ SnapshotFails \/ SweepFails \/ CommitFails \/ CommitLost

Next == CoreProduces \/ Starts \/ Loop \/ (\E t \in Tasks : Handler(t)) \/ LoopFaults

\* The supervisor restarts a dead process, Node runs what is ready to run, and
\* a statement or an archive query is answered or times out.  Nothing makes
\* blocksync-core produce a block or a fault happen.
Fairness ==
    /\ WF_vars(Starts)
    /\ WF_vars(Loop \/ SnapshotFails \/ SweepFails)
    /\ WF_vars(\E t \in Tasks : Handler(t))

Spec == Init /\ [][Next]_vars

FairSpec == Spec /\ Fairness

----------------------------------------------------------------------------

TypeOK ==
    /\ core \in 0..LastBlock
    /\ blockHeight \in 0..LastBlock
    /\ rows \in [Row -> Nat]
    /\ snapDone \subseteq Snapshots
    /\ pending \in [Row -> Nat]
    /\ pendingHeight \in 0..LastBlock
    /\ pendingSnaps \subseteq Snapshots
    /\ aborted \in BOOLEAN
    /\ pc \in {"down", "start", "fetch", "ready", "snapshot", "handlers",
               "swept", "backoff", "stalled"}
    /\ currentBlock \in 0..LastBlock + 1
    /\ count \in 0..PollLimit
    /\ errorCount \in Nat
    /\ nextSnap \in Nat \ {0}
    /\ attempt \in 0..MaxAttempts
    /\ taskBlock \in [Attempts -> 0..LastBlock]
    /\ next \in [Tasks -> Nat \ {0}]
    /\ state \in [Tasks -> {"idle", "running", "done", "failed"}]
    /\ faults \in 0..MaxFaults

\* The sync loop keeps the promise of the block store.
StoreSpec == Store!Spec

\* Every block up to the stored height has all of its rows: whatever path led
\* to the commit of a block, none of its handlers was cut short.  (Height 1 is
\* stored before block 1 is indexed.)
NoGap == blockHeight > 1 => Store!Complete(blockHeight)

\* Rows of a block can be visible before the block is, but what a failed
\* attempt leaves behind belongs to the one block being retried.
OrphansOfNextOnly == \A r \in Row : rows[r] > 0 => r.block <= blockHeight + 1

\* No committed block is skipped over and none is taken back.
HeightStepsByOne == [][blockHeight' = blockHeight + 1]_blockHeight

\* The stored height never falls, whichever attempt's updateChain is committed
\* last and even where a block is lost.
HeightNeverFalls == [][blockHeight' >= blockHeight]_blockHeight

\* A snapshot is complete before the first block at or above its cutoff is.
SnapshotFirst ==
    blockHeight > 1 => \A s \in Snapshots : Store!DueAt(s, blockHeight) => s \in snapDone

\* Once blocksync-core has a block, the block gets indexed, whatever finitely
\* many faults do in between.
EventuallyIndexed ==
    \A b \in Blocks : core >= b ~> (blockHeight >= b /\ Store!Complete(b))

\* The weaker promise: the loop gets past every block blocksync-core has, it
\* does not retry one for ever.  It survives every kind of fault, unless a row
\* that was left behind is under a unique key.
SyncKeepsGoing == \A b \in Blocks : core >= b ~> blockHeight >= b
===============================================================================
