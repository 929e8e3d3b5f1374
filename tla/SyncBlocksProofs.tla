--------------------------- MODULE SyncBlocksProofs ---------------------------
(***************************************************************************)
(* What TLAPS proves of SyncBlocks for every chain, every number of faults *)
(* and every limit.                                                        *)
(*                                                                         *)
(* 1. Spec keeps TypeOK, under all fault kinds.                            *)
(* 2. If no statement is refused (no "sql" and "timeout" faults, no unique *)
(*    keys), then every stored block is complete, blocks are stored one by *)
(*    one, snapshots come first and what failed attempts leave behind is   *)
(*    of the next block only, stragglers and lost COMMIT answers           *)
(*    notwithstanding.                                                     *)
(* 3. If handlers do not fail (only "crash" and "db" faults), then the     *)
(*    loop implements BlockStore: every block is applied atomically, in    *)
(*    order and once.                                                      *)
(* 4. The stored height never falls, under all fault kinds.                *)
(***************************************************************************)
EXTENDS SyncBlocks, TLAPS

InLoop == {"fetch", "ready", "snapshot", "handlers", "swept", "backoff", "stalled"}
HasBlock == {"ready", "snapshot", "handlers", "swept"}
HasTxn == {"handlers", "swept"}

\* The block the loop is at exists once it is fetched.
LoopInv ==
    /\ pc \in InLoop => currentBlock \in 1..LastBlock + 1
    /\ pc \in HasBlock => currentBlock <= core
    /\ pc = "snapshot" => nextSnap \in Snapshots

\* A handler's progress: it is done exactly when it has no statement left.
TaskInv ==
    /\ \A t \in Tasks : (t[2] \in Writers /\ state[t] # "idle") =>
        /\ taskBlock[t[1]] \in Blocks
        /\ state[t] = "running" => next[t] <= Writes[taskBlock[t[1]]][t[2]]
        /\ state[t] = "done" => next[t] = Writes[taskBlock[t[1]]][t[2]] + 1
    /\ \A t \in Tasks : t[1] > attempt => state[t] = "idle" /\ next[t] = 1
    /\ pc \in HasTxn => attempt >= 1 /\ taskBlock[attempt] = currentBlock
    /\ pc = "swept" => InState("done") = Handlers
    /\ pc \in HasTxn => \A h \in Handlers : state[<<attempt, h>>] # "idle"

\* The snapshots that had to come before the loop's block are there.
DoneBefore(n) ==
    \A s \in Snapshots : s < n /\ Store!DueAt(s, currentBlock) => s \in snapDone

SnapInv ==
    /\ pc \in {"ready", "snapshot"} => DoneBefore(nextSnap)
    /\ pc = "snapshot" => NeedsSnapshot(nextSnap) /\ pendingSnaps \subseteq {nextSnap}
    /\ pc # "snapshot" => pendingSnaps = {}
    /\ pc \in HasTxn => DoneBefore(NumSnapshots + 1)

\* The open transaction moves the height to the loop's block, or nowhere.
TxnInv ==
    /\ ~ aborted
    /\ pendingHeight = IF pc \in HasTxn THEN currentBlock ELSE 0

----------------------------------------------------------------------------
(* Complete blocks, in spite of stragglers. *)

NothingRefused == Faults \cap {"sql", "timeout"} = {} /\ Keyed = {}

\* What this attempt's handlers wrote is pending, whatever else is.
AtLeastWritten ==
    pc \in HasTxn => \A r \in Row :
        r.block = currentBlock /\ r.n < next[<<attempt, r.handler>>] => pending[r] >= 1

\* The loop is at the stored block (its COMMIT answer was lost, or it is block
\* 1) or at the next one, and all blocks before are complete.
CompleteInv ==
    /\ pc # "down" => blockHeight >= 1
    /\ blockHeight > 1 => Store!Complete(blockHeight)
    /\ pc \in InLoop => /\ currentBlock \in {blockHeight, blockHeight + 1}
                        /\ Store!Complete(currentBlock - 1)

GapInv ==
    /\ TypeOK /\ LoopInv /\ TaskInv /\ SnapInv /\ TxnInv
    /\ AtLeastWritten /\ CompleteInv /\ SnapshotFirst

----------------------------------------------------------------------------
(* Blocks applied once. *)

HandlersDoNotFail ==
    /\ Faults \subseteq {"crash", "db"}
    /\ \A r \in Keyed : r.block # 1

NoStraggler ==
    \A t \in Tasks : /\ state[t] # "failed"
                     /\ state[t] = "running" =>
                            pc = "handlers" /\ t[1] = attempt /\ t[2] \in Writers

\* The transaction holds what this attempt's handlers wrote and nothing else.
ExactlyWritten ==
    \A r \in Row : pending[r] =
        IF pc \in HasTxn /\ r.block = currentBlock /\ r.n < next[<<attempt, r.handler>>]
        THEN 1 ELSE 0

OnceInv ==
    /\ pc # "down" => blockHeight >= 1
    /\ \A r \in Row : r.block > 1 => rows[r] = IF r.block <= blockHeight THEN 1 ELSE 0
    /\ pc \in InLoop => \/ currentBlock = 1 /\ blockHeight = 1
                        \/ currentBlock = blockHeight + 1 /\ Store!Complete(blockHeight)
    /\ blockHeight > 1 => Store!Complete(blockHeight)

StoreInv ==
    /\ TypeOK /\ LoopInv /\ TaskInv /\ SnapInv /\ TxnInv
    /\ NoStraggler /\ ExactlyWritten /\ OnceInv
----------------------------------------------------------------------------
(* Type correctness. *)

\* The next-state relation, one disjunct for each action.
LEMMA NextCases ==
    ASSUME Next
    PROVE  \/ CoreProduces \/ Crash \/ SyncChain \/ StartSync
           \/ FetchBlock \/ PollAgain \/ PollGivesUp \/ LoopQueryFails
           \/ SkipSnapshot \/ BeginSnapshot \/ TakeSnapshot \/ SnapshotFails
           \/ CommitSnapshot \/ StartHandlers
           \/ \E t \in Tasks : StatementSucceeds(t)
           \/ \E t \in Tasks : StatementFails(t)
           \/ \E t \in Tasks : StatementTimesOut(t)
           \/ \E t \in Tasks : HandlerThrows(t)
           \/ AttemptFails \/ Sweep \/ SweepFails
           \/ Commit \/ CommitFails \/ CommitLost \/ TryAgain \/ Exit \/ Stall
BY DEF Next, Starts, Loop, Handler, LoopFaults

\* A transaction that is over has nothing pending.
LEMMA TxnType ==
    ASSUME NoTxn
    PROVE  /\ pending' \in [Row -> Nat]
           /\ pendingHeight' = 0
           /\ pendingSnaps' = {}
           /\ aborted' = FALSE
BY DEF NoTxn, NoRows

\* No handler runs before the process starts and after it dies.
LEMMA IdleType ==
    /\ [a \in Attempts |-> 0] \in [Attempts -> 0..LastBlock]
    /\ [t \in Tasks |-> 1] \in [Tasks -> Nat \ {0}]
    /\ [t \in Tasks |-> "idle"] \in [Tasks -> {"idle", "running", "done", "failed"}]
BY ConstantsAssumption

\* A new process has a clean task table.
LEMMA DieType ==
    ASSUME TypeOK, Die
    PROVE  /\ taskBlock' \in [Attempts -> 0..LastBlock]
           /\ next' \in [Tasks -> Nat \ {0}]
           /\ state' \in [Tasks -> {"idle", "running", "done", "failed"}]
BY IdleType DEF Die

\* One more row, in the transaction or through the pool.
LEMMA InsertType ==
    ASSUME TypeOK, NEW r, Insert(r)
    PROVE  rows' \in [Row -> Nat] /\ pending' \in [Row -> Nat]
<1>1. ASSUME NEW f \in [Row -> Nat]
      PROVE  [f EXCEPT ![r] = f[r] + 1] \in [Row -> Nat]
  <2>1. ASSUME NEW x \in Row PROVE [f EXCEPT ![r] = f[r] + 1][x] \in Nat
    BY <2>1
  <2> QED
    BY <2>1
<1> QED
  BY <1>1 DEF Insert, TypeOK

\* The first state is well typed, with no process running.
LEMMA InitType == Init => TypeOK /\ LoopInv
<1> SUFFICES ASSUME Init PROVE TypeOK /\ LoopInv
  OBVIOUS
<1>1. NoRows \in [Row -> Nat]
  BY DEF NoRows
<1>2. /\ taskBlock \in [Attempts -> 0..LastBlock]
      /\ next \in [Tasks -> Nat \ {0}]
      /\ state \in [Tasks -> {"idle", "running", "done", "failed"}]
  BY IdleType DEF Init
<1>3. rows \in [Row -> Nat] /\ pending \in [Row -> Nat]
  BY <1>1 DEF Init
<1>4. /\ core = 0 /\ blockHeight = 0 /\ snapDone = {} /\ pendingHeight = 0
      /\ pendingSnaps = {} /\ aborted = FALSE /\ pc = "down" /\ currentBlock = 0
      /\ count = 0 /\ errorCount = 0 /\ nextSnap = 1 /\ attempt = 0 /\ faults = 0
  BY DEF Init
<1>5. 0 \in 0..LastBlock /\ 0 \in 0..LastBlock + 1 /\ 0 \in 0..PollLimit
      /\ 0 \in 0..MaxAttempts /\ 0 \in 0..MaxFaults
  BY ConstantsAssumption
<1>6. /\ core \in 0..LastBlock /\ blockHeight \in 0..LastBlock
      /\ snapDone \subseteq Snapshots /\ pendingHeight \in 0..LastBlock
      /\ pendingSnaps \subseteq Snapshots /\ aborted \in BOOLEAN
  BY <1>4, <1>5
<1>8. pc \in {"down", "start", "fetch", "ready", "snapshot", "handlers",
             "swept", "backoff", "stalled"}
  BY <1>4
<1>9. /\ currentBlock \in 0..LastBlock + 1 /\ count \in 0..PollLimit
      /\ errorCount \in Nat /\ nextSnap \in Nat \ {0}
      /\ attempt \in 0..MaxAttempts /\ faults \in 0..MaxFaults
  BY <1>4, <1>5
<1>10. TypeOK
  BY <1>2, <1>3, <1>6, <1>8, <1>9 DEF TypeOK
<1>11. LoopInv
  BY <1>4 DEF LoopInv, InLoop, HasBlock
<1> QED
  BY <1>10, <1>11

\* Every step keeps the types and the place of the loop's block.
LEMMA StepType ==
    ASSUME TypeOK, LoopInv, [Next]_vars
    PROVE  TypeOK' /\ LoopInv'
<1> USE ConstantsAssumption DEF TypeOK, LoopInv, InLoop, HasBlock
<1>1. CASE CoreProduces
  BY <1>1 DEF CoreProduces, store, txn, counters, tasks
<1>2. CASE Crash
  BY TxnType, DieType, <1>2 DEF Crash, Die, Fault, store
<1>3. CASE SyncChain
  BY <1>3 DEF SyncChain, txn, counters, tasks
<1>4. CASE StartSync
  BY <1>4 DEF StartSync, ResumeAt, store, txn, tasks
<1>5. CASE FetchBlock
  BY <1>5 DEF FetchBlock, store, txn, tasks
<1>6. CASE PollAgain
  BY <1>6 DEF PollAgain, store, txn, tasks
<1>7. CASE PollGivesUp
  BY TxnType, <1>7 DEF PollGivesUp, Retry, store, tasks
<1>8. CASE LoopQueryFails
  BY TxnType, <1>8 DEF LoopQueryFails, Fault, Retry, store, tasks
<1>9. CASE SkipSnapshot
  BY <1>9 DEF SkipSnapshot, store, txn, tasks
<1>10. CASE BeginSnapshot
  BY TxnType, <1>10 DEF BeginSnapshot, store, counters, tasks
<1>11. CASE TakeSnapshot
  BY <1>11 DEF TakeSnapshot, store, counters, tasks
<1>12. CASE SnapshotFails
  BY TxnType, <1>12 DEF SnapshotFails, Fault, Retry, store, tasks
<1>13. CASE CommitSnapshot
  BY TxnType, <1>13 DEF CommitSnapshot, CommitTxn, store, tasks
<1>14. CASE StartHandlers
  <2>1. state' \in [Tasks -> {"idle", "running", "done", "failed"}]
    <3>1. \A t \in Tasks : Starting(t[2]) \in {"done", "running"}
      BY DEF Starting
    <3>2. \A t \in Tasks : state[t] \in {"idle", "running", "done", "failed"}
      OBVIOUS
    <3> QED
      BY <1>14, <3>1, <3>2 DEF StartHandlers
  <2>2. taskBlock' \in [Attempts -> 0..LastBlock]
    <3>1. currentBlock \in 0..LastBlock
      BY <1>14 DEF StartHandlers
    <3> QED
      BY <1>14, <3>1 DEF StartHandlers
  <2>3. /\ attempt' \in 0..MaxAttempts /\ faults' \in 0..MaxFaults
        /\ aborted' \in BOOLEAN /\ pendingHeight' \in 0..LastBlock
    <3>1. attempt' \in 0..MaxAttempts
      BY <1>14 DEF StartHandlers
    <3>2. faults' \in 0..MaxFaults
      BY <1>14 DEF StartHandlers, Fault
    <3>3. aborted' \in BOOLEAN
      BY <1>14 DEF StartHandlers
    <3>4. pendingHeight' \in 0..LastBlock
      BY <1>14 DEF StartHandlers
    <3> QED
      BY <3>1, <3>2, <3>3, <3>4
  <2>4. pc' = "handlers" /\ pc = "ready"
    BY <1>14 DEF StartHandlers
  <2>5. UNCHANGED <<core, blockHeight, rows, snapDone, pending, pendingSnaps,
                    currentBlock, count, errorCount, nextSnap, next>>
    BY <1>14 DEF StartHandlers, store, counters
  <2>6. nextSnap' \in Nat \ {0} /\ currentBlock' \in 0..LastBlock + 1
        /\ rows' \in [Row -> Nat] /\ pending' \in [Row -> Nat]
    BY <2>5
  <2>7. /\ core' \in 0..LastBlock /\ blockHeight' \in 0..LastBlock
        /\ snapDone' \subseteq Snapshots /\ pendingSnaps' \subseteq Snapshots
        /\ count' \in 0..PollLimit /\ errorCount' \in Nat
        /\ next' \in [Tasks -> Nat \ {0}]
    BY <2>5
  <2>8. TypeOK'
    <3> HIDE DEF LoopInv
    <3>1. pc' \in {"down", "start", "fetch", "ready", "snapshot", "handlers",
                   "swept", "backoff", "stalled"}
      BY <2>4
    <3> HIDE DEF TypeOK
    <3> QED
      BY <2>1, <2>2, <2>3, <2>6, <2>7, <3>1 DEF TypeOK
  <2>9. LoopInv'
    BY <2>4, <2>5
  <2> QED
    BY <2>8, <2>9
<1>15. ASSUME NEW t \in Tasks, StatementSucceeds(t) PROVE TypeOK' /\ LoopInv'
  <2>1. rows' \in [Row -> Nat] /\ pending' \in [Row -> Nat]
    BY <1>15, InsertType DEF StatementSucceeds
  <2>2. next' \in [Tasks -> Nat \ {0}]
    BY <1>15 DEF StatementSucceeds
  <2>3. state' \in [Tasks -> {"idle", "running", "done", "failed"}]
    BY <1>15 DEF StatementSucceeds
  <2> QED
    BY <1>15, <2>1, <2>2, <2>3 DEF StatementSucceeds, counters
<1>16. ASSUME NEW t \in Tasks, StatementFails(t) PROVE TypeOK' /\ LoopInv'
  BY <1>16 DEF StatementFails, FailTask, Fault, OnClient, store, counters
<1>17. ASSUME NEW t \in Tasks, StatementTimesOut(t) PROVE TypeOK' /\ LoopInv'
  <2>1. rows' \in [Row -> Nat] /\ pending' \in [Row -> Nat]
    BY <1>17, InsertType DEF StatementTimesOut
  <2> QED
    BY <1>17, <2>1 DEF StatementTimesOut, FailTask, Fault, counters
<1>18. ASSUME NEW t \in Tasks, HandlerThrows(t) PROVE TypeOK' /\ LoopInv'
  BY <1>18 DEF HandlerThrows, Fault, store, txn, counters
<1>19. CASE AttemptFails
  BY TxnType, <1>19 DEF AttemptFails, Retry, store, tasks
<1>20. CASE Sweep
  BY <1>20 DEF Sweep, store, txn, counters, tasks
<1>21. CASE SweepFails
  BY TxnType, <1>21 DEF SweepFails, Fault, Retry, store, tasks
<1>22. CASE Commit
  BY TxnType, <1>22 DEF Commit, CommitTxn, store, tasks
<1>23. CASE CommitFails
  BY TxnType, <1>23 DEF CommitFails, Fault, Retry, store, tasks
<1>24. CASE CommitLost
  BY TxnType, <1>24 DEF CommitLost, Fault, CommitTxn, store, tasks
<1>25. CASE TryAgain
  BY <1>25 DEF TryAgain, store, txn, counters, tasks
<1>26. CASE Exit
  BY TxnType, DieType, <1>26 DEF Exit, Die, store
<1>27. CASE Stall
  BY <1>27 DEF Stall, store, txn, counters, tasks
<1>28. CASE UNCHANGED vars
  BY <1>28 DEF vars, store, txn, counters, tasks
<1> QED
  BY NextCases, <1>1, <1>2, <1>3, <1>4, <1>5, <1>6, <1>7, <1>8, <1>9, <1>10, <1>11,
     <1>12, <1>13, <1>14, <1>15, <1>16, <1>17, <1>18, <1>19, <1>20, <1>21, <1>22,
     <1>23, <1>24, <1>25, <1>26, <1>27, <1>28

\* The types hold in every reachable state, whatever faults occur.
THEOREM TypeCorrect == Spec => []TypeOK
BY InitType, StepType, PTL DEF Spec

----------------------------------------------------------------------------
(* The steps of a process whose statements are not refused. *)

\* No statement fails in Postgres or outlives its client.
Quiet ==
    /\ "sql" \notin Faults /\ "timeout" \notin Faults
    /\ ~ aborted
    /\ \A t \in Tasks : state[t] = "running" => ~ Duplicate(RowOf(t))

\* The catch block is one step, whatever led to it.
LEMMA QuietCases ==
    ASSUME Quiet, Next
    PROVE  \/ CoreProduces
           \/ Die /\ core' = core
           \/ SyncChain \/ StartSync \/ FetchBlock \/ PollAgain
           \/ Retry /\ core' = core /\ pc \in InLoop
           \/ SkipSnapshot \/ BeginSnapshot \/ TakeSnapshot \/ CommitSnapshot
           \/ StartHandlers
           \/ \E t \in Tasks : StatementSucceeds(t)
           \/ \E t \in Tasks : HandlerThrows(t)
           \/ Sweep \/ Commit \/ CommitLost \/ TryAgain \/ Stall
<1>1. ASSUME NEW t \in Tasks PROVE ~ StatementFails(t) /\ ~ StatementTimesOut(t)
  BY DEF Quiet, StatementFails, StatementTimesOut, Refused, Fault
<1>2. Crash \/ Exit => Die /\ core' = core
  BY DEF Crash, Exit
<1>3. PollGivesUp \/ LoopQueryFails \/ SnapshotFails \/ AttemptFails
      \/ SweepFails \/ CommitFails => Retry /\ core' = core /\ pc \in InLoop
  BY DEF InLoop, PollGivesUp, LoopQueryFails, SnapshotFails, AttemptFails, SweepFails, CommitFails
<1> QED
  BY NextCases, <1>1, <1>2, <1>3

\* updateChain's statement succeeds.
LEMMA QuietStart ==
    ASSUME Quiet, StartHandlers
    PROVE  /\ state' = [t \in Tasks |-> IF t[1] = attempt + 1 THEN Starting(t[2])
                                       ELSE state[t]]
           /\ pendingHeight' = currentBlock
           /\ aborted' = aborted
BY DEF Quiet, StartHandlers, Fault

----------------------------------------------------------------------------
(* The handlers' progress. *)

\* A step that neither starts nor moves a handler keeps the handlers' progress.
LEMMA TaskFrame ==
    ASSUME TaskInv, UNCHANGED tasks,
           pc' \in HasTxn => pc' = pc /\ currentBlock' = currentBlock
    PROVE  TaskInv'
BY DEF TaskInv, tasks, HasTxn, InState

\* After the process ends there is no handler.
LEMMA TaskDies ==
    ASSUME Die
    PROVE  TaskInv'
<1>1. \A t \in Tasks : state'[t] = "idle" /\ next'[t] = 1
  BY DEF Die
<1>2. pc' = "down"
  BY DEF Die
<1> QED
  BY <1>1, <1>2 DEF TaskInv, HasTxn

\* Starting the handlers of a block puts each at its first statement.
LEMMA TaskStarts ==
    ASSUME TypeOK, LoopInv, TaskInv, Quiet, StartHandlers
    PROVE  TaskInv'
<1>1. /\ attempt' = attempt + 1 /\ attempt \in Nat
      /\ taskBlock' = [taskBlock EXCEPT ![attempt + 1] = currentBlock]
      /\ state' = [t \in Tasks |-> IF t[1] = attempt + 1 THEN Starting(t[2])
                                   ELSE state[t]]
      /\ next' = next /\ currentBlock' = currentBlock /\ pc' = "handlers"
      /\ attempt + 1 \in Attempts
  <2>1. attempt' = attempt + 1 /\ attempt \in Nat /\ attempt + 1 \in Attempts
    BY ConstantsAssumption DEF StartHandlers, TypeOK, Attempts
  <2>2. taskBlock' = [taskBlock EXCEPT ![attempt + 1] = currentBlock]
    BY DEF StartHandlers
  <2>3. next' = next /\ currentBlock' = currentBlock /\ pc' = "handlers"
    BY DEF StartHandlers, counters
  <2> QED
    BY QuietStart, <2>1, <2>2, <2>3
<1>2. currentBlock \in Blocks
  BY ConstantsAssumption DEF LoopInv, HasBlock, InLoop, StartHandlers, TypeOK, Blocks, Store!Blocks
<1>3. taskBlock'[attempt + 1] = currentBlock
  BY <1>1 DEF TypeOK
<1>4. ASSUME NEW t \in Tasks, t[2] \in Writers, state'[t] # "idle"
      PROVE  /\ taskBlock'[t[1]] \in Blocks
             /\ state'[t] = "running" => next'[t] <= Writes[taskBlock'[t[1]]][t[2]]
             /\ state'[t] = "done" => next'[t] = Writes[taskBlock'[t[1]]][t[2]] + 1
  <2>1. CASE t[1] = attempt + 1
    <3>1. state'[t] = Starting(t[2]) /\ next'[t] = 1
      BY <1>1, <2>1 DEF TaskInv, TypeOK
    <3>2. Writes[currentBlock][t[2]] \in Nat
      BY ConstantsAssumption, <1>2, <1>4 DEF Blocks, Store!Blocks
    <3>3. t[2] # "chain"
      BY <1>4 DEF Writers
    <3> QED
      BY <1>2, <1>3, <2>1, <3>1, <3>2, <3>3 DEF Starting
  <2>2. CASE t[1] # attempt + 1
    <3>1. state'[t] = state[t] /\ next'[t] = next[t] /\ taskBlock'[t[1]] = taskBlock[t[1]]
      BY <1>1, <2>2 DEF TypeOK, Tasks
    <3> QED
      BY <1>4, <3>1 DEF TaskInv
  <2> QED
    BY <2>1, <2>2
<1>5. ASSUME NEW t \in Tasks, t[1] > attempt'
      PROVE  state'[t] = "idle" /\ next'[t] = 1
  <2>1. t[1] > attempt /\ t[1] # attempt + 1
    BY <1>1, <1>5 DEF Tasks, Attempts
  <2> QED
    BY <1>1, <2>1 DEF TaskInv
<1>6. ASSUME NEW h \in Handlers PROVE state'[<<attempt', h>>] # "idle"
  BY <1>1 DEF Starting, Tasks
<1>7. attempt' >= 1 /\ taskBlock'[attempt'] = currentBlock'
  BY <1>1, <1>3
<1>8. pc' # "swept"
  BY <1>1
<1> QED
  <2>1. \A t \in Tasks : (t[2] \in Writers /\ state'[t] # "idle") =>
          /\ taskBlock'[t[1]] \in Blocks
          /\ state'[t] = "running" => next'[t] <= Writes[taskBlock'[t[1]]][t[2]]
          /\ state'[t] = "done" => next'[t] = Writes[taskBlock'[t[1]]][t[2]] + 1
    BY <1>4
  <2>2. \A t \in Tasks : t[1] > attempt' => state'[t] = "idle" /\ next'[t] = 1
    BY <1>5
  <2>3. \A h \in Handlers : state'[<<attempt', h>>] # "idle"
    BY <1>6
  <2> QED
    BY <2>1, <2>2, <2>3, <1>7, <1>8 DEF TaskInv

\* A statement moves its own handler by one and no other.
LEMMA TaskSucceeds ==
    ASSUME TypeOK, TaskInv, NEW t \in Tasks, StatementSucceeds(t)
    PROVE  TaskInv'
<1> DEFINE last == Writes[taskBlock[t[1]]][t[2]]
<1>1. /\ state[t] = "running"
      /\ next' = [next EXCEPT ![t] = next[t] + 1]
      /\ state' = [state EXCEPT ![t] = IF next[t] = last THEN "done" ELSE state[t]]
  BY DEF StatementSucceeds
<1>2. UNCHANGED <<pc, currentBlock, attempt, taskBlock>>
  BY DEF StatementSucceeds, counters
<1>3. \A u \in Tasks : u # t => next'[u] = next[u] /\ state'[u] = state[u]
  BY <1>1 DEF TypeOK
<1>4. /\ next'[t] = next[t] + 1 /\ next[t] \in Nat
      /\ state'[t] = IF next[t] = last THEN "done" ELSE "running"
  BY <1>1 DEF TypeOK
<1>5. ASSUME NEW u \in Tasks, u[2] \in Writers, state'[u] # "idle"
      PROVE  /\ taskBlock'[u[1]] \in Blocks
             /\ state'[u] = "running" => next'[u] <= Writes[taskBlock'[u[1]]][u[2]]
             /\ state'[u] = "done" => next'[u] = Writes[taskBlock'[u[1]]][u[2]] + 1
  <2>1. CASE u = t
    <3>1. taskBlock[t[1]] \in Blocks /\ next[t] <= last
      BY <1>1, <1>5, <2>1 DEF TaskInv
    <3>2. last \in Nat
      BY ConstantsAssumption, <1>5, <2>1, <3>1 DEF Blocks, Store!Blocks
    <3> QED
      BY <1>2, <1>4, <2>1, <3>1, <3>2
  <2>2. CASE u # t
    BY <1>2, <1>3, <1>5, <2>2 DEF TaskInv
  <2> QED
    BY <2>1, <2>2
<1>6. ASSUME NEW u \in Tasks, u[1] > attempt'
      PROVE  state'[u] = "idle" /\ next'[u] = 1
  <2>1. u # t
    BY <1>1, <1>2, <1>6 DEF TaskInv
  <2> QED
    BY <1>2, <1>3, <1>6, <2>1 DEF TaskInv
<1>7. pc' \in HasTxn => attempt' >= 1 /\ taskBlock'[attempt'] = currentBlock'
  BY <1>2 DEF TaskInv
<1>8. ASSUME pc' \in HasTxn, NEW h \in Handlers PROVE state'[<<attempt', h>>] # "idle"
  <2>1. state[<<attempt, h>>] # "idle"
    BY <1>2, <1>8 DEF TaskInv
  <2>2. <<attempt, h>> \in Tasks
    BY <1>2, <1>8 DEF TaskInv, TypeOK, Tasks, Attempts, HasTxn
  <2> QED
    BY <1>2, <1>3, <1>4, <2>1, <2>2
<1>9. ASSUME pc' = "swept", NEW h \in Handlers PROVE state'[<<attempt', h>>] = "done"
  <2>1. state[<<attempt, h>>] = "done"
    BY <1>2, <1>9 DEF TaskInv, InState
  <2>2. <<attempt, h>> \in Tasks
    BY <1>2, <1>9 DEF TaskInv, TypeOK, Tasks, Attempts, HasTxn
  <2> QED
    BY <1>1, <1>2, <1>3, <2>1, <2>2
<1>10. pc' = "swept" => InState("done")' = Handlers
  BY <1>9 DEF InState
<1> QED
  <2>1. \A u \in Tasks : (u[2] \in Writers /\ state'[u] # "idle") =>
          /\ taskBlock'[u[1]] \in Blocks
          /\ state'[u] = "running" => next'[u] <= Writes[taskBlock'[u[1]]][u[2]]
          /\ state'[u] = "done" => next'[u] = Writes[taskBlock'[u[1]]][u[2]] + 1
    BY <1>5
  <2>2. \A u \in Tasks : u[1] > attempt' => state'[u] = "idle" /\ next'[u] = 1
    BY <1>6
  <2> QED
    BY <2>1, <2>2, <1>7, <1>8, <1>10 DEF TaskInv

\* A handler that throws stays where it was.
LEMMA TaskThrows ==
    ASSUME TypeOK, TaskInv, NEW t \in Tasks, HandlerThrows(t)
    PROVE  TaskInv'
<1>1. /\ state[t] = "running"
      /\ state' = [state EXCEPT ![t] = "failed"]
  BY DEF HandlerThrows
<1>2. UNCHANGED <<pc, currentBlock, attempt, taskBlock, next>>
  BY DEF HandlerThrows, counters
<1>3. state'[t] = "failed" /\ \A u \in Tasks : u # t => state'[u] = state[u]
  BY <1>1 DEF TypeOK
<1>4. pc' = "swept" => InState("done")' = Handlers
  BY <1>1, <1>2, <1>3 DEF TaskInv, InState, TypeOK
<1> QED
  BY <1>1, <1>2, <1>3, <1>4 DEF TaskInv

\* Every quiet step keeps the handlers' progress.
LEMMA TaskStep ==
    ASSUME TypeOK, LoopInv, TaskInv, Quiet, [Next]_vars
    PROVE  TaskInv'
<1>1. CASE Die
  BY <1>1, TaskDies
<1>2. CASE StartHandlers
  BY <1>2, TaskStarts
<1>3. CASE \E t \in Tasks : StatementSucceeds(t) \/ HandlerThrows(t)
  BY <1>3, TaskSucceeds, TaskThrows
<1>4. CASE Sweep
  BY <1>4 DEF Sweep, TaskInv, counters, tasks, HasTxn, InState
<1>5. CASE UNCHANGED vars
  BY <1>5, TaskFrame DEF vars, counters
<1>6. CASE CoreProduces
  BY <1>6, TaskFrame DEF CoreProduces, counters
<1>7. CASE SyncChain \/ StartSync \/ FetchBlock \/ PollAgain \/ SkipSnapshot
           \/ BeginSnapshot \/ TakeSnapshot \/ CommitSnapshot
  BY <1>7, TaskFrame DEF SyncChain, StartSync, FetchBlock, PollAgain, SkipSnapshot,
     BeginSnapshot, TakeSnapshot, CommitSnapshot, HasTxn
<1>8. CASE Retry \/ Commit \/ CommitLost \/ TryAgain \/ Stall
  BY <1>8, TaskFrame DEF Retry, Commit, CommitLost, TryAgain, Stall, HasTxn
<1> QED
  BY QuietCases, <1>1, <1>2, <1>3, <1>4, <1>5, <1>6, <1>7, <1>8

----------------------------------------------------------------------------
(* The snapshots and the open transaction. *)

\* Every quiet step keeps the order of snapshots and blocks.
LEMMA SnapStep ==
    ASSUME TypeOK, LoopInv, SnapInv, Quiet, [Next]_vars
    PROVE  SnapInv'
<1> USE ConstantsAssumption DEF SnapInv, DoneBefore, HasTxn, Snapshots, NeedsSnapshot
<1>1. CASE Die
  BY <1>1, TxnType DEF Die
<1>2. CASE Retry
  BY <1>2, TxnType DEF Retry
<1>3. CASE FetchBlock
  BY <1>3 DEF FetchBlock, txn
<1>4. CASE SkipSnapshot
  <2>1. /\ nextSnap' = nextSnap + 1 /\ nextSnap \in Nat
        /\ pc = "ready" /\ ~ NeedsSnapshot(nextSnap)
        /\ UNCHANGED <<pc, currentBlock, snapDone, pendingSnaps>>
    BY <1>4 DEF SkipSnapshot, store, txn, TypeOK
  <2>2. \A s \in Snapshots : s < nextSnap' => s < nextSnap \/ s = nextSnap
    BY <2>1
  <2> QED
    BY <2>1, <2>2 DEF NeedsSnapshot
<1>5. CASE BeginSnapshot
  BY <1>5, TxnType DEF BeginSnapshot, store, counters
<1>6. CASE TakeSnapshot
  BY <1>6 DEF TakeSnapshot, store, counters
<1>7. CASE CommitSnapshot
  <2>1. /\ nextSnap' = nextSnap + 1 /\ nextSnap \in Nat
        /\ pc = "snapshot" /\ pc' = "ready"
        /\ currentBlock' = currentBlock /\ pendingSnaps' = {}
    BY <1>7, TxnType DEF CommitSnapshot, TypeOK
  <2>2. nextSnap \in snapDone' /\ snapDone \subseteq snapDone'
    BY <1>7 DEF CommitSnapshot, CommitTxn, Quiet
  <2>3. \A s \in Snapshots : s < nextSnap' => s < nextSnap \/ s = nextSnap
    BY <2>1
  <2> QED
    BY <2>1, <2>2, <2>3
<1>8. CASE StartHandlers
  <2>1. /\ nextSnap \notin 1..NumSnapshots
        /\ UNCHANGED <<currentBlock, snapDone, nextSnap, pendingSnaps>>
        /\ pc = "ready" /\ pc' = "handlers"
    BY <1>8 DEF StartHandlers, store, counters
  <2>2. ASSUME NEW s \in 1..NumSnapshots PROVE s < nextSnap
    <3>1. nextSnap \in Nat \ {0}
      BY DEF TypeOK
    <3>2. NumSnapshots \in Nat
      BY ConstantsAssumption
    <3> HIDE ConstantsAssumption DEF SnapInv
    <3> QED
      BY <2>1, <3>1, <3>2
  <2>3. DoneBefore(NumSnapshots + 1)
    BY <2>1, <2>2
  <2> QED
    BY <2>1, <2>3
<1>9. CASE \E t \in Tasks : StatementSucceeds(t) \/ HandlerThrows(t)
  BY <1>9 DEF StatementSucceeds, HandlerThrows, store, txn, counters
<1>10. CASE Commit \/ CommitLost
  BY <1>10, TxnType DEF Commit, CommitLost
<1>11. CASE CoreProduces \/ Sweep \/ UNCHANGED vars
  BY <1>11 DEF CoreProduces, Sweep, vars, store, txn, counters
<1>12. CASE SyncChain \/ StartSync \/ PollAgain \/ TryAgain \/ Stall
  BY <1>12 DEF SyncChain, StartSync, PollAgain, TryAgain, Stall, txn
<1> QED
  BY QuietCases, <1>1, <1>2, <1>3, <1>4, <1>5, <1>6, <1>7, <1>8, <1>9, <1>10, <1>11, <1>12

\* Every quiet step keeps the open transaction healthy, with the height of the block.
LEMMA TxnStep ==
    ASSUME TypeOK, TxnInv, Quiet, [Next]_vars
    PROVE  TxnInv'
<1> USE DEF TxnInv, HasTxn
<1>1. CASE Die \/ Retry
  BY <1>1, TxnType DEF Die, Retry
<1>2. CASE BeginSnapshot \/ CommitSnapshot \/ Commit \/ CommitLost
  BY <1>2, TxnType DEF BeginSnapshot, CommitSnapshot, Commit, CommitLost
<1>3. CASE StartHandlers
  BY <1>3, QuietStart DEF StartHandlers, counters
<1>4. CASE \E t \in Tasks : StatementSucceeds(t) \/ HandlerThrows(t)
  BY <1>4 DEF StatementSucceeds, HandlerThrows, txn, counters
<1>5. CASE CoreProduces \/ Sweep \/ TakeSnapshot \/ UNCHANGED vars
  BY <1>5 DEF CoreProduces, Sweep, TakeSnapshot, vars, txn, counters
<1>6. CASE SyncChain \/ StartSync \/ FetchBlock \/ PollAgain \/ SkipSnapshot
           \/ TryAgain \/ Stall
  BY <1>6 DEF SyncChain, StartSync, FetchBlock, PollAgain, SkipSnapshot, TryAgain, Stall, txn
<1> QED
  BY QuietCases, <1>1, <1>2, <1>3, <1>4, <1>5, <1>6

----------------------------------------------------------------------------
(* Complete blocks: theorem NoGapHolds. *)

\* The row a running handler inserts next is one of its block's.
LEMMA NextRow ==
    ASSUME TypeOK, TaskInv, NEW t \in Tasks, t[2] \in Writers, state[t] = "running"
    PROVE  RowOf(t) \in Row
<1>1. taskBlock[t[1]] \in Blocks /\ next[t] <= Writes[taskBlock[t[1]]][t[2]]
  BY DEF TaskInv
<1>2. Writes[taskBlock[t[1]]][t[2]] \in 0..MaxWrites /\ next[t] \in Nat \ {0}
  BY <1>1, ConstantsAssumption DEF Blocks, Store!Blocks, TypeOK
<1>3. next[t] \in 1..MaxWrites
  BY <1>1, <1>2, ConstantsAssumption
<1> QED
  BY <1>1, <1>3 DEF RowOf, Row, Store!Row, Blocks

\* Rows only ever come.
LEMMA RowsGrow ==
    ASSUME TypeOK, [Next]_vars
    PROVE  \A r \in Row : rows'[r] \in Nat /\ rows'[r] >= rows[r]
<1> SUFFICES ASSUME NEW r \in Row PROVE rows'[r] \in Nat /\ rows'[r] >= rows[r]
  OBVIOUS
<1>1. rows[r] \in Nat /\ pending[r] \in Nat
  BY DEF TypeOK
<1>2. ASSUME CommitTxn PROVE rows'[r] \in Nat /\ rows'[r] >= rows[r]
  BY <1>1, <1>2 DEF CommitTxn, store
<1>3. ASSUME NEW t \in Tasks, Insert(RowOf(t)) PROVE rows'[r] \in Nat /\ rows'[r] >= rows[r]
  BY <1>1, <1>3 DEF Insert, TypeOK
<1>4. CASE Retry \/ Die \/ UNCHANGED store \/ UNCHANGED rows
  BY <1>1, <1>4 DEF Retry, Die, store
<1> QED
  BY NextCases, <1>2, <1>3, <1>4 DEF CoreProduces, Crash, SyncChain, StartSync,
     FetchBlock, PollAgain, PollGivesUp, LoopQueryFails, SkipSnapshot, BeginSnapshot,
     TakeSnapshot, SnapshotFails, CommitSnapshot, StartHandlers, StatementSucceeds,
     StatementFails, StatementTimesOut, HandlerThrows, AttemptFails, Sweep, SweepFails,
     Commit, CommitFails, CommitLost, TryAgain, Exit, Stall, vars, store

\* A complete block stays complete.
LEMMA CompleteStays ==
    ASSUME TypeOK, [Next]_vars, NEW b, Store!Complete(b)
    PROVE  Store!Complete(b)'
<1>1. \A r \in Row : rows[r] \in Nat
  BY DEF TypeOK
<1>2. Row = Store!Row
  BY DEF Row
<1> QED
  BY <1>1, <1>2, RowsGrow DEF Store!Complete

\* While the attempt runs, an insert goes into its transaction.
LEMMA WrittenStep ==
    ASSUME TypeOK, TaskInv, AtLeastWritten, Quiet, [Next]_vars
    PROVE  AtLeastWritten'
<1>1. CASE UNCHANGED <<pc, pending, currentBlock, next, attempt>>
  BY <1>1 DEF AtLeastWritten
<1>2. CASE pc' \notin HasTxn
  BY <1>2 DEF AtLeastWritten
<1>3. CASE StartHandlers
  <2>1. /\ attempt' = attempt + 1 /\ attempt \in Nat /\ next' = next
        /\ attempt + 1 \in Attempts
    BY <1>3, ConstantsAssumption DEF StartHandlers, TypeOK, Attempts
  <2>2. \A h \in Handlers : next'[<<attempt', h>>] = 1
    BY <2>1 DEF TaskInv, Tasks
  <2>3. \A r \in Row : r.handler \in Handlers /\ ~ r.n < 1
    BY ConstantsAssumption DEF Row, Store!Row, Handlers
  <2> QED
    BY <2>2, <2>3 DEF AtLeastWritten
<1>4. CASE Sweep
  BY <1>4 DEF Sweep, AtLeastWritten, HasTxn, txn, counters, tasks
<1>5. ASSUME NEW t \in Tasks, StatementSucceeds(t) PROVE AtLeastWritten'
  <2> SUFFICES ASSUME pc' \in HasTxn, NEW r \in Row, r.block = currentBlock',
                      r.n < next'[<<attempt', r.handler>>]
               PROVE  pending'[r] >= 1
    BY DEF AtLeastWritten
  <2>1. /\ UNCHANGED <<pc, currentBlock, attempt, taskBlock>>
        /\ next' = [next EXCEPT ![t] = next[t] + 1]
        /\ Insert(RowOf(t))
    BY <1>5 DEF StatementSucceeds, counters
  <2>2. pending' = [pending EXCEPT ![RowOf(t)] = pending[RowOf(t)] + 1]
    BY <2>1 DEF Insert, OnClient, HasTxn
  <2>3. /\ r.handler \in Handlers /\ r.n \in Nat
        /\ r = [block |-> r.block, handler |-> r.handler, n |-> r.n]
    BY ConstantsAssumption DEF Row, Store!Row, Handlers
  <2>4. taskBlock[attempt] = currentBlock /\ <<attempt, r.handler>> \in Tasks
    BY <2>1, <2>3 DEF TaskInv, TypeOK, Tasks, Attempts
  <2>5. pending[r] \in Nat /\ pending'[r] \in Nat /\ pending'[r] >= pending[r]
    BY <2>2 DEF TypeOK
  <2>6. CASE r.n < next[<<attempt, r.handler>>]
    BY <2>1, <2>5, <2>6 DEF AtLeastWritten
  <2>7. CASE ~ r.n < next[<<attempt, r.handler>>]
    <3>1. t = <<attempt, r.handler>> /\ r.n = next[t]
      BY <2>1, <2>3, <2>4, <2>7 DEF TypeOK
    <3>2. r = RowOf(t)
      BY <2>1, <2>3, <2>4, <3>1 DEF RowOf
    <3>3. pending'[r] = pending[r] + 1
      BY <2>2, <3>2 DEF TypeOK
    <3> QED
      BY <2>5, <3>3
  <2> QED
    BY <2>6, <2>7
<1> QED
  BY QuietCases, <1>1, <1>2, <1>3, <1>4, <1>5 DEF CoreProduces, Die, SyncChain, StartSync,
     FetchBlock, PollAgain, Retry, SkipSnapshot, BeginSnapshot, TakeSnapshot,
     CommitSnapshot, HandlerThrows, Commit, CommitLost, TryAgain, Stall, HasTxn, vars, txn,
     counters, tasks

\* What a committed block leaves: all of its rows, and the new height.
LEMMA CommitCompletes ==
    ASSUME TypeOK, LoopInv, TaskInv, TxnInv, AtLeastWritten, CompleteInv,
           pc = "swept", CommitTxn, NEW b, b = currentBlock
    PROVE  /\ blockHeight' = b
           /\ Store!Complete(b)'
<1>1. currentBlock \in 1..LastBlock + 1 /\ pendingHeight = currentBlock /\ ~ aborted
  BY DEF LoopInv, InLoop, TxnInv, HasTxn
<1>2. /\ rows' = [r \in Row |-> rows[r] + pending[r]]
      /\ blockHeight' = currentBlock
  BY <1>1 DEF CommitTxn
<1>3. ASSUME NEW r \in Row, r.block <= currentBlock PROVE rows'[r] >= 1
  <2>1. rows[r] \in Nat /\ pending[r] \in Nat /\ rows'[r] = rows[r] + pending[r]
    BY <1>2 DEF TypeOK
  <2>2. CASE r.block = currentBlock
    <3>1. /\ r.handler \in Writers /\ r.handler \in Handlers /\ r.n \in Nat
          /\ r.n <= Writes[currentBlock][r.handler]
      BY <2>2, ConstantsAssumption DEF Row, Store!Row, Handlers
    <3>2. attempt \in Attempts /\ taskBlock[attempt] = currentBlock
      BY DEF TaskInv, TypeOK, Attempts, HasTxn
    <3>3. state[<<attempt, r.handler>>] = "done"
      BY <3>1 DEF TaskInv, InState
    <3>4. next[<<attempt, r.handler>>] = Writes[currentBlock][r.handler] + 1
      BY <3>1, <3>2, <3>3 DEF TaskInv, Tasks
    <3>5. Writes[currentBlock][r.handler] \in Nat
      BY <2>2, <3>1, ConstantsAssumption DEF Row, Store!Row, Store!Blocks
    <3>6. pending[r] >= 1
      BY <2>2, <3>1, <3>4, <3>5 DEF AtLeastWritten, HasTxn
    <3> QED
      BY <2>1, <3>6
  <2>3. CASE r.block # currentBlock
    <3>1. r.block \in Nat /\ r.block <= currentBlock - 1
      BY <1>1, <1>3, <2>3, ConstantsAssumption DEF Row, Store!Row, Store!Blocks
    <3>2. Store!Complete(currentBlock - 1) /\ Row = Store!Row
      BY DEF CompleteInv, InLoop, Row
    <3>3. rows[r] >= 1
      BY <3>1, <3>2 DEF Store!Complete
    <3> QED
      BY <2>1, <3>3
  <2> QED
    BY <2>2, <2>3
<1> QED
  BY <1>2, <1>3 DEF Store!Complete, Row

\* A height above 1 comes with its blocks, and the loop is at most one ahead.
LEMMA CompleteStep ==
    ASSUME TypeOK, LoopInv, TaskInv, TxnInv, AtLeastWritten, CompleteInv, Quiet, [Next]_vars
    PROVE  CompleteInv'
<1>0. /\ blockHeight \in Nat /\ currentBlock \in Nat
      /\ pc # "down" => blockHeight >= 1
      /\ blockHeight > 1 => Store!Complete(blockHeight)
      /\ pc \in InLoop => /\ currentBlock \in {blockHeight, blockHeight + 1}
                          /\ Store!Complete(currentBlock - 1)
  BY ConstantsAssumption DEF TypeOK, CompleteInv
<1>1. ASSUME NEW b, Store!Complete(b) PROVE Store!Complete(b)'
  BY <1>1, CompleteStays
<1>2. CASE /\ UNCHANGED blockHeight
           /\ pc' # "down" => pc # "down"
           /\ pc' \in InLoop => pc \in InLoop /\ UNCHANGED currentBlock
  <2>1. blockHeight' > 1 => Store!Complete(blockHeight)'
    BY <1>0, <1>1, <1>2
  <2>2. pc' \in InLoop => Store!Complete(currentBlock - 1)'
    BY <1>0, <1>1, <1>2
  <2> QED
    BY <1>0, <1>2, <2>1, <2>2 DEF CompleteInv
<1>3. CASE SyncChain
  <2>1. /\ blockHeight' = IF blockHeight = 0 THEN 1 ELSE blockHeight
        /\ pc' = "start"
    BY <1>3 DEF SyncChain
  <2>2. blockHeight' > 1 => Store!Complete(blockHeight)'
    BY <1>0, <1>1, <2>1
  <2> QED
    BY <1>0, <2>1, <2>2 DEF CompleteInv, InLoop
<1>4. CASE StartSync
  <2>1. /\ blockHeight' = blockHeight /\ blockHeight >= 1
        /\ currentBlock' = IF blockHeight # 1 THEN blockHeight + 1 ELSE blockHeight
    BY <1>0, <1>4 DEF StartSync, ResumeAt, store
  <2>2. Store!Complete(0)
    BY ConstantsAssumption DEF Store!Complete, Store!Row, Store!Blocks
  <2>3. blockHeight' > 1 => Store!Complete(blockHeight)'
    BY <1>0, <1>1, <2>1
  <2>4. Store!Complete(currentBlock - 1)'
    BY <1>0, <1>1, <2>1, <2>2
  <2> QED
    BY <2>1, <2>3, <2>4 DEF CompleteInv
<1>5. CASE CommitSnapshot
  <2>1. pc = "snapshot" /\ pc' = "ready" /\ currentBlock' = currentBlock
    BY <1>5 DEF CommitSnapshot
  <2>2. blockHeight' = blockHeight
    BY <1>5, <2>1 DEF CommitSnapshot, CommitTxn, TxnInv, HasTxn, store
  <2> QED
    BY <1>2, <2>1, <2>2 DEF InLoop
<1>6. CASE Commit \/ CommitLost
  <2>1. /\ currentBlock' \in {currentBlock, currentBlock + 1}
        /\ pc = "swept" /\ CommitTxn /\ pc' # "down"
    BY <1>6 DEF Commit, CommitLost
  <2>2. PICK b : b = currentBlock
    OBVIOUS
  <2>3. blockHeight' = b /\ Store!Complete(b)'
    BY <2>1, <2>2, CommitCompletes
  <2>4. Store!Complete(b - 1)' /\ b \in Nat \ {0}
    BY <1>1, <1>0, <2>1, <2>2 DEF InLoop, LoopInv
  <2>5. Store!Complete(blockHeight)' /\ Store!Complete(currentBlock - 1)'
    BY <2>1, <2>2, <2>3, <2>4
  <2> QED
    BY <2>1, <2>2, <2>3, <2>4, <2>5 DEF CompleteInv
<1>7. CASE Die
  BY <1>2, <1>7 DEF Die, store, InLoop
<1>8. CASE Retry /\ pc \in InLoop
  BY <1>2, <1>8 DEF Retry, store, InLoop
<1>9. CASE FetchBlock \/ PollAgain \/ SkipSnapshot \/ BeginSnapshot \/ TakeSnapshot
           \/ TryAgain \/ Stall \/ Sweep \/ CoreProduces \/ UNCHANGED vars
  BY <1>2, <1>9 DEF FetchBlock, PollAgain, SkipSnapshot, BeginSnapshot, TakeSnapshot,
     TryAgain, Stall, Sweep, CoreProduces, vars, store, counters, InLoop
<1>10. CASE StartHandlers \/ \E t \in Tasks : StatementSucceeds(t) \/ HandlerThrows(t)
  BY <1>2, <1>10 DEF StartHandlers, StatementSucceeds, HandlerThrows, store, counters, InLoop
<1> QED
  BY QuietCases, <1>3, <1>4, <1>5, <1>6, <1>7, <1>8, <1>9, <1>10

\* The stored height moves in the commit of a block.
LEMMA HeightStep ==
    ASSUME LoopInv, TxnInv, Quiet, [Next]_vars, blockHeight' # blockHeight
    PROVE  \/ blockHeight = 0 /\ blockHeight' = 1
           \/ pc = "swept" /\ blockHeight' = currentBlock
<1>1. CASE Die \/ Retry
  BY <1>1 DEF Die, Retry, store
<1>2. CASE SyncChain
  BY <1>2 DEF SyncChain
<1>3. CASE CommitSnapshot
  BY <1>3 DEF CommitSnapshot, CommitTxn, TxnInv, HasTxn, store
<1>4. CASE Commit \/ CommitLost
  BY <1>4 DEF Commit, CommitLost, CommitTxn, TxnInv, HasTxn, store
<1> QED
  BY QuietCases, <1>1, <1>2, <1>3, <1>4 DEF CoreProduces, StartSync, FetchBlock, PollAgain,
     SkipSnapshot, BeginSnapshot, TakeSnapshot, StartHandlers, StatementSucceeds,
     HandlerThrows, Sweep, TryAgain, Stall, vars, store

\* A finished snapshot stays finished.
LEMMA SnapDoneGrows ==
    ASSUME [Next]_vars
    PROVE  snapDone \subseteq snapDone'
BY NextCases DEF CoreProduces, Crash, Die, SyncChain, StartSync, FetchBlock, PollAgain,
   PollGivesUp, LoopQueryFails, Retry, SkipSnapshot, BeginSnapshot, TakeSnapshot,
   SnapshotFails, CommitSnapshot, CommitTxn, StartHandlers, StatementSucceeds,
   StatementFails, StatementTimesOut, HandlerThrows, AttemptFails, Sweep, SweepFails,
   Commit, CommitFails, CommitLost, TryAgain, Exit, Stall, vars, store

\* No step stores a block before the snapshots due at it.
LEMMA SnapshotFirstStep ==
    ASSUME TypeOK, LoopInv, SnapInv, TxnInv, SnapshotFirst, Quiet, [Next]_vars
    PROVE  SnapshotFirst'
<1>1. CASE blockHeight' = blockHeight
  BY <1>1, SnapDoneGrows DEF SnapshotFirst, Store!DueAt
<1>2. CASE blockHeight = 0 /\ blockHeight' = 1
  BY <1>2 DEF SnapshotFirst
<1>3. CASE pc = "swept" /\ blockHeight' = currentBlock
  <2>1. \A s \in Snapshots : s < NumSnapshots + 1
    BY ConstantsAssumption DEF Snapshots
  <2> QED
    BY <1>3, <2>1, SnapDoneGrows DEF SnapshotFirst, SnapInv, DoneBefore, HasTxn, Store!DueAt
<1> QED
  BY HeightStep, <1>1, <1>2, <1>3


\* The first state satisfies the invariant for complete blocks.
LEMMA GapInit == Init => GapInv
<1> SUFFICES ASSUME Init PROVE GapInv
  OBVIOUS
<1>1. TypeOK /\ LoopInv
  BY InitType
<1>2. TaskInv
  <2>1. \A t \in Tasks : state[t] = "idle" /\ next[t] = 1
    BY DEF Init
  <2>2. pc = "down"
    BY DEF Init
  <2> QED
    BY <2>1, <2>2 DEF TaskInv, HasTxn
<1>3. SnapInv /\ TxnInv /\ AtLeastWritten /\ CompleteInv /\ SnapshotFirst
  BY DEF Init, SnapInv, TxnInv, AtLeastWritten, CompleteInv, SnapshotFirst, HasTxn, InLoop
<1> QED
  BY <1>1, <1>2, <1>3 DEF GapInv

\* Every step keeps it, and moves the height by one block or not at all.
LEMMA GapStep ==
    ASSUME NothingRefused, GapInv, [Next]_vars
    PROVE  GapInv' /\ (blockHeight' # blockHeight => blockHeight' = blockHeight + 1)
<1>1. Quiet
  BY DEF NothingRefused, GapInv, TxnInv, Quiet, Duplicate
<1>2. TypeOK' /\ LoopInv'
  BY StepType DEF GapInv
<1>3. TaskInv' /\ SnapInv' /\ TxnInv'
  BY <1>1, TaskStep, SnapStep, TxnStep DEF GapInv
<1>4. AtLeastWritten' /\ CompleteInv' /\ SnapshotFirst'
  BY <1>1, WrittenStep, CompleteStep, SnapshotFirstStep DEF GapInv
<1>5. ASSUME blockHeight' # blockHeight PROVE blockHeight' = blockHeight + 1
  <2>1. CASE blockHeight = 0 /\ blockHeight' = 1
    BY <2>1
  <2>2. CASE pc = "swept" /\ blockHeight' = currentBlock
    BY <1>5, <2>2 DEF GapInv, CompleteInv, InLoop
  <2> QED
    BY <1>1, <1>5, <2>1, <2>2, HeightStep DEF GapInv
<1> QED
  BY <1>2, <1>3, <1>4, <1>5 DEF GapInv

\* As long as no statement is refused, a stored block has all of its rows,
\* whatever handlers fail, stragglers write or COMMIT answers are lost, ...
THEOREM NoGapHolds == NothingRefused => (Spec => []NoGap)
<1> SUFFICES ASSUME NothingRefused PROVE Spec => []NoGap
  OBVIOUS
<1>1. GapInv => NoGap
  BY DEF GapInv, CompleteInv, NoGap
<1>2. GapInv /\ [Next]_vars => GapInv'
  BY GapStep
<1> QED
  BY GapInit, <1>1, <1>2, PTL DEF Spec

\* ... and comes after the snapshots that are due before it.
THEOREM SnapshotFirstHolds == NothingRefused => (Spec => []SnapshotFirst)
<1> SUFFICES ASSUME NothingRefused PROVE Spec => []SnapshotFirst
  OBVIOUS
<1>1. GapInv => SnapshotFirst
  BY DEF GapInv
<1>2. GapInv /\ [Next]_vars => GapInv'
  BY GapStep
<1> QED
  BY GapInit, <1>1, <1>2, PTL DEF Spec

\* Under the same condition the stored height moves by one block at a time.
THEOREM HeightStepsHold == NothingRefused => (Spec => HeightStepsByOne)
<1> SUFFICES ASSUME NothingRefused PROVE Spec => HeightStepsByOne
  OBVIOUS
<1>1. GapInv /\ [Next]_vars => GapInv'
  BY GapStep
<1>2. GapInv /\ [Next]_vars => [blockHeight' = blockHeight + 1]_blockHeight
  BY GapStep
<1> QED
  BY GapInit, <1>1, <1>2, PTL DEF Spec, HeightStepsByOne

----------------------------------------------------------------------------
(* What failed attempts leave behind. *)

\* Neither a row, visible or pending, nor a handler that still runs is of a
\* block beyond the next one.
OrphanInv ==
    /\ \A r \in Row : rows[r] > 0 \/ pending[r] > 0 => r.block <= blockHeight + 1
    /\ \A t \in Tasks : state[t] = "running" => taskBlock[t[1]] <= blockHeight + 1

\* A COMMIT shows what was pending, a rollback drops it.
LEMMA OrphanEnds ==
    ASSUME TypeOK, OrphanInv, blockHeight' \in Nat, blockHeight' >= blockHeight, NoTxn,
           CommitTxn \/ UNCHANGED rows,
           UNCHANGED tasks \/ \A t \in Tasks : state'[t] = "idle"
    PROVE  OrphanInv'
<1>0. blockHeight \in Nat
  BY ConstantsAssumption DEF TypeOK
<1>1. ASSUME NEW r \in Row, rows'[r] > 0 \/ pending'[r] > 0
      PROVE  r.block <= blockHeight + 1 /\ r.block \in Nat
  <2>1. pending'[r] = 0
    BY DEF NoTxn, NoRows
  <2>2. rows[r] \in Nat /\ pending[r] \in Nat /\ r.block \in Nat
    BY DEF TypeOK, Row, Store!Row, Store!Blocks
  <2>3. rows'[r] \in {rows[r], rows[r] + pending[r]}
    BY DEF CommitTxn, store
  <2> QED
    BY <1>1, <2>1, <2>2, <2>3 DEF OrphanInv
<1>2. ASSUME NEW t \in Tasks, state'[t] = "running"
      PROVE  taskBlock'[t[1]] <= blockHeight + 1 /\ taskBlock'[t[1]] \in Nat
  <2>1. UNCHANGED tasks
    BY <1>2
  <2>2. taskBlock[t[1]] \in Nat
    BY ConstantsAssumption DEF TypeOK, Tasks
  <2> QED
    BY <1>2, <2>1, <2>2 DEF OrphanInv, tasks
<1> QED
  BY <1>0, <1>1, <1>2 DEF OrphanInv

\* Every step keeps it: a handler writes for the block its attempt was about.
LEMMA OrphanStep ==
    ASSUME NothingRefused, GapInv, OrphanInv, [Next]_vars
    PROVE  OrphanInv'
<1>1. /\ TypeOK /\ LoopInv /\ CompleteInv /\ Quiet
      /\ TypeOK' /\ blockHeight \in Nat /\ blockHeight' \in Nat /\ blockHeight' >= blockHeight
  <2>1. Quiet /\ TypeOK /\ LoopInv /\ CompleteInv
    BY DEF NothingRefused, GapInv, TxnInv, Quiet, Duplicate
  <2>2. TypeOK'
    BY GapStep DEF GapInv
  <2>3. blockHeight \in Nat /\ blockHeight' \in Nat
    BY <2>1, <2>2, ConstantsAssumption DEF TypeOK
  <2> QED
    BY <2>1, <2>2, <2>3, GapStep
<1>2. CASE UNCHANGED <<rows, pending, taskBlock, state>>
  <2>1. \A t \in Tasks : taskBlock[t[1]] \in Nat
    BY <1>1, ConstantsAssumption DEF TypeOK, Tasks
  <2>2. \A r \in Row : r.block \in Nat
    BY DEF Row, Store!Row, Store!Blocks
  <2> QED
    BY <1>1, <1>2, <2>1, <2>2 DEF OrphanInv
<1>3. CASE Die \/ Retry
  <2>1. NoTxn /\ UNCHANGED rows
    BY <1>3 DEF Die, Retry, store
  <2>2. UNCHANGED tasks \/ \A t \in Tasks : state'[t] = "idle"
    BY <1>3 DEF Die, Retry
  <2> QED
    BY <1>1, <2>1, <2>2, OrphanEnds
<1>4. CASE Commit \/ CommitLost \/ CommitSnapshot
  BY <1>1, <1>4, OrphanEnds DEF Commit, CommitLost, CommitSnapshot
<1>5. CASE BeginSnapshot
  BY <1>1, <1>5, OrphanEnds DEF BeginSnapshot, store
<1>6. CASE StartHandlers
  <2>1. /\ UNCHANGED <<rows, pending, blockHeight>>
        /\ taskBlock' = [taskBlock EXCEPT ![attempt + 1] = currentBlock]
        /\ state' = [t \in Tasks |-> IF t[1] = attempt + 1 THEN Starting(t[2]) ELSE state[t]]
    BY <1>1, <1>6, QuietStart DEF StartHandlers, store
  <2>2. currentBlock <= blockHeight + 1 /\ currentBlock \in Nat
    BY <1>1, <1>6 DEF StartHandlers, CompleteInv, InLoop
  <2>3. ASSUME NEW t \in Tasks, state'[t] = "running"
        PROVE  taskBlock'[t[1]] <= blockHeight + 1
    <3>1. t[1] \in Attempts
      BY DEF Tasks
    <3>2. CASE t[1] = attempt + 1
      BY <1>1, <2>1, <2>2, <3>1, <3>2 DEF TypeOK
    <3>3. CASE t[1] # attempt + 1
      <4>1. state[t] = "running"
        BY <2>1, <2>3, <3>3
      <4>2. taskBlock'[t[1]] = taskBlock[t[1]]
        BY <1>1, <2>1, <3>1, <3>3 DEF TypeOK
      <4> QED
        BY <4>1, <4>2 DEF OrphanInv
    <3> QED
      BY <3>2, <3>3
  <2> QED
    BY <2>1, <2>3 DEF OrphanInv
<1>7. ASSUME NEW t \in Tasks, StatementSucceeds(t) PROVE OrphanInv'
  <2>1. /\ state[t] = "running" /\ Insert(RowOf(t)) /\ UNCHANGED <<blockHeight, taskBlock>>
        /\ \A u \in Tasks : state'[u] = "running" => state[u] = "running"
    <3>1. \A u \in Tasks : state'[u] \in {state[u], "done"}
      BY <1>1, <1>7 DEF StatementSucceeds, TypeOK
    <3> QED
      BY <1>7, <3>1 DEF StatementSucceeds
  <2>2. ASSUME NEW r \in Row, rows'[r] > 0 \/ pending'[r] > 0
        PROVE  r.block <= blockHeight + 1
    <3>1. CASE r = RowOf(t)
      BY <2>1, <3>1 DEF OrphanInv, RowOf
    <3>2. CASE r # RowOf(t)
      <4>1. rows'[r] = rows[r] /\ pending'[r] = pending[r]
        BY <1>1, <2>1, <3>2 DEF Insert, TypeOK
      <4> QED
        BY <2>2, <4>1 DEF OrphanInv
    <3> QED
      BY <3>1, <3>2
  <2> QED
    BY <2>1, <2>2 DEF OrphanInv
<1>8. ASSUME NEW t \in Tasks, HandlerThrows(t) PROVE OrphanInv'
  <2>1. \A u \in Tasks : state'[u] = "running" => state[u] = "running"
    BY <1>1, <1>8 DEF HandlerThrows, TypeOK
  <2>2. UNCHANGED <<rows, pending, taskBlock, blockHeight>>
    BY <1>8 DEF HandlerThrows, store, txn
  <2> QED
    BY <2>1, <2>2 DEF OrphanInv
<1>9. CASE CoreProduces \/ SyncChain \/ StartSync \/ FetchBlock \/ PollAgain \/ SkipSnapshot
           \/ TakeSnapshot \/ Sweep \/ TryAgain \/ Stall \/ UNCHANGED vars
  BY <1>2, <1>9 DEF CoreProduces, SyncChain, StartSync, FetchBlock, PollAgain, SkipSnapshot,
     TakeSnapshot, Sweep, TryAgain, Stall, vars, store, txn, tasks
<1> QED
  BY <1>1, <1>3, <1>4, <1>5, <1>6, <1>7, <1>8, <1>9, QuietCases

\* As long as no statement is refused, what is visible ahead of the stored
\* height is of the one block that is tried next: a retry that finds rows of
\* its block there finds its own.
THEOREM OrphansHold == NothingRefused => (Spec => []OrphansOfNextOnly)
<1> SUFFICES ASSUME NothingRefused PROVE Spec => []OrphansOfNextOnly
  OBVIOUS
<1>1. Init => OrphanInv
  BY DEF Init, OrphanInv, NoRows
<1>2. GapInv /\ [Next]_vars => GapInv'
  BY GapStep
<1>3. GapInv /\ OrphanInv /\ [Next]_vars => OrphanInv'
  BY OrphanStep
<1>4. OrphanInv => OrphansOfNextOnly
  BY DEF OrphanInv, OrphansOfNextOnly
<1> QED
  BY GapInit, <1>1, <1>2, <1>3, <1>4, PTL DEF Spec

----------------------------------------------------------------------------
(* Blocks applied once: theorem StoreRefined. *)

\* The first state satisfies the invariant for blocks applied once.
LEMMA StoreInit == Init => StoreInv
<1> SUFFICES ASSUME Init PROVE StoreInv
  OBVIOUS
<1>1. TypeOK /\ LoopInv /\ TaskInv /\ SnapInv /\ TxnInv
  BY GapInit DEF GapInv
<1>2. NoStraggler /\ ExactlyWritten /\ OnceInv
  BY ConstantsAssumption DEF Init, NoStraggler, ExactlyWritten, OnceInv, HasTxn, InLoop,
     NoRows, Row, Store!Row, Store!Blocks
<1> QED
  BY <1>1, <1>2 DEF StoreInv

\* A keyed row is not there before its block, so no insert is refused.
LEMMA StoreQuiet ==
    ASSUME HandlersDoNotFail, StoreInv
    PROVE  Quiet
<1> SUFFICES ASSUME NEW t \in Tasks, state[t] = "running", RowOf(t) \in Keyed
             PROVE  rows[RowOf(t)] + pending[RowOf(t)] = 0
  BY DEF HandlersDoNotFail, Quiet, StoreInv, TxnInv, Duplicate
<1> DEFINE r == RowOf(t)
<1>1. pc = "handlers" /\ t[1] = attempt /\ t = <<attempt, t[2]>>
  BY DEF StoreInv, NoStraggler, Tasks
<1>2. t[2] \in Writers
  BY DEF StoreInv, NoStraggler
<1>3. r \in Row /\ r.block = currentBlock /\ r.handler = t[2] /\ r.n = next[t]
  BY <1>1, <1>2, NextRow DEF StoreInv, TaskInv, RowOf, HasTxn
<1>4. currentBlock # 1 /\ currentBlock \in Nat \ {0}
  BY <1>1, <1>3, ConstantsAssumption DEF HandlersDoNotFail, StoreInv, LoopInv, InLoop
<1>5. pending[r] = 0
  <2>1. next[t] \in Nat
    BY DEF StoreInv, TypeOK
  <2> QED
    BY <1>1, <1>3, <2>1 DEF StoreInv, ExactlyWritten
<1>6. rows[r] = 0
  <2>1. currentBlock = blockHeight + 1 /\ blockHeight \in Nat
    BY <1>1, <1>4, ConstantsAssumption DEF StoreInv, OnceInv, InLoop, TypeOK
  <2> QED
    BY <1>3, <1>4, <2>1 DEF StoreInv, OnceInv
<1> QED
  BY <1>5, <1>6

\* No handler runs while the loop gives up on an attempt.
LEMMA StoreCases ==
    ASSUME HandlersDoNotFail, StoreInv, Next
    PROVE  \/ CoreProduces
           \/ Die /\ core' = core
           \/ SyncChain \/ StartSync \/ FetchBlock \/ PollAgain
           \/ Retry /\ pc \in InLoop /\ \A t \in Tasks : state[t] # "running"
           \/ SkipSnapshot \/ BeginSnapshot \/ TakeSnapshot \/ CommitSnapshot
           \/ StartHandlers
           \/ \E t \in Tasks : StatementSucceeds(t)
           \/ Sweep \/ Commit \/ TryAgain \/ Stall
<1>1. ASSUME NEW t \in Tasks
      PROVE  ~ StatementFails(t) /\ ~ StatementTimesOut(t) /\ ~ HandlerThrows(t)
  BY StoreQuiet DEF HandlersDoNotFail, Quiet, StatementFails, StatementTimesOut, HandlerThrows,
     Refused, Fault
<1>2. ~ CommitLost /\ ~ AttemptFails
  <2>1. ASSUME pc = "handlers", NEW h \in Handlers PROVE <<attempt, h>> \in Tasks
    BY <2>1 DEF StoreInv, TaskInv, HasTxn, TypeOK, Tasks, Attempts
  <2> QED
    BY <2>1 DEF HandlersDoNotFail, StoreInv, NoStraggler, CommitLost, AttemptFails, Fault, InState
<1>3. Crash \/ Exit => Die /\ core' = core
  BY DEF Crash, Exit
<1>4. PollGivesUp \/ LoopQueryFails \/ SnapshotFails \/ SweepFails \/ CommitFails
      => Retry /\ pc \in InLoop /\ \A t \in Tasks : state[t] # "running"
  <2>1. ASSUME SweepFails, NEW t \in Tasks PROVE state[t] # "running"
    <3>1. InState("done") = Handlers /\ t[2] \in Handlers /\ t = <<t[1], t[2]>>
      BY <2>1 DEF SweepFails, Tasks
    <3>2. t[1] = attempt => state[t] = "done"
      BY <3>1 DEF InState
    <3> QED
      BY <3>2 DEF StoreInv, NoStraggler
  <2> QED
    BY <2>1 DEF PollGivesUp, LoopQueryFails, SnapshotFails, SweepFails, CommitFails, InLoop,
       StoreInv, NoStraggler
<1> QED
  BY NextCases, <1>1, <1>2, <1>3, <1>4


\* No handler outlives its attempt.
LEMMA StragglerStep ==
    ASSUME HandlersDoNotFail, StoreInv, [Next]_vars
    PROVE  NoStraggler'
<1> USE DEF StoreInv, NoStraggler
<1>1. CASE Die
  <2>1. \A t \in Tasks : state'[t] = "idle"
    BY <1>1 DEF Die
  <2> QED
    BY <2>1
<1>2. CASE Retry /\ \A t \in Tasks : state[t] # "running"
  BY <1>2 DEF Retry, tasks
<1>3. CASE StartHandlers
  <2>1. /\ pc = "ready" /\ pc' = "handlers" /\ attempt' = attempt + 1
        /\ state' = [t \in Tasks |-> IF t[1] = attempt + 1 THEN Starting(t[2])
                                     ELSE state[t]]
    BY <1>3, StoreQuiet, QuietStart DEF StartHandlers
  <2>2. \A t \in Tasks : /\ Starting(t[2]) # "failed"
                         /\ Starting(t[2]) = "running" => t[2] \in Writers
    BY DEF Starting, Tasks, Handlers
  <2> QED
    BY <2>1, <2>2
<1>4. CASE \E t \in Tasks : StatementSucceeds(t)
  BY <1>4 DEF StatementSucceeds, TypeOK
<1>5. CASE Sweep
  <2>1. ASSUME NEW t \in Tasks PROVE state[t] # "running"
    <3>1. InState("done") = Handlers /\ t[2] \in Handlers /\ t = <<t[1], t[2]>>
      BY <1>5 DEF Sweep, Tasks
    <3>2. t[1] = attempt => state[t] = "done"
      BY <3>1 DEF InState
    <3> QED
      BY <3>2
  <2> QED
    BY <1>5, <2>1 DEF Sweep, tasks
<1>6. CASE CoreProduces \/ UNCHANGED vars
  BY <1>6 DEF CoreProduces, tasks, vars
<1>7. CASE SyncChain \/ StartSync \/ FetchBlock \/ PollAgain \/ SkipSnapshot
           \/ BeginSnapshot \/ TakeSnapshot \/ CommitSnapshot
  BY <1>7 DEF SyncChain, StartSync, FetchBlock, PollAgain, SkipSnapshot, BeginSnapshot,
     TakeSnapshot, CommitSnapshot, tasks
<1>8. CASE Commit \/ TryAgain \/ Stall
  BY <1>8 DEF Commit, TryAgain, Stall, tasks
<1> QED
  BY StoreCases, <1>1, <1>2, <1>3, <1>4, <1>5, <1>6, <1>7, <1>8

\* The transaction holds exactly what the attempt's handlers wrote.
LEMMA ExactlyStep ==
    ASSUME HandlersDoNotFail, StoreInv, [Next]_vars
    PROVE  ExactlyWritten'
<1> USE DEF StoreInv
<1>1. CASE UNCHANGED <<pc, pending, currentBlock, next, attempt>>
  BY <1>1 DEF ExactlyWritten
<1>2. CASE pc' \notin HasTxn /\ \A r \in Row : pending'[r] = 0
  BY <1>2 DEF ExactlyWritten
<1>3. CASE StartHandlers
  <2>1. /\ attempt' = attempt + 1 /\ attempt \in Nat /\ next' = next
        /\ attempt + 1 \in Attempts /\ pending' = pending /\ pc = "ready"
    BY <1>3, ConstantsAssumption DEF StartHandlers, TypeOK, Attempts
  <2>2. \A h \in Handlers : next'[<<attempt', h>>] = 1
    BY <2>1 DEF TaskInv, Tasks
  <2>3. \A r \in Row : r.handler \in Handlers /\ ~ r.n < 1
    BY ConstantsAssumption DEF Row, Store!Row, Handlers
  <2>4. \A r \in Row : pending[r] = 0
    BY <2>1 DEF ExactlyWritten, HasTxn
  <2> QED
    BY <2>1, <2>2, <2>3, <2>4 DEF ExactlyWritten
<1>4. CASE Sweep
  BY <1>4 DEF Sweep, ExactlyWritten, HasTxn, txn, counters, tasks
<1>5. ASSUME NEW t \in Tasks, StatementSucceeds(t) PROVE ExactlyWritten'
  <2>1. /\ UNCHANGED <<pc, currentBlock, attempt, taskBlock>>
        /\ next' = [next EXCEPT ![t] = next[t] + 1]
        /\ Insert(RowOf(t)) /\ state[t] = "running"
    BY <1>5 DEF StatementSucceeds, counters
  <2>2. pc = "handlers" /\ t[1] = attempt /\ t[2] \in Writers /\ t = <<attempt, t[2]>>
    BY <2>1 DEF NoStraggler, Tasks
  <2>3. pending' = [pending EXCEPT ![RowOf(t)] = pending[RowOf(t)] + 1]
    BY <2>1, <2>2 DEF Insert, OnClient
  <2>4. /\ RowOf(t).block = currentBlock /\ RowOf(t).handler = t[2] /\ RowOf(t).n = next[t]
        /\ next[t] \in Nat /\ next'[t] = next[t] + 1
    BY <2>1, <2>2 DEF RowOf, TaskInv, HasTxn, TypeOK
  <2> SUFFICES ASSUME NEW r \in Row
               PROVE  pending'[r] = IF r.block = currentBlock
                                       /\ r.n < next'[<<attempt, r.handler>>] THEN 1 ELSE 0
    BY <2>1, <2>2 DEF ExactlyWritten, HasTxn
  <2>5. pending[r] = IF r.block = currentBlock
                        /\ r.n < next[<<attempt, r.handler>>] THEN 1 ELSE 0
    BY <2>2 DEF ExactlyWritten, HasTxn
  <2>6. /\ r.handler \in Handlers /\ r.n \in Nat
        /\ r = [block |-> r.block, handler |-> r.handler, n |-> r.n]
    BY ConstantsAssumption DEF Row, Store!Row, Handlers
  <2>7. CASE r = RowOf(t)
    <3>1. pending[r] = 0 /\ r.n < next'[<<attempt, r.handler>>]
      BY <2>2, <2>4, <2>5, <2>7
    <3> QED
      BY <2>3, <2>4, <2>7, <3>1 DEF TypeOK
  <2>8. CASE r # RowOf(t)
    <3>1. pending'[r] = pending[r]
      BY <2>3, <2>8 DEF TypeOK
    <3>2. CASE r.handler # t[2]
      <4>1. next'[<<attempt, r.handler>>] = next[<<attempt, r.handler>>]
        BY <2>1, <2>2, <2>6, <3>2 DEF TypeOK, Tasks
      <4> QED
        BY <2>5, <3>1, <4>1
    <3>3. CASE r.handler = t[2] /\ r.block = currentBlock
      <4>1. r.n # next[t]
        BY <2>1, <2>2, <2>4, <2>6, <2>8, <3>3 DEF RowOf, TaskInv, HasTxn
      <4>2. <<attempt, r.handler>> = t
        BY <2>2, <3>3
      <4> QED
        BY <2>4, <2>5, <2>6, <3>1, <3>3, <4>1, <4>2
    <3>4. CASE r.block # currentBlock
      BY <2>5, <3>1, <3>4
    <3> QED
      BY <3>2, <3>3, <3>4
  <2> QED
    BY <2>7, <2>8
<1>6. ASSUME pc \notin HasTxn, pending' = pending PROVE \A r \in Row : pending'[r] = 0
  BY <1>6 DEF ExactlyWritten
<1>7. ASSUME NoTxn PROVE \A r \in Row : pending'[r] = 0
  BY <1>7 DEF NoTxn, NoRows
<1> QED
  BY StoreCases, <1>1, <1>2, <1>3, <1>4, <1>5, <1>6, <1>7 DEF CoreProduces, Die, SyncChain,
     StartSync, FetchBlock, PollAgain, Retry, SkipSnapshot, BeginSnapshot, TakeSnapshot,
     CommitSnapshot, Commit, TryAgain, Stall, HasTxn, vars, txn, counters, tasks


\* Committing the loop's block adds each of its rows once, and nothing else.
LEMMA CommitApplies ==
    ASSUME StoreInv, pc = "swept", CommitTxn
    PROVE  /\ rows' = [r \in Row |-> rows[r] + IF r.block = currentBlock THEN 1 ELSE 0]
           /\ blockHeight' = currentBlock
           /\ snapDone' = snapDone
<1>1. /\ currentBlock \in 1..LastBlock + 1 /\ pendingHeight = currentBlock /\ ~ aborted
      /\ pendingSnaps = {}
  BY DEF StoreInv, LoopInv, InLoop, TxnInv, SnapInv, HasTxn
<1>2. /\ rows' = [r \in Row |-> rows[r] + pending[r]]
      /\ blockHeight' = currentBlock /\ snapDone' = snapDone
  BY <1>1 DEF CommitTxn
<1>3. ASSUME NEW r \in Row
      PROVE  pending[r] = IF r.block = currentBlock THEN 1 ELSE 0
  <2>1. CASE r.block = currentBlock
    <3>1. /\ r.handler \in Writers /\ r.handler \in Handlers /\ r.n \in Nat
          /\ r.n <= Writes[currentBlock][r.handler]
          /\ Writes[currentBlock][r.handler] \in Nat
      BY <2>1, ConstantsAssumption DEF Row, Store!Row, Store!Blocks, Handlers
    <3>2. attempt \in Attempts /\ taskBlock[attempt] = currentBlock
      BY DEF StoreInv, TaskInv, TypeOK, Attempts, HasTxn
    <3>3. state[<<attempt, r.handler>>] = "done"
      BY <3>1 DEF StoreInv, TaskInv, InState
    <3>4. next[<<attempt, r.handler>>] = Writes[currentBlock][r.handler] + 1
      BY <3>1, <3>2, <3>3 DEF StoreInv, TaskInv, Tasks
    <3> QED
      BY <2>1, <3>1, <3>4 DEF StoreInv, ExactlyWritten, HasTxn
  <2>2. CASE r.block # currentBlock
    BY <2>2 DEF StoreInv, ExactlyWritten
  <2> QED
    BY <2>1, <2>2
<1> QED
  BY <1>2, <1>3

\* Outside the commit of a block no row appears.
LEMMA RowsStay ==
    ASSUME HandlersDoNotFail, StoreInv, [Next]_vars, ~ Commit
    PROVE  rows' = rows
<1>1. CASE \E t \in Tasks : StatementSucceeds(t)
  BY <1>1 DEF StatementSucceeds, Insert, OnClient, StoreInv, NoStraggler
<1>2. CASE CommitSnapshot
  <2>1. \A r \in Row : pending[r] = 0 /\ rows[r] \in Nat
    BY <1>2 DEF CommitSnapshot, StoreInv, ExactlyWritten, HasTxn, TypeOK
  <2>2. rows' = [r \in Row |-> rows[r] + pending[r]]
    BY <1>2 DEF CommitSnapshot, CommitTxn, StoreInv, TxnInv
  <2>3. rows \in [Row -> Nat]
    BY DEF StoreInv, TypeOK
  <2> QED
    BY <2>1, <2>2, <2>3
<1>3. CASE Die \/ Retry \/ UNCHANGED vars
  BY <1>3 DEF Die, Retry, store, vars
<1> QED
  BY StoreCases, <1>1, <1>2, <1>3 DEF CoreProduces, SyncChain, StartSync, FetchBlock,
     PollAgain, SkipSnapshot, BeginSnapshot, TakeSnapshot, StartHandlers, Sweep, TryAgain,
     Stall, store

\* The rows above block 1 are there once, up to the stored height.
LEMMA OnceStep ==
    ASSUME HandlersDoNotFail, StoreInv, [Next]_vars
    PROVE  OnceInv'
<1>0. /\ blockHeight \in Nat /\ currentBlock \in Nat
      /\ pc # "down" => blockHeight >= 1
      /\ \A r \in Row : r.block > 1 => rows[r] = IF r.block <= blockHeight THEN 1 ELSE 0
      /\ pc \in InLoop => \/ currentBlock = 1 /\ blockHeight = 1
                          \/ currentBlock = blockHeight + 1 /\ Store!Complete(blockHeight)
      /\ blockHeight > 1 => Store!Complete(blockHeight)
  BY ConstantsAssumption DEF StoreInv, TypeOK, OnceInv
<1>1. ASSUME NEW b, Store!Complete(b) PROVE Store!Complete(b)'
  BY <1>1, CompleteStays DEF StoreInv
<1>2. ASSUME UNCHANGED <<blockHeight, rows>>
      PROVE  /\ \A r \in Row : r.block > 1 => rows'[r] = IF r.block <= blockHeight' THEN 1 ELSE 0
             /\ blockHeight' > 1 => Store!Complete(blockHeight)'
  BY <1>0, <1>1, <1>2
<1>3. CASE /\ UNCHANGED <<blockHeight, rows>>
           /\ pc' # "down" => pc # "down"
           /\ pc' \in InLoop => pc \in InLoop /\ UNCHANGED currentBlock
  <2>1. pc' \in InLoop => \/ currentBlock' = 1 /\ blockHeight' = 1
                          \/ currentBlock' = blockHeight' + 1 /\ Store!Complete(blockHeight)'
    BY <1>0, <1>1, <1>3
  <2> QED
    BY <1>0, <1>2, <1>3, <2>1 DEF OnceInv
<1>4. CASE SyncChain
  <2>1. /\ blockHeight' = IF blockHeight = 0 THEN 1 ELSE blockHeight
        /\ pc' = "start" /\ rows' = rows
    BY <1>4 DEF SyncChain
  <2>2. blockHeight' > 1 => Store!Complete(blockHeight)'
    BY <1>0, <1>1, <2>1
  <2>3. \A r \in Row : r.block \in Nat
    BY ConstantsAssumption DEF Row, Store!Row, Store!Blocks
  <2>4. \A r \in Row : r.block > 1 => rows'[r] = IF r.block <= blockHeight' THEN 1 ELSE 0
    BY <1>0, <2>1, <2>3
  <2> QED
    BY <1>0, <2>1, <2>2, <2>4 DEF OnceInv, InLoop
<1>5. CASE StartSync
  <2>1. /\ blockHeight' = blockHeight /\ blockHeight >= 1 /\ rows' = rows
        /\ currentBlock' = IF blockHeight # 1 THEN blockHeight + 1 ELSE blockHeight
    BY <1>0, <1>5 DEF StartSync, ResumeAt, store
  <2>2. \/ currentBlock' = 1 /\ blockHeight' = 1
        \/ currentBlock' = blockHeight' + 1 /\ Store!Complete(blockHeight)'
    BY <1>0, <1>1, <2>1
  <2> QED
    BY <1>2, <2>1, <2>2 DEF OnceInv
<1>6. CASE CommitSnapshot
  <2>1. /\ pc = "snapshot" /\ pc' = "ready" /\ currentBlock' = currentBlock
        /\ rows' = rows
    BY <1>6, RowsStay DEF CommitSnapshot, Commit
  <2>2. blockHeight' = blockHeight
    BY <1>6, <2>1 DEF CommitSnapshot, CommitTxn, StoreInv, TxnInv, HasTxn, store
  <2> QED
    BY <1>3, <2>1, <2>2 DEF InLoop
<1>7. CASE Commit
  <2>1. /\ currentBlock' = currentBlock + 1 /\ pc = "swept" /\ CommitTxn /\ pc' = "fetch"
    BY <1>7 DEF Commit
  <2>2. PICK b : b = currentBlock
    OBVIOUS
  <2>3. /\ rows' = [r \in Row |-> rows[r] + IF r.block = b THEN 1 ELSE 0]
        /\ blockHeight' = b
    BY <2>1, <2>2, CommitApplies
  <2>4. /\ b \in Nat \ {0}
        /\ \/ b = 1 /\ blockHeight = 1
           \/ b = blockHeight + 1 /\ Store!Complete(blockHeight)
    <3>1. currentBlock \in 1..LastBlock + 1
      BY <2>1 DEF InLoop, StoreInv, LoopInv
    <3>2. currentBlock \in Nat \ {0}
      BY <3>1, ConstantsAssumption
    <3>3. \/ currentBlock = 1 /\ blockHeight = 1
          \/ currentBlock = blockHeight + 1 /\ Store!Complete(blockHeight)
      BY <1>0, <2>1 DEF InLoop
    <3> QED
      BY <2>2, <3>2, <3>3
  <2>5. \A r \in Row : /\ r.block \in Nat \ {0} /\ rows[r] \in Nat
                       /\ rows'[r] = rows[r] + IF r.block = b THEN 1 ELSE 0
    BY <2>3, ConstantsAssumption DEF Row, Store!Row, Store!Blocks, StoreInv, TypeOK
  <2>6. ASSUME NEW r \in Row, r.block > 1
        PROVE  rows'[r] = IF r.block <= b THEN 1 ELSE 0
    <3>1. rows[r] = IF r.block <= blockHeight THEN 1 ELSE 0
      BY <1>0, <2>6
    <3> QED
      BY <1>0, <2>4, <2>5, <2>6, <3>1
  <2>7. ASSUME NEW r \in Row, r.block <= b PROVE rows'[r] >= 1
    <3>1. CASE r.block = b
      BY <2>5, <3>1
    <3>2. CASE r.block # b
      <4>1. b = blockHeight + 1 /\ Store!Complete(blockHeight) /\ r.block <= blockHeight
        BY <1>0, <2>4, <2>5, <2>7, <3>2
      <4>2. rows[r] >= 1
        BY <4>1 DEF Store!Complete, Row
      <4> QED
        BY <2>5, <3>2, <4>2
    <3> QED
      BY <3>1, <3>2
  <2>8. Store!Complete(b)'
    BY <2>7 DEF Store!Complete, Row
  <2>9. Store!Complete(blockHeight)'
    BY <2>3, <2>8
  <2>10. \A r \in Row : r.block > 1 => rows'[r] = IF r.block <= blockHeight' THEN 1 ELSE 0
    BY <2>3, <2>6
  <2> QED
    BY <2>1, <2>2, <2>3, <2>4, <2>9, <2>10 DEF OnceInv
<1>8. CASE Die
  BY <1>3, <1>8 DEF Die, store, InLoop
<1>9. CASE Retry /\ pc \in InLoop
  BY <1>3, <1>9 DEF Retry, store, InLoop
<1>10. CASE FetchBlock \/ PollAgain \/ SkipSnapshot \/ BeginSnapshot \/ TakeSnapshot
            \/ TryAgain \/ Stall \/ Sweep \/ CoreProduces \/ UNCHANGED vars
  BY <1>3, <1>10 DEF FetchBlock, PollAgain, SkipSnapshot, BeginSnapshot, TakeSnapshot,
     TryAgain, Stall, Sweep, CoreProduces, vars, store, counters, InLoop
<1>11. CASE StartHandlers
  BY <1>3, <1>11 DEF StartHandlers, store, counters, InLoop
<1>12. CASE \E t \in Tasks : StatementSucceeds(t)
  BY <1>3, <1>12, RowsStay DEF StatementSucceeds, counters, InLoop, Commit
<1> QED
  BY StoreCases, <1>4, <1>5, <1>6, <1>7, <1>8, <1>9, <1>10, <1>11, <1>12


\* Every step keeps the invariant for blocks applied once.
LEMMA StoreStep ==
    ASSUME HandlersDoNotFail, StoreInv, [Next]_vars
    PROVE  StoreInv'
<1>1. Quiet
  BY StoreQuiet
<1>2. TypeOK' /\ LoopInv'
  BY StepType DEF StoreInv
<1>3. TaskInv' /\ SnapInv' /\ TxnInv'
  BY <1>1, TaskStep, SnapStep, TxnStep DEF StoreInv
<1>4. NoStraggler' /\ ExactlyWritten' /\ OnceInv'
  BY StragglerStep, ExactlyStep, OnceStep
<1> QED
  BY <1>2, <1>3, <1>4 DEF StoreInv

\* A step of the loop is a step of the store, or none that shows in it.
LEMMA StepRefines ==
    ASSUME HandlersDoNotFail, StoreInv, [Next]_vars
    PROVE  [Store!Next]_Store!storeVars
<1> USE DEF Store!storeVars
<1>1. CASE UNCHANGED store
  BY <1>1 DEF store
<1>2. CASE SyncChain
  BY <1>2 DEF SyncChain, Store!Next, Store!CreateChain
<1>3. CASE CommitSnapshot
  <2>1. rows' = rows
    BY <1>3, RowsStay DEF CommitSnapshot, Commit
  <2>2. /\ pc = "snapshot" /\ pendingSnaps \subseteq {nextSnap} /\ pendingSnaps # {}
        /\ NeedsSnapshot(nextSnap) /\ nextSnap \in Snapshots
        /\ pendingHeight = 0 /\ ~ aborted
    BY <1>3 DEF CommitSnapshot, StoreInv, SnapInv, LoopInv, TxnInv, HasTxn
  <2>3. blockHeight' = blockHeight /\ snapDone' = snapDone \cup {nextSnap}
    BY <1>3, <2>2 DEF CommitSnapshot, CommitTxn
  <2>4. blockHeight >= 1 /\ currentBlock <= blockHeight + 1
    BY <2>2 DEF StoreInv, OnceInv, InLoop, TypeOK
  <2>5. Store!DueAt(nextSnap, blockHeight + 1) /\ nextSnap \notin snapDone
    <3>1. Cutoff[nextSnap] # 0 /\ Cutoff[nextSnap] <= currentBlock /\ nextSnap \notin snapDone
      BY <2>2 DEF NeedsSnapshot, Store!DueAt
    <3>2. /\ Cutoff[nextSnap] \in Nat /\ currentBlock \in Nat /\ blockHeight \in Nat
      BY <2>2, ConstantsAssumption DEF Snapshots, StoreInv, TypeOK
    <3> QED
      BY <2>4, <3>1, <3>2 DEF Store!DueAt
  <2> QED
    BY <2>1, <2>2, <2>3, <2>4, <2>5 DEF Store!Next, Store!TakeSnapshot
<1>4. CASE Commit
  <2>1. pc = "swept" /\ CommitTxn
    BY <1>4 DEF Commit
  <2>2. /\ rows' = [r \in Row |-> rows[r] + IF r.block = currentBlock THEN 1 ELSE 0]
        /\ blockHeight' = currentBlock /\ snapDone' = snapDone
    BY <2>1, CommitApplies
  <2>3. /\ blockHeight >= 1
        /\ \/ currentBlock = 1 /\ blockHeight = 1
           \/ currentBlock = blockHeight + 1 /\ Store!Complete(blockHeight)
    BY <2>1 DEF StoreInv, OnceInv, InLoop
  <2>4. currentBlock \in Store!Blocks
    BY <2>1, ConstantsAssumption DEF StoreInv, LoopInv, InLoop, HasBlock, TypeOK, Store!Blocks
  <2>5. \A s \in Snapshots : Store!DueAt(s, currentBlock) => s \in snapDone
    BY <2>1, ConstantsAssumption DEF StoreInv, SnapInv, DoneBefore, HasTxn, Snapshots
  <2> QED
    BY <2>2, <2>3, <2>4, <2>5 DEF Store!Next, Store!Apply, Row
<1>5. CASE \E t \in Tasks : StatementSucceeds(t)
  BY <1>5, RowsStay DEF StatementSucceeds, Commit, StoreInv, NoStraggler
<1> QED
  BY StoreCases, <1>1, <1>2, <1>3, <1>4, <1>5 DEF CoreProduces, Die, StartSync, FetchBlock,
     PollAgain, Retry, SkipSnapshot, BeginSnapshot, TakeSnapshot, StartHandlers, Sweep,
     TryAgain, Stall, vars, store

\* With crashes and failing loop queries, but handlers that do not fail, the
\* loop implements the block store: every block is applied atomically, in
\* order and once, and after the snapshots due at it.
THEOREM StoreRefined == HandlersDoNotFail => (Spec => StoreSpec)
<1> SUFFICES ASSUME HandlersDoNotFail PROVE Spec => Store!Spec
  BY DEF StoreSpec
<1>1. Init => Store!Init
  BY DEF Init, Store!Init, NoRows, Row
<1>2. StoreInv /\ [Next]_vars => StoreInv'
  BY StoreStep
<1>3. StoreInv /\ [Next]_vars => [Store!Next]_Store!storeVars
  BY StepRefines
<1> QED
  BY StoreInit, <1>1, <1>2, <1>3, PTL DEF Spec, Store!Spec


----------------------------------------------------------------------------
(* The stored height under every kind of fault. *)

\* The loop is never behind the stored height, and its open transaction can
\* only bring the height up to it.
LevelInv ==
    /\ pc \in InLoop => currentBlock >= blockHeight
    /\ pendingHeight # 0 => pc \in HasTxn /\ pendingHeight = currentBlock

\* Every step, of any kind, keeps the height at or below the loop and does not lower it.
LEMMA LevelStep ==
    ASSUME TypeOK, LoopInv, LevelInv, [Next]_vars
    PROVE  LevelInv' /\ blockHeight' >= blockHeight
<1>0. blockHeight \in Nat /\ currentBlock \in Nat
  BY ConstantsAssumption DEF TypeOK
<1> USE DEF LevelInv, InLoop, HasTxn
<1>1. ASSUME UNCHANGED blockHeight,
             pc' \in InLoop => pc \in InLoop /\ UNCHANGED currentBlock,
             \/ pendingHeight' = 0
             \/ pendingHeight' = pendingHeight /\ (pc \in HasTxn => pc' \in HasTxn)
      PROVE  LevelInv' /\ blockHeight' >= blockHeight
  BY <1>0, <1>1
<1>2. ASSUME Die \/ (Retry /\ pc \in InLoop) PROVE LevelInv' /\ blockHeight' >= blockHeight
  BY <1>1, <1>2, TxnType DEF Die, Retry, store
<1>3. CASE SyncChain
  BY <1>0, <1>3 DEF SyncChain, txn
<1>4. CASE StartSync
  BY <1>0, <1>4 DEF StartSync, ResumeAt, store, txn
<1>5. CASE CommitSnapshot
  <2>1. pendingHeight = 0
    BY <1>5 DEF CommitSnapshot
  <2>2. UNCHANGED blockHeight
    BY <1>5, <2>1 DEF CommitSnapshot, CommitTxn, store
  <2> QED
    BY <1>1, <1>5, <2>2, TxnType DEF CommitSnapshot
<1>6. CASE Commit \/ CommitLost
  <2>1. /\ pc = "swept" /\ CommitTxn /\ pendingHeight' = 0
        /\ currentBlock' \in {currentBlock, currentBlock + 1}
    BY <1>6, TxnType DEF Commit, CommitLost
  <2>2. blockHeight' \in {blockHeight, currentBlock}
    BY <2>1 DEF CommitTxn, store
  <2> QED
    BY <1>0, <2>1, <2>2
<1>7. CASE StartHandlers
  <2>1. /\ pc = "ready" /\ pc' = "handlers"
        /\ UNCHANGED <<blockHeight, currentBlock>>
        /\ pendingHeight' \in {pendingHeight, currentBlock}
    BY <1>7 DEF StartHandlers, store, counters
  <2> QED
    BY <1>0, <2>1
<1>8. CASE \E t \in Tasks : \/ StatementSucceeds(t) \/ StatementFails(t)
                            \/ StatementTimesOut(t) \/ HandlerThrows(t)
  BY <1>1, <1>8 DEF StatementSucceeds, StatementFails, StatementTimesOut, HandlerThrows,
     store, txn, counters
<1>9. CASE FetchBlock \/ PollAgain \/ SkipSnapshot \/ TakeSnapshot \/ BeginSnapshot
           \/ TryAgain \/ Stall \/ Sweep \/ CoreProduces \/ UNCHANGED vars
  BY <1>1, <1>9, TxnType DEF FetchBlock, PollAgain, SkipSnapshot, TakeSnapshot, BeginSnapshot,
     TryAgain, Stall, Sweep, CoreProduces, vars, store, txn, counters
<1>10. CASE Crash \/ Exit
  BY <1>2, <1>10 DEF Crash, Exit
<1>11. CASE PollGivesUp \/ LoopQueryFails \/ SnapshotFails \/ AttemptFails \/ SweepFails
            \/ CommitFails
  BY <1>2, <1>11 DEF PollGivesUp, LoopQueryFails, SnapshotFails, AttemptFails, SweepFails,
     CommitFails
<1> HIDE DEF LevelInv, InLoop, HasTxn
<1> QED
  BY NextCases, <1>3, <1>4, <1>5, <1>6, <1>7, <1>8, <1>9, <1>10, <1>11

\* Whatever fails, and even where blocks are lost, the stored height never
\* falls: no attempt, however late, brings an old height back.
THEOREM HeightNeverFallsHolds == Spec => HeightNeverFalls
<1> DEFINE Inv == TypeOK /\ LoopInv /\ LevelInv
<1>1. Init => Inv
  BY InitType DEF Init, LevelInv, InLoop
<1>2. Inv /\ [Next]_vars => Inv'
  BY StepType, LevelStep
<1>3. Inv /\ [Next]_vars => [blockHeight' >= blockHeight]_blockHeight
  BY LevelStep
<1> QED
  BY <1>1, <1>2, <1>3, PTL DEF Spec, HeightNeverFalls
===============================================================================
