# ixo-blocksync in TLA+

ixo-blocksync turns the blocks that blocksync-core has written into its own
Postgres database into the tables an API serves: transactions, entities,
tokens, claims, authorizations, DAOs.  It has no tests.  This directory holds
TLA+ models of the parts where its correctness depends on the order of things,
TLC configurations that check them, and TLAPS proofs about most of them.

Paths below are relative to `src/src/` of the repository.

## The system

| Part | State | Operations | Talks to |
|---|---|---|---|
| Sync loop `sync/sync_blocks.ts` | `currentBlock`, `count`, `errorCount`, the global `currentPool` | fetch a block, take due snapshots, run the handlers in one transaction, sweep, commit, retry, give up | core database, all handlers |
| Database client `postgres/client.ts` | a pool, at most one block transaction | `dbQuery` picks its connection when called; `withTransaction` | Postgres |
| Transactions handler `sync_handlers/transaction_sync.ts` | - | insert transactions and messages | client |
| Event dispatcher `sync_handlers/event_sync.ts` | one slot for a delayed function | event by event into the table handlers | `event_data_sync*.ts` |
| Entities, IIDs, tokens `postgres/entity.ts`, `iid.ts`, `token.ts`, `util/local-cache.ts` | tables, ledger, derived balances, class cache | create, mint, transfer, retire, cancel | client; the pool for cached lookups |
| Authorizations `postgres/authz.ts` | `authz_grant` | grant, revoke, consume, sweep | archive API |
| DAO handlers `event_data_sync_wasm_dao.ts`, `postgres/dao.ts` | some twenty tables | contract events; state read from the archive | archive API |
| Snapshots `sync/daodao_snapshot.ts`, `sync/v7_snapshot.ts` | a marker row each | once, before the first block at a height | archive API |
| Claims, epochs, bonds, names, swap, smart accounts, liquid staking `postgres/*.ts` | their tables | row per event, upserts | client, archive API |
| Archive client `util/archive-api.ts`, `archive-queries.ts` | a response cache | query at a height, retry, snap to a retained version | archive node |
| Crons `crons.ts`, `handlers/*` | - | fill columns from the network | client, pool |
| Start-up `index.ts`, `sync/sync_chain.ts` | the chain row | migrate, listen, sync | all |

What is hard: the three handlers of a block run at once and share a global that
says which connection a statement uses; any of them may fail, time out or go on
after the others failed; the process may die anywhere; what an event says is
often completed from an archive that answers with the END of the block, or of
a later one, or not at all; tables are derived from other tables, row by row;
snapshots and events write the same tables.  `PROJECT.json` lists each such
hazard at its line, with the property that covers it.

What makes each part correct:

- sync loop: blocks appear whole, in order, once, and all of them in the end;
  snapshots come first;
- events: after each block owners, balances, lists and links are the chain's;
  derived balances equal the ledger; no block is unindexable;
- authorizations: the rows are exactly the grants that live;
- DAOs: weights are the sums of the rows, and the rows are the chain's;
- claims, liquid staking, upgrade snapshot: the newest evaluation is the current
  one, one open dispute per subject and role, no newer row overwritten, columns
  two writers share filled again;
- epochs: each epoch under its own name, once, with its end;
- archive client: an answer is about the height that was asked for, and every
  request ends.

## Modules

### BlockStore and SyncBlocks

`BlockStore` is the promise: a store of blocks to which a block is applied in
one step, with its rows, its height and nothing else; snapshots before the
first block at their cutoff.  `SyncBlocks` is the code.

| TLA+ | code |
|---|---|
| `pc` | where `startSync` is: `fetch` (getCoreBlock), `ready`/`snapshot` (ensure... calls), `handlers` (Promise.all), `swept` (deleteExpiredAuthzGrants done, COMMIT due), `backoff` (the catch block) |
| `pending`, `pendingHeight`, `pendingSnaps`, `aborted` | the open transaction |
| `attempt`, `taskBlock`, `next`, `state` | the handlers started, those of failed attempts included |
| `OnClient`, `Insert` | `currentPool \|\| pool` in `dbQuery` |
| `Commit`, `CommitFails`, `CommitLost` | the three ends of COMMIT |
| `Exit`, `Stall` | the rethrow after the error limit |

Faults are of named kinds and a constant says which may happen, so that each
property is checked under the faults it is meant to survive.

A block's handlers are events, transactions and the chain row.  A row is named
by block, handler and position.  `MaxAttempts` bounds the transactions of one
process and is larger than what the fault and error limits can use up.

One exception is part of the promise: the chain row starts at height 1, so a
restart at height 1 indexes block 1 again.

### EventSync

The dispatcher with its single slot for a delayed function, and the tables of
entities and tokens.  The chain executes messages, each with the events the
ixo modules and the token contract emit in their order (a wasm event comes
before the module event of the same message); the indexer works them off in a
transaction that may fail and be retried.  `committed` is what the pool sees,
`work` what the transaction sees; the class cache survives a rollback, not a
crash.  `Recorded` and `RecordAll` are the loop over the transfers of one
contract event: which of them get a ledger row at once, and the rows they leave.
What can wait in the slot is `Waiting`.

Left out of the balance properties (`late`): a token minted in the very block
that created its class.  The lookup of the class goes through the pool
(`postgres/token.ts:7`, `util/local-cache.ts:20`), which does not see the
uncommitted class, and the transfer is not recorded.

The comment at `event_sync.ts:36` ("will be lost") is out of date: the error is
rethrown, the block rolled back and retried.

### AuthzIndex

The table of live grants.  The chain side has grants with a number of uses
left and an expiration; the index has rows; the archive answers exactly, from
a later retained version (`pruned`), or fails.  `backlog` lets the index lag
behind the chain, as in a backfill.  `tainted` names the keys whose row rests
on an answer that was not exact; it is history, no code reads it.

### DaoStaking, MCDaoStaking, DaoStakingProofs

Voting modules with what they rest on and weigh, stakers of coins, tokens and
NFTs, group members and the claims of what was unstaked, with the DAODAO
snapshot in the middle of the history.  Two token modules may share a staking
contract (`early`, `late`), and a module may be linked after stakes were made.

History variables: `blurred` are the contracts where stakes moved in the
snapshot's own block, `seen` the NFT stakers of whom an event was indexed (the
snapshot does not list NFTs).  `Deserted` groups, those that lost their last
member, are left out of two properties: the handler takes an empty list for no
answer and keeps the old rows (`event_data_sync_wasm_dao.ts:1246`) while the
weight becomes 0.

`StakesExact` fails in the snapshot's own block (`blurred`), as the snapshot
reads the end of the block whose events are then counted on top, although
`sync/daodao_snapshot.ts:71` has it run "so total_weight is correct".  The
waiting NFTs of a member are not compared at all: each unstaking inserts the
whole queue again (`event_data_sync_wasm_dao.ts:786`), although the migration
`20260526000000000_dao_governance_coverage.sql:90` says to deduplicate the rows.

Heights stand for block times; a claim's duration is in blocks.  Durations
given in heights, which the code stores without a release time, are not
modelled.  The snapshot and each block succeed at once here: that they are
atomic and retried is SyncBlocks' matter.

### DaoModules, MCDaoModules, DaoModulesProofs

A DAO's core with its voting module, proposal modules and pre-propose modules,
their proposals, votes and approvals.  The chain executes messages, each with
its events in order of execution; a block's events are then handled one after
the other against the state at the END of the block, which is what the archive
answers with.  `rows` are the tables; a statement that a foreign key refuses, or
a query the archive refuses, makes the whole attempt fail (`refused`), so that
`Index` or `TakeSnapshot` is not enabled: it would be refused again each time.

| TLA+ | code |
|---|---|
| `Handle` | the cutoff guard and the skipping catch of `processDaoEvent` |
| `CreateModule`, `SetPrePropose`, `CreateProposal`, ... | the statement of that name in `postgres/dao.ts`, with its ON CONFLICT and foreign keys |
| `UpdatedPolicy` | the deferred link of `event_data_sync_wasm_dao.ts:416` |
| `RefreshModules` | the stubs of `refreshDaoProposalModulesFromDumpState` |
| `Snapshot`, `SnapshotModule` | the passes of `runSnapshot` |
| `trouble` | queries whose failure the code passes over (`catch` without a throw) |

`gone` are the modules of which an event was skipped or whose proposals the
snapshot could not list; `troubles` the queries done without.  They are
history.  `Dangles` names what is refused for ever, and each of its cases
is at odds with a comment:

- the snapshot counts a listing of proposals that failed as empty
  (`daodao_snapshot.ts:480`); a later vote on one of them has no row to refer to,
  although line 243 says that "post-cutoff vote events FK successfully";
- the snapshot takes contracts from `wasm_instantiate`, but what they point to
  from the end of its block: a voting or pre-propose module instantiated in that
  block is not listed yet, and the passes "in FK-safe order" (line 160) fail;
- a module whose state cannot be read has its events skipped
  (`event_data_sync_wasm_dao.ts:168`, "the rest of the block is unaffected"), and
  what comes after, once it can be read again, lacks its rows; the snapshot has
  no such skip, so such a module stops it;
- an approval that is decided in the block it was asked for in is not pending at
  the end of it, so the query of line 1044 fails.

### ClaimsIndex, MCClaimsIndex, ClaimsIndexProofs

The claims module and liquid staking over the v7 upgrade.  What the chain emits
whole (collections, budgets, deposits, pools, parameters) is one table `mirror`
from keys to the message and the block of the newest write; claims, evaluations, disputes with
their resolutions and staking transactions have rows with a life of their own.
The upgrade changes state without an event; `TakeSnapshot` is `runSnapshot` of
`v7_snapshot.ts`.  `Replay` is a block indexed twice after a lost answer to
COMMIT.  `CronAsks`, `CronFills` and `CronGetsError` are the cron that fills
`Claim.schemaType` through the pool, while `UpdateClaim` sets it to what the
event carries, which is nothing.

Exceptions, each a named operator: two evaluations of one claim by one agent in
one block have one key (`Twice`); before the upgrade only the first dispute of
a subject gets a row (`Listed`); a block indexed twice in which a dispute was both
opened and resolved (`Blurred`) leaves a second row; staking transactions are
doubled then.

`KnownFrom` is the block from which on the running release knows the upgrade's
height.  `constants/v7_upgrade.ts:25` has the heights set "once the chain upgrade
goes live", so it may well be later than `UpgradeHeight`.  The snapshot then reads the
state at the upgrade's height over rows that events of later blocks wrote, although
`v7_snapshot.ts:88` says that these "are caught by the normal event-driven path,
which the indexer will already have processed": that is the order in which they
are lost.  The run `claims_overwritten` shows it (`LateEventsCaught`).  `MirrorsMatch`
says how far it goes, for any `KnownFrom`: a row may be back at what it was at the
upgrade if it is a collection's or a pool's and the chain's last write of it fell
between the upgrade and `KnownFrom` (`Overwritten`), so the next event mends it; and
if the snapshot is in time, there is none.  A value of the mirror therefore carries
the message and the block that wrote it (`Written`).  That budgets, collections and
pools are tables of their own is an assumption (`ClaimsParameters`).

### ArchiveContract, ArchiveApi, ArchiveApiProofs

`ArchiveContract` is what callers of the archive rely on: a request is answered
with the chain's state at the height asked for, or fails.  `ArchiveApi` is
`queryArchiveApi`: the cache keyed by path alone, emptied when a greater height
is asked for (`CleanedUp`), the retries, the errors that are not retried, and the
four ways of asking (in the block, ahead of it past the cache, at the upgrade's
height, and from handlers that a failed attempt left behind).  The cache is
written after the answer arrived, whatever height it is for by then; so the
contract has an exception: heights of attempts that failed (`abandoned`) may show
up in answers.  `Requests` is the refinement mapping: a request that fetches,
sleeps or was found in the cache is one that is asked.

### EpochIndex, MCEpochIndex

The chain's three kinds of epoch, all at number 1 in their first block, and the
handler that has only a number to go by: the lookup in the archive's list, the
module variable `initiated` for the first three, rows of `epoch` and
`epoch_event`.  Attempts fail and are repeated in the same process, the answer
to COMMIT may be lost, the process may crash; the archive's answers are those
`ArchiveContract` allows, so a retry may see a list of a block that failed
before.  `tainted` marks the blocks whose rows are not promised: handled with
such an answer, the first block attempted twice in one process, or repeated
after their COMMIT.

## Runs

| Run | Question | Result and bounds |
|---|---|---|
| `sync_crash` | does the loop implement BlockStore and index every block, with crashes and failing loop queries? | yes; 3 blocks, 2 snapshots, 4 faults, unique keys on |
| `sync_stragglers` | do stragglers, lost COMMIT answers and crashes leave gaps? | no; 3 blocks, 2 snapshots, 3 faults |
| `sync_faults` | what survives every kind of fault? | the height never falls and, without unique keys, the loop goes on; 2 blocks, 2 faults |
| `sync_poisoned` | does the loop go on under unique keys, too? | no: one failing handler and a straggler's row make every attempt of the block fail, across restarts |
| `event_sync` | do the tables stand for the chain after each block, does every block get indexed? | yes; 1 entity, 2 accounts, 1 class, 2 tokens, 4 messages, 1 failure |
| `authz` | are the rows the live grants? | yes where the archive answered exactly; no grant is ever lost; 3 keys (one of each kind), 5 heights, 3 messages, 1 fault |
| `dao_staking` | are weights sums of rows, and the rows the chain's? | yes but for the boundary block; 5 modules and contracts, 2 members, 2 NFTs, 5 messages, 3 blocks |
| `dao_modules` | do the rows follow a DAO's modules, does a foreign key ever refuse a block? | they do, and only in the cases of `Dangles`; 2 proposal, 2 pre-propose and 2 voting modules, 5 messages, 4 heights, cutoff 2, 1 passed-over failure |
| `claims` | do claims, disputes, evaluations and stakes agree with the chain over the upgrade? | yes; 2 claims of 1 collection, 1 of them with a broken document, 4 messages, 3 heights, upgrade at 2, 1 replay |
| `claims_overwritten` | what if the release that knows the upgrade comes late? | events of the blocks in between are lost: the snapshot puts the upgrade's state over their rows; 1 claim, 4 heights, upgrade at 2, known from 4, 2 messages |
| `archive` | does the client keep the contract, do requests end? | yes; 2 callers, 3 paths, 2 heights, 1 retry, 1 restart |
| `epochs` | does each epoch get its row, does the loop get past every block? | yes but for tainted blocks; 3 kinds of epoch, 5 blocks, 2 faults |

The violated properties are listed as findings, each with the sentence of the
repository that says otherwise.

Why the bounds are enough: block 2 of `sync_*` has two rows of either handler,
so a handler can stop before, between and after them, and a straggler can meet
a later attempt, a snapshot, a later block or a new process; two faults
combine.  In `event_sync` four messages allow entity, class, mint and a move or
burn, or two classes of events in one block; amounts {1, 2} of a mint of 2 tell
partial from full consumption.  `authz` has a key that is consumed, one that is
not and one granted by the chain itself; a snap interval of 2 separates pruned
from retained heights; lifetimes 0, 1, 2 give none, at once and later.
`dao_staking` needs instantiate, stake, unstake and claim, plus one; cutoff 2
of 3 blocks puts messages below, at and above it.  Members and NFTs are
symmetric; no liveness is checked in that run.  `dao_modules` needs a DAO, a
change of policy, a proposal and a vote, plus one, in blocks below, at and above
the cutoff; contracts of one kind are symmetric.  `claims` needs a claim, an
evaluation that is flagged and another, or two disputes and a resolution, across
the upgrade; a limit of 2 lets one broken claim take part of a batch.  A late
snapshot needs a block between the upgrade and the one it is taken before, hence
heights up to 4 in `claims_overwritten`; the evaluations and disputes of `claims`
at so many heights are too much for TLC, and the theorems about both cover it.
`archive` needs one caller that is left behind and one that is not.  In `epochs`
five blocks have all kinds start, the shortest start again twice and the longest
once; two faults are a failed attempt and a crash, or two in a row, which is
one more than the error limit 1 allows.

Disagreements with the docs that have no run of their own are named in the
sections above, where a property leaves them out.  Besides, a statement that times
out within insertBlock is logged and not rethrown (`transaction_sync.ts:98`), so the
block commits without the rows that were to follow, although `postgres/client.ts:30`
says of the timeout "the query rejects, the sync loop's retry path gets a fresh
connection".  `StatementTimesOut` and `FailTask` are that; with them `NoGap` fails,
which is why `sync_stragglers` and `NoGapHolds`, which state it, leave them out, and
`sync_faults`, which has them, checks other properties.  Rows that a straggler of a
failed attempt leaves behind are visible before their block
(`sync_blocks.ts:76`), although `postgres/smart_account.ts:3` says writes "MUST
ride the per-block transaction": `OrphansOfNextOnly` says how far that goes.
And where the archive pruned the height (`archive-queries.ts:810`), an
authorization can outlive its grant, which line 787 calls sound:
`ExactRowsAreCapabilities` leaves such keys out (`tainted`).

Deadlock is not checked where the bounds end the history (messages, heights,
faults) and, in `sync_stragglers`, where a stalled process stops by design.

`Stall` is what follows when the unhandled rejection of `startSync` does not end
the process, as may be with the hook `Sentry.init` installs (`index.ts:22`): the
loop is gone while the health endpoint still answers.  It falsifies both
liveness properties at once, so only the safety run has it; the others assume
that the rejection ends the process and the supervisor starts a new one.

## Fairness

`SyncBlocks`: the supervisor restarts a dead process (`Starts`), Node runs what
is ready (`Loop`), and a statement or query that was issued is answered or
times out (`query_timeout`, axios timeouts), so some handler moves
(`\E t : Handler(t)`).  A snapshot or a sweep may fail instead of succeeding,
hence their failures are in the same weak fairness.  Nothing is assumed of
blocksync-core, and no fault has to happen.  `EventSync`: weak fairness of
`Index`, since the loop retries a block until it is committed.  `ClaimsIndex`:
of `SyncLoop`, for the same reason, and of `Cron`, which node-cron starts every
minute and whose fetches end.  `ArchiveApi`: of each caller's `CallStep`, since a
fetch has a timeout and a sleep an end.  `EpochIndex`: of `SyncStep`, with the
exit and restart after too many errors as part of it.  `DaoModules` has no
liveness: a block is refused for ever or not at all, so that it is not is an
invariant.

## Proofs

`SyncBlocksProofs` proves, for every chain, every number of faults and every
limit:

| Theorem | Says | Assumes |
|---|---|---|
| `TypeCorrect` | `[]TypeOK` | nothing |
| `NoGapHolds` | every stored block is complete | no statement is refused or times out, no unique keys |
| `SnapshotFirstHolds` | snapshots precede the blocks they are due before | the same |
| `OrphansHold` | what failed attempts leave behind is of the next block only | the same |
| `HeightStepsHold` | the height moves by one | the same |
| `StoreRefined` | SyncBlocks implements BlockStore | handlers do not fail: only crashes and failing loop queries |
| `HeightNeverFallsHolds` | the height never falls | nothing: all faults |

`NoGap` is not inductive.  What it needs is `GapInv`: the types; where the loop
is and which block it holds (`LoopInv`); that a handler is done only when it
has written all its rows and that a started attempt works on the current block
(`TaskInv`); which snapshots are done before the next is due (`SnapInv`); that
the transaction is not aborted and updates the height to the current block
(`TxnInv`); that each row a handler is past is pending or stored
(`AtLeastWritten`); and that the stored block is complete and the current one
is it or the next (`CompleteInv`).  A straggler can only add rows, and a lost
COMMIT only makes the current block equal to the stored one.

`StoreRefined` needs equality instead of "at least": `StoreInv` replaces the
last two by `NoStraggler` (every unfinished handler is of the last attempt),
`ExactlyWritten` and `OnceInv` (every row of a stored block is there once, of
others not at all).  The step simulation maps `SyncChain` to `CreateChain`,
`CommitSnapshot` to `TakeSnapshot`, `Commit` to `Apply`, and the rest to
stuttering.

`OrphansHold` adds to `GapInv` that no row, visible or pending, and no running
handler is of a block beyond the next (`OrphanInv`).
`HeightNeverFalls` rests on a level that no open or straggling write goes
below (`LevelInv`).

`ArchiveApiProofs` proves, for every set of callers and paths, any number of
heights, retries and restarts and whatever the archive refuses:

| Theorem | Says |
|---|---|
| `ArchiveTypeCorrect` | `[]TypeOK` |
| `ContractRefined` | ArchiveApi implements ArchiveContract |

The step simulation needs to know what the cache holds: `IInv` says that under a
block handler's path there are only answers about `currentHeight` or about
abandoned heights, under the upgrade snapshot's paths only about its height
(`CacheOK`), and that a request which is still waited for and uses the cache is
about the block, which is then `currentHeight` (`Placed`); an answer is then one
the contract allows (`Owed`).  Without `Placed` a late answer could be stored
under a greater height by a request that nobody abandoned.

`AuthzIndexProofs` proves, for every set of keys, every lag, lifetime, limit and
snapshot interval, and any number of messages and bad answers:

| Theorem | Says |
|---|---|
| `AuthzTypeCorrect` | `[]TypeOK` |
| `NoGrantLostHolds` | between two blocks every grant of the chain has its row |
| `ExactRowsHold` | rows whose answers were exact are capabilities of the chain |
| `PayloadsHold` | their expirations, and what is left of them, are the chain's |

In a backfill the archive may answer with a state later than the block the index
is at, so what a row says need not be true of that block yet.  The invariant
looks ahead (`RowsInv`): at the end of EVERY block that is not indexed the row
agrees with the chain, as far as no event still to be processed writes its key.
It rests on what the blocks say of each other (`History`): at the end of a block
a key has what its last event told, or what it had before, unless that expired.

`EventSyncProofs` proves, for any entities, accounts, classes and tokens, blocks
of any length and any number of messages, failures and crashes:

| Theorem | Says |
|---|---|
| `TypeCorrect` | `[]TypeOK` |
| `OwnersHold`, `BalancesHold`, `ClassLinksHold` | after each block owners, balances and links are the chain's |
| `LedgerSumsHold` | at any moment the running totals are the sums of the ledger |
| `BurnsHold` | the lists of a class tell what its holders retired |
| `NothingLeft` | no block ends with the delayed function waiting |
| `NeverRefusedHolds` | no event of the chain runs into a key of the tables |

Between blocks the tables mirror the chain, in the middle of one they do not.  The
invariant says what will be (`History`): replaying the block's events from the
committed tables is possible, refuses nothing, leaves nothing waiting, and ends
in tables that mirror the chain as it is now; the transaction is at one of the
replay's states.  A message keeps that because its own events, worked through
at once after those before it, take a mirror of the chain to a mirror of what the
message made of it (the `*Plays` lemmas); here it matters that the slot is empty
after every message.  An event is a step of the replay, a failure starts it
again, and COMMIT stores its last state.  That the replay is the same at every
attempt rests on the cache never knowing a class that is not committed
(`Bounds`).  Of the chain it has to be known that minted tokens have a class,
unminted ones no holder, and lists of burns add up (`ChainOK`).

`ClaimsIndexProofs` proves, for any claims, agents, roles, pools and budgets, any
upgrade height, any number of messages and of blocks indexed twice:

| Theorem | Says | Assumes |
|---|---|---|
| `TypeCorrect` | `[]TypeOK` | nothing |
| `MirrorsHold` | rows that events write whole are as on the chain, but for those a late snapshot put back | nothing |
| `EvaluationsHold` | claims and their evaluations are as on the chain | nothing |
| `LiquidStakesHold` | staking transactions are, too, doubled only by `Replay` | nothing |
| `DisputesHold` | a dispute has one row, with its status, and a resolution just if it was decided; a blurred one has some row | nothing |

The rows follow the chain by one event at a time, so `Follows` says what they
hold after the first i events of the block (`Seen`: none before it is indexed,
all of them after).  For each of the three it has what the events tell
(`MirrorTold`, `ClaimsTold`, `StakesTold`: the last event about a key carries the
chain's value) and what the rows show (`MirrorSeen`, `ClaimsSeen`, `StakesSeen`:
whatever no later event is about is as on the chain).  `FollowsBlock` works through
a block by `FollowsStep`; that what holds after all events holds after none
(`FollowsAgain`) is why a block may be indexed again: an overwritten row has nothing
to wait for, an evaluation is found under its key.  A staking transaction
is not, and `StakesSeen` admits the double rows of the blocks in `replays`.
While the snapshot is waited for, the pool without an event may lack a row, and
staking transactions count as if they were relinked already (`Settled`).

What the snapshot writes into the mirror may be older than what is there.  For
`MirrorsHold` it has to be known when each value of the chain was written
(`MirrorDated`): what the chain has of a collection or pool since the upgrade is what
it had then or was written later, and what was written in this block has an event in
it.  The snapshot is taken before the upgrade block or before the first one at
`KnownFrom` (`UpgradeSeen`), so whatever it puts back either has an event still to come
or was last written between the two (`PutBack`, which is `Overwritten` for any table).

Disputes have an invariant of their own, `DisputesFollow`, which rests on `IInv`,
because their rows are found by subject and role and a replayed resolution may
meet the row of another dispute.  It is about what is still to come of a dispute in
the block (`ToOpen`, `ToEnd`): of one subject and role no two are ever open at once
(`OneOpen`), and a resolution is told after its opening.  After each event there is
an open row just if there is an open dispute (`OpenThere`); only while a block that
is indexed again still has events about them may this fail, and then no row is
missing (`AllThere`).  A row is as on the chain, missing until the dispute is
opened, or open until it is resolved (`RowSeen`), and when it is ahead of the events
the block is indexed again.  That can go wrong only if a dispute was opened in the
block in which another of its subject and role was resolved, and that block was
indexed twice: `Mixed`, which is what `Blurred` excepts.  Disputes of the old kind
share one row per subject, which stays open until the snapshot dismisses it and
keeps its serial number (`LegacySeen`).

`DaoStakingProofs` proves, for any modules, members, NFTs, durations and cutoff,
and any number of blocks and messages, as long as a contract has one code:

| Theorem | Says |
|---|---|
| `TypeCorrect` | `[]TypeOK`: outside `blurred` no row of a staker is zero or below |
| `WeightsHold` | a module weighs the sum of its rows |
| `StakesHold` | stakes, outside `blurred`, and group members are the chain's |
| `NftsHold` | no NFT is listed that is not staked, and none is missing after an event |
| `ClaimsHold` | as many claims wait as on the chain, of those made since the cutoff |

The indexer is in the middle of a block that the chain is at the end of, and the
snapshot, too, is of the end.  So `Invariant` says that the block has a history
(`IInv`): some `past`, where `past[i]` is what the chain was after i events, each
event being a `Step` (`Tells`), and the tables are somewhere in it (`Indexer`).  Rows
of stakers and claims, which handlers keep by adding, are those of `past[pos - 1]`.
NFTs and group members, which they read, are those of the end of the block
unless an event still to come is about them (`NftPending`, `MembersPending`).  Of the
history the snapshot needs that stakes no event is about are the same all along
(`Quiet`), so that it is off in the `blurred` contracts only, and that what the
indexer has not learned yet is announced by an event still to come (`Announced`).
Claims need two facts about queues: at the start of a block nothing in a queue
was made in it (`Before`), and the last entry of a queue that grew in the block
was (`Unstaked`), so taking the last entry for the newest, which the code does,
may insert a claim twice in place of two but never one from before the cutoff.
Below the cutoff there are no rows at all (`Asleep`).

`DaoModulesProofs` proves, for any contracts, voters and cutoff, and any number of
blocks, messages and failing queries, as long as a contract is of one kind
(`DaoParameters`):

| Theorem | Says |
|---|---|
| `Invariance` | `[]IInv`, with the types |
| `ModulesHold` | the core and its modules are as on the chain |
| `ProposalsHold` | proposals, votes and approvals are |
| `IndexableHolds` | no block or snapshot is refused but those `Dangles` names |

A handler stores what the archive has for the end of the block, so rows are ahead
of the events, and there is no moment of the chain they belong to.  `IInv` therefore
says what the events from the i-th on still have to tell (`To`): whatever the rows
do not show as on the chain, one of those events is about (`RowsSeen`: a core with
another voting module waits for a `voting_module`, a module with another policy for an
`update_policy`, a vote that is missing for a `vote`); what was made in this block
is announced (`BlockTold`); and each event is about things the chain has and that
no later event makes (`Told`), the last about a thing telling what became of it.
Messages keep this by adding what they announce (`Emits`, `Grows`); those that make
several contracts are split into one step for each event.  `AllHandled` goes
through the block event by event: one that is handled takes away what was to come
of it and nothing else (`OthersSeen`).  The same three facts say that no foreign key is in
the way: a contract that an event points to is there, or an instantiate still to
come would make it, which `Told` excludes (`ContractThere`, `HandleStands`).  Before
the snapshot there is nothing but `wasm_instantiate` (`Bare`), and `SnapshotTaken`
goes through the modules as the snapshot does, in whatever order: what it has of the
first ones is what the chain has at the end of the block (`Taken`), and that of the rest
is still to come.  The folds are unfolded once, for both (`PassExists`).

`SumLemmas` has what the sums of the ledger, the weights and the claims need: sums over a set that grows by an
element, or over functions that agree, for any finite set.  The library's
induction theorems take an operator, which the provers cannot instantiate; the
lemmas are proved by the least number at which a claim fails, a set in place of
a predicate.

Only model-checked: the liveness properties, which need fairness; the
types and the rows of EpochIndex; and the violated properties.

## Not modelled

Decoding of transactions and of contract attributes; formatting; TLS, pool
sizes and memory logging; the schema beyond the keys the models need; the
custom sync and the backfill script, which production does not run; the
network I/O of the crons other than the one that fills `schemaType`.  Names,
bonds, swaps and smart accounts are rows per event, upserted by key and read by
nothing else: a model would restate the assignments.  Of the DAO tables, items,
admin, pause, hooks and the columns that mirror a config.  The paging of
archive listings.  Sums of 128-bit amounts in doubles are abstracted to
integers.  Block boundaries in EventSync, AuthzIndex, DaoStaking, DaoModules and
ClaimsIndex are those of SyncBlocks with a block as one transaction.

## Plan

Modelled, in this order: `BlockStore` and `SyncBlocks`; `EventSync`;
`AuthzIndex`; `DaoStaking`; `ClaimsIndex`; `ArchiveContract` and `ArchiveApi`;
`EpochIndex`; `DaoModules`.  The type invariants and the safety
properties of all but EpochIndex are proved.  What is left is to prove those of
EpochIndex, which are model-checked: `EpochEventsMatch` needs arithmetic about
the kinds' durations, which numbers can be met at once.
