------------------------------ MODULE ClaimsIndex ------------------------------
(***************************************************************************)
(* The tables of the claims module and of liquid staking, and the one-shot *)
(* snapshot that brings them over the v7 upgrade of the chain              *)
(* (sync/v7_snapshot.ts).                                                  *)
(*                                                                         *)
(* The chain tells of a collection, a member budget, a deposit balance, a  *)
(* pool or the module parameters by emitting the whole of it, so these are *)
(* rows that each event overwrites: one table `mirror` from keys to the    *)
(* message and the block of the newest write.  Claims, evaluations,        *)
(* disputes and the transactions of liquid staking have rows with a life   *)
(* of their own.                                                           *)
(*                                                                         *)
(* The upgrade rewrites state without an event: open disputes of the old   *)
(* kind are dismissed, the pool "zero" appears, and what was staked before *)
(* belongs to it.  The snapshot reads the state at the upgrade's height,   *)
(* once, before the first block at or above it that a release indexes      *)
(* which knows that height.                                                *)
(*                                                                         *)
(* Beside the sync loop a cron fills Claim.schemaType from the network,    *)
(* through the pool.  A row that the open block updated is locked until it *)
(* commits, so a block and a fill are each one step.  The rows of a block  *)
(* appear at once, which is SyncBlocks' matter; that its COMMIT may have   *)
(* succeeded although the loop believes it failed is not: see Replay.      *)
(***************************************************************************)
EXTENDS Naturals, Sequences, FiniteSets, SequencesExt

CONSTANTS
    Collections, Budgets, Pools,
    Zero,           \* the pool the upgrade creates
    Claims,
    CollectionOf,   \* of each claim
    Broken,         \* claims whose document cannot be fetched
    Agents,         \* evaluators
    Roles,          \* whom a dispute is against, since the upgrade
    UpgradeHeight,
    KnownFrom,      \* the first block indexed by a release that knows it
    BatchLimit,     \* claims the cron asks for at a time: 150 in the code
    MaxHeight,      \* bound: heights
    MaxMessages,    \* bound: messages in all
    MaxReplays      \* bound: blocks whose COMMIT answer is lost

ASSUME ClaimsParameters ==
    /\ Zero \in Pools
    /\ Budgets \cap (Collections \cup Pools) = {} /\ Collections \cap Pools = {}
    /\ CollectionOf \in [Claims -> Collections]
    /\ Broken \subseteq Claims
    /\ {UpgradeHeight, BatchLimit, MaxHeight} \subseteq Nat \ {0}
    /\ {KnownFrom, MaxMessages, MaxReplays} \subseteq Nat

VARIABLES
    height,     \* the chain's block in the making ...
    phase,      \* ... which is "open", "due" for indexing or "done"
    events,     \* its events
    messages,
    chain,      \* the chain's state
    upgraded,   \* << >> or <<the state at the end of the upgrade block>>
    rows,       \* the database
    migrated,   \* v7_snapshot_state.completed_at is set
    fetching,   \* the claims the cron is asking the network about
    replays     \* the blocks indexed twice

chainVars == <<height, events, messages, chain, upgraded>>
vars == <<chainVars, phase, rows, migrated, fetching, replays>>

None == << >>             \* no current evaluation; otherwise it is <<it>>
Legacy == "unspecified"   \* the role of a dispute from before the upgrade
NoPool == ""

Put(f, k, v) == [x \in DOMAIN f \cup {k} |-> IF x = k THEN v ELSE f[x]]
Without(f, k) == [x \in DOMAIN f \ {k} |-> f[x]]

Upgraded == height >= UpgradeHeight

----------------------------------------------------------------------------
(* The chain. *)

\* The collections that earlier blocks made.
Founded == [k \in Collections |-> [no |-> 0, at |-> 0]]

Init ==
    /\ height = 1
    /\ phase = "open"
    /\ events = << >>
    /\ messages = 0
    /\ chain = [mirror |-> Founded, claim |-> << >>, dispute |-> {}, tx |-> {}]
    /\ upgraded = << >>
    /\ rows = [mirror |-> Founded, claim |-> << >>, evaluation |-> {},
               dispute |-> {}, resolution |-> {}, tx |-> {}]
    /\ migrated = FALSE
    /\ fetching = {}
    /\ replays = {}

Stamp == messages + 1

\* A write of this message.
Written == [no |-> Stamp, at |-> height]

Emit(evs) ==
    /\ phase = "open"
    /\ messages < MaxMessages
    /\ messages' = messages + 1
    /\ events' = events \o evs
    /\ UNCHANGED <<height, upgraded, phase, rows, migrated, fetching, replays>>

Upsert(k) == [type |-> "upsert", key |-> k, stamp |-> Written]

\* A collection, a budget or deposit, a pool or the parameters are written.
ChainWrites(k) ==
    /\ k \in Pools => Upgraded
    /\ k = Zero => k \in DOMAIN chain.mirror
    /\ chain' = [chain EXCEPT !.mirror = Put(@, k, Written)]
    /\ Emit(<<Upsert(k)>>)

ChainRemovesBudget(k) ==
    /\ k \in Budgets \cap DOMAIN chain.mirror
    /\ chain' = [chain EXCEPT !.mirror = Without(@, k)]
    /\ Emit(<<[type |-> "remove", key |-> k]>>)

\* The counters of the collection change with each claim.
Counted(c) == Put(chain.mirror, CollectionOf[c], Written)

ClaimEvent(type, c, claim) ==
    [type |-> type, claim |-> c, current |-> claim.current, history |-> claim.history]

ChainSubmits(c) ==
    LET claim == [current |-> None, history |-> << >>]
    IN  /\ c \notin DOMAIN chain.claim
        /\ chain' = [chain EXCEPT !.mirror = Counted(c), !.claim = Put(@, c, claim)]
        /\ Emit(<<ClaimEvent("submit", c, claim), Upsert(CollectionOf[c])>>)

\* An evaluation; a flagged claim, which the upgrade introduces, can be
\* evaluated again, and the evaluation before goes to its history.
ChainEvaluates(c, a, status) ==
    /\ c \in DOMAIN chain.claim
    /\ status = "flagged" => Upgraded
    /\ LET old == chain.claim[c]
           claim == [current |-> <<[claim |-> c, agent |-> a, date |-> height, status |-> status]>>,
                     history |-> old.history \o old.current]
       IN  /\ old.current # None => old.current[1].status = "flagged"
           /\ chain' = [chain EXCEPT !.mirror = Counted(c), !.claim[c] = claim]
           /\ Emit(<<ClaimEvent("update", c, claim), Upsert(CollectionOf[c])>>)

\* A payment of the claim makes progress: the claim is emitted as it is.
ChainPays(c) ==
    /\ c \in DOMAIN chain.claim
    /\ Emit(<<ClaimEvent("update", c, chain.claim[c])>>)
    /\ UNCHANGED chain

\* Since the upgrade there is at most one open dispute per subject and role;
\* before, a claim could have any number.
ChainDisputes(c, role) ==
    LET d == [subject |-> c, role |-> role, no |-> Stamp, at |-> height,
              status |-> "open", resolved |-> 0]
    IN  /\ c \in DOMAIN chain.claim
        /\ (role = Legacy) = ~ Upgraded
        /\ Upgraded => \A x \in chain.dispute :
                         ~ (x.subject = c /\ x.role = role /\ x.status = "open")
        /\ chain' = [chain EXCEPT !.dispute = @ \cup {d}]
        /\ Emit(<<[type |-> "dispute", dispute |-> d]>>)

ChainResolves(d, status) ==
    LET e == [d EXCEPT !.status = status, !.resolved = height]
    IN  /\ d.status = "open" /\ d.role # Legacy
        /\ chain' = [chain EXCEPT !.dispute = (@ \ {d}) \cup {e}]
        /\ Emit(<<[type |-> "resolve", dispute |-> e]>>)

\* Someone stakes: with a pool since the upgrade, with none before.
ChainStakes(p) ==
    LET tx == [no |-> Stamp, at |-> height, pool |-> p]
    IN  /\ IF Upgraded THEN p \in Pools \cap DOMAIN chain.mirror ELSE p = NoPool
        /\ chain' = [chain EXCEPT !.tx = @ \cup {tx}]
        /\ Emit(<<[type |-> "stake", tx |-> tx]>>)

ChainEndsBlock ==
    /\ phase = "open"
    /\ phase' = "due"
    /\ upgraded' = IF height = UpgradeHeight THEN <<chain>> ELSE upgraded
    /\ UNCHANGED <<height, events, messages, chain, rows, migrated, fetching, replays>>

\* What the upgrade does at the beginning of its block.
Migrated(c) ==
    [c EXCEPT !.mirror = Put(@, Zero, [no |-> 0, at |-> UpgradeHeight]),
              !.dispute = {IF d.status = "open" THEN [d EXCEPT !.status = "dismissed"] ELSE d
                               : d \in @},
              !.tx = {[t EXCEPT !.pool = Zero] : t \in @}]

ChainBeginsBlock ==
    /\ phase = "done"
    /\ height < MaxHeight
    /\ phase' = "open"
    /\ height' = height + 1
    /\ events' = << >>
    /\ chain' = IF height + 1 = UpgradeHeight THEN Migrated(chain) ELSE chain
    /\ UNCHANGED <<messages, upgraded, rows, migrated, fetching, replays>>

----------------------------------------------------------------------------
(* What the events make of the rows: syncEventData and postgres/claim.ts.   *)

SameKey(x, y) == x.claim = y.claim /\ x.agent = y.agent /\ x.date = y.date

InsertEvaluation(r, e) ==
    IF \E x \in r.evaluation : SameKey(x, e) THEN r
    ELSE [r EXCEPT !.evaluation = @ \cup {e}]

InsertEvaluations(r, es) ==
    LET after[i \in 0..Len(es)] ==
            IF i = 0 THEN r ELSE InsertEvaluation(after[i - 1], es[i])
    IN  after[Len(es)]

CreateClaim(r, ev) ==
    InsertEvaluations([r EXCEPT !.claim = Put(@, ev.claim, [current |-> None, typed |-> FALSE])],
                      ev.history)

\* Bug: the pointer is set once.
SetFirstEvaluation(r, c, e) ==
    IF r.claim[c].current # None THEN r
    ELSE [r EXCEPT !.claim[c].current = <<[agent |-> e.agent, date |-> e.date]>>]

\* The claim points at the row that has the evaluation's key.
SetCurrentEvaluation(r, c, e) ==
    [r EXCEPT !.claim[c].current = <<[agent |-> e.agent, date |-> e.date]>>]

\* Every column is written, schemaType too, which the event does not carry.
UpdateClaim(r, ev) ==
    LET updated == InsertEvaluations([r EXCEPT !.claim[ev.claim].typed = FALSE], ev.history)
    IN  IF ev.current = None THEN updated
        ELSE SetCurrentEvaluation(InsertEvaluation(updated, ev.current[1]),
                                  ev.claim, ev.current[1])

Open(r, subject, role) ==
    {d \in r.dispute : d.subject = subject /\ d.role = role /\ d.status = "open"}

\* The partial unique index drops a second open dispute without an error.
CreateDispute(r, d) ==
    IF Open(r, d.subject, d.role) # {} THEN r
    ELSE [r EXCEPT !.dispute = @ \cup {[id |-> Cardinality(r.dispute) + 1, subject |-> d.subject,
                                       role |-> d.role, no |-> d.no, status |-> d.status]}]

\* Bug: the newest dispute of the subject is taken, whatever it is against.
ResolveNewest(r, d) ==
    LET open == {x \in r.dispute : x.subject = d.subject /\ x.status = "open"}
        latest == CHOOSE x \in open : \A y \in open : x.no >= y.no
    IN  IF open = {} THEN r
        ELSE [r EXCEPT !.dispute = (@ \ {latest}) \cup {[latest EXCEPT !.status = d.status]},
                       !.resolution = @ \cup {latest.id}]

\* Bug: the resolution is inserted whether or not a dispute was open.
ResolveAnyway(r, d) ==
    LET open == Open(r, d.subject, d.role)
        latest == CHOOSE x \in open : \A y \in open : x.no >= y.no
    IN  IF open = {} THEN [r EXCEPT !.resolution = @ \cup {0}]
        ELSE [r EXCEPT !.dispute = (@ \ {latest}) \cup {[latest EXCEPT !.status = d.status]},
                       !.resolution = @ \cup {latest.id}]

\* One statement flips the status of the newest open dispute and inserts the
\* resolution; without an open dispute it does nothing.
ResolveDispute(r, d) ==
    LET open == Open(r, d.subject, d.role)
        latest == CHOOSE x \in open : \A y \in open : x.no >= y.no
    IN  IF open = {} THEN r
        ELSE [r EXCEPT !.dispute = (@ \ {latest}) \cup {[latest EXCEPT !.status = d.status]},
                       !.resolution = @ \cup {latest.id}]

\* Under a serial number: nothing tells a row from the same one inserted twice.
InsertLiquidStakeTx(r, tx) ==
    [r EXCEPT !.tx = @ \cup {[id |-> Cardinality(r.tx) + 1, no |-> tx.no, at |-> tx.at,
                              pool |-> tx.pool]}]

\* Collections, member budgets, deposit balances, pools and parameters.
HandleWhole(r, ev) ==
    IF ev.type = "upsert" THEN [r EXCEPT !.mirror = Put(@, ev.key, ev.stamp)]
    ELSE [r EXCEPT !.mirror = Without(@, ev.key)]

HandleClaim(r, ev) == IF ev.type = "submit" THEN CreateClaim(r, ev) ELSE UpdateClaim(r, ev)

HandleDispute(r, ev) ==
    IF ev.type = "dispute" THEN CreateDispute(r, ev.dispute) ELSE ResolveDispute(r, ev.dispute)

Handle(r, ev) ==
    CASE ev.type \in {"upsert", "remove"} -> HandleWhole(r, ev)
      [] ev.type \in {"submit", "update"} -> HandleClaim(r, ev)
      [] ev.type \in {"dispute", "resolve"} -> HandleDispute(r, ev)
      [] ev.type = "stake" -> InsertLiquidStakeTx(r, ev.tx)

\* What a block makes of them, one event after the other.
Handled(r) ==
    LET after[i \in 0..Len(events)] == IF i = 0 THEN r ELSE Handle(after[i - 1], events[i])
    IN  after[Len(events)]

----------------------------------------------------------------------------
(* The snapshot: ensureV7Snapshot and runSnapshot.                          *)

SnapshotDue == height >= UpgradeHeight /\ height >= KnownFrom /\ ~ migrated

\* Bug: rows are updated, none is inserted.
RefreshedRows(mirror, asked) ==
    LET answered == upgraded[1].mirror
        written == DOMAIN answered \cap (Pools \cup asked)
    IN  [k \in DOMAIN mirror |-> IF k \in written THEN answered[k] ELSE mirror[k]]

\* All pools and those of the known collections that the archive answers for.
Refreshed(mirror, asked) ==
    LET answered == upgraded[1].mirror
        written == DOMAIN answered \cap (Pools \cup asked)
    IN  [k \in DOMAIN mirror \cup written |->
            IF k \in written THEN answered[k] ELSE mirror[k]]

DismissLegacyDisputes(disputes) ==
    {IF d.status = "open" /\ d.role = Legacy THEN [d EXCEPT !.status = "dismissed"] ELSE d
        : d \in disputes}

\* Bug: the block before the upgrade is left out.
RelinkOlderTx(txs) ==
    {IF t.pool = NoPool /\ t.at + 1 < UpgradeHeight THEN [t EXCEPT !.pool = Zero] ELSE t
        : t \in txs}

RelinkLegacyTx(txs) ==
    {IF t.pool = NoPool /\ t.at < UpgradeHeight THEN [t EXCEPT !.pool = Zero] ELSE t
        : t \in txs}

TakeSnapshot ==
    /\ phase = "due"
    /\ SnapshotDue
    /\ \E asked \in SUBSET (Collections \cap DOMAIN rows.mirror) :
        rows' = [rows EXCEPT !.mirror = Refreshed(@, asked),
                             !.dispute = DismissLegacyDisputes(@),
                             !.tx = RelinkLegacyTx(@)]
    /\ migrated' = TRUE
    /\ UNCHANGED <<chainVars, phase, fetching, replays>>

----------------------------------------------------------------------------
(* The sync loop, as far as these tables see it. *)

IndexBlock ==
    /\ phase = "due"
    /\ ~ SnapshotDue
    /\ rows' = Handled(rows)
    /\ phase' = "done"
    /\ UNCHANGED <<chainVars, migrated, fetching, replays>>

\* The answer to COMMIT was lost and the block is indexed again.  A claim is
\* inserted without ON CONFLICT, so a block with a new claim gets stuck then,
\* see SyncBlocks; what is left are the blocks that can be indexed twice.
Replay ==
    /\ phase = "done"
    /\ height \notin replays
    /\ Cardinality(replays) < MaxReplays
    /\ \A i \in DOMAIN events : events[i].type # "submit"
    /\ rows' = Handled(rows)
    /\ replays' = replays \cup {height}
    /\ UNCHANGED <<chainVars, phase, migrated, fetching>>

----------------------------------------------------------------------------
(* The cron: getAllClaimTypesFromCellnode, one collection after the other.  *)
(* It does not start again before it has ended.                             *)

Untyped(k) == {c \in DOMAIN rows.claim : CollectionOf[c] = k /\ ~ rows.claim[c].typed}

\* Bug: one claim less than the limit.
BatchBelow(k) ==
    {S \in SUBSET Untyped(k) :
        Cardinality(S) = (IF Cardinality(Untyped(k)) < BatchLimit
                          THEN Cardinality(Untyped(k)) ELSE BatchLimit - 1)}

\* Any so many of the rows without a type: the query has no ORDER BY.
Batches(k) ==
    {S \in SUBSET Untyped(k) :
        Cardinality(S) = (IF Cardinality(Untyped(k)) < BatchLimit
                          THEN Cardinality(Untyped(k)) ELSE BatchLimit)}

CronAsks ==
    /\ fetching = {}
    /\ \E k \in Collections : \E S \in Batches(k) :
        /\ S # {}
        /\ fetching' = S
    /\ UNCHANGED <<chainVars, phase, rows, migrated, replays>>

\* The document, or a 404, gives a type; it is written to the row as it is by
\* then, also if that was updated since.
CronFills(c) ==
    /\ c \in fetching \ Broken
    /\ rows' = [rows EXCEPT !.claim[c].typed = TRUE]
    /\ fetching' = fetching \ {c}
    /\ UNCHANGED <<chainVars, phase, migrated, replays>>

\* Any other error leaves the column empty.
CronGetsError(c) ==
    /\ c \in fetching \cap Broken
    /\ fetching' = fetching \ {c}
    /\ UNCHANGED <<chainVars, phase, rows, migrated, replays>>

----------------------------------------------------------------------------

Chain ==
    \/ \E k \in Collections \cup Budgets \cup Pools : ChainWrites(k) \/ ChainRemovesBudget(k)
    \/ \E c \in Claims :
        \/ ChainSubmits(c) \/ ChainPays(c)
        \/ \E a \in Agents, status \in {"flagged", "final"} : ChainEvaluates(c, a, status)
        \/ \E role \in Roles \cup {Legacy} : ChainDisputes(c, role)
    \/ \E d \in chain.dispute, status \in {"awarded", "dismissed"} : ChainResolves(d, status)
    \/ \E p \in Pools \cup {NoPool} : ChainStakes(p)
    \/ ChainEndsBlock \/ ChainBeginsBlock

SyncLoop == TakeSnapshot \/ IndexBlock

Cron == CronAsks \/ \E c \in Claims : CronFills(c) \/ CronGetsError(c)

Next == Chain \/ SyncLoop \/ Replay \/ Cron

Spec == Init /\ [][Next]_vars

\* The loop retries until a block is indexed, node-cron starts the cron every
\* minute, and a fetch ends one way or the other.
FairSpec == Spec /\ WF_vars(SyncLoop) /\ WF_vars(Cron)

----------------------------------------------------------------------------

IsMirror(f) ==
    /\ DOMAIN f \subseteq Collections \cup Budgets \cup Pools
    /\ \A k \in DOMAIN f : f[k] \in [no : 0..MaxMessages, at : 0..MaxHeight]

TypeOK ==
    /\ height \in 1..MaxHeight
    /\ phase \in {"open", "due", "done"}
    /\ messages \in 0..MaxMessages
    /\ IsMirror(chain.mirror) /\ IsMirror(rows.mirror)
    /\ Len(upgraded) <= 1
    /\ DOMAIN rows.claim \subseteq DOMAIN chain.claim
    /\ \A c \in DOMAIN rows.claim : rows.claim[c].typed \in BOOLEAN
    /\ \A d \in rows.dispute : d.status \in {"open", "awarded", "dismissed"}
    /\ rows.resolution \subseteq {d.id : d \in rows.dispute}
    /\ migrated \in BOOLEAN
    /\ fetching \subseteq DOMAIN rows.claim
    /\ replays \subseteq 1..MaxHeight

Indexed == phase = "done"

\* The row of a collection or pool that was written after the upgrade but in a
\* block before the snapshot, which put back what it had at the upgrade.
Overwritten(k) ==
    /\ k \in Collections \cup Pools
    /\ upgraded # << >>
    /\ k \in DOMAIN upgraded[1].mirror /\ rows.mirror[k] = upgraded[1].mirror[k]
    /\ UpgradeHeight < chain.mirror[k].at /\ chain.mirror[k].at < KnownFrom

\* Once the snapshot was taken, each collection, budget, deposit, pool and the
\* parameters have a row just if they are on the chain, and it is as they are
\* there, those the upgrade wrote without an event included; but for rows that
\* a late snapshot put back (v7_snapshot.ts:92) and no event has written since.
\* A snapshot in time, KnownFrom <= UpgradeHeight, puts none back.
MirrorsMatch ==
    Indexed /\ (Upgraded => migrated) =>
        /\ DOMAIN rows.mirror = DOMAIN chain.mirror
        /\ \A k \in DOMAIN rows.mirror : rows.mirror[k] = chain.mirror[k] \/ Overwritten(k)

\* What v7_snapshot.ts:88 says of a snapshot that is taken late: what events
\* wrote since the upgrade is in the tables.
LateEventsCaught == Indexed /\ (Upgraded => migrated) => rows.mirror = chain.mirror

\* An agent evaluated a claim twice in one block: the unique key keeps one.
Twice(c, a, date) ==
    Cardinality({i \in DOMAIN chain.claim[c].history \cup {0} :
        LET e == IF i = 0 THEN chain.claim[c].current[1] ELSE chain.claim[c].history[i]
        IN  e.agent = a /\ e.date = date}) > 1

\* After each block a claim's current evaluation is the one the chain made
\* last, with its status, its history has the others, and no other claim's
\* evaluations are mixed in, however often the claim was emitted; but for two
\* evaluations under one key.
EvaluationsMatch ==
    Indexed => \A c \in DOMAIN chain.claim :
        LET claim == chain.claim[c]
            all == ToSet(claim.history \o claim.current)
        IN  /\ c \in DOMAIN rows.claim
            /\ (rows.claim[c].current = None) = (claim.current = None)
            /\ {<<e.agent, e.date>> : e \in {x \in rows.evaluation : x.claim = c}}
               = {<<e.agent, e.date>> : e \in all}
            /\ claim.current # None =>
                LET e == claim.current[1]
                IN  /\ rows.claim[c].current[1] = [agent |-> e.agent, date |-> e.date]
                    /\ Twice(c, e.agent, e.date) \/ e \in rows.evaluation

\* Of the disputes of the old kind only the first of a subject gets a row.
Listed(d) ==
    d.role = Legacy => \A x \in chain.dispute :
        x.subject = d.subject /\ x.role = Legacy => d.no <= x.no

\* A block that was indexed twice opened and resolved disputes of d's subject
\* and role: the second time, a resolution may meet another dispute's row.
Blurred(d) ==
    \E x, y \in chain.dispute :
        /\ {<<x.subject, x.role>>, <<y.subject, y.role>>} = {<<d.subject, d.role>>}
        /\ x.resolved = y.at /\ y.at \in replays

\* After each block every dispute has one row with the status it has on the
\* chain, dismissed by the upgrade included, and a resolution just if an
\* adjudicator decided it; but for the blurred ones, which have some row.
DisputesMatch ==
    Indexed /\ (Upgraded => migrated) => \A d \in chain.dispute :
        Listed(d) =>
            LET ds == {x \in rows.dispute : x.no = d.no}
            IN  /\ ds # {}
                /\ ~ Blurred(d) => \E x \in ds :
                    /\ ds = {x} /\ x.status = d.status
                    /\ x.id \in rows.resolution <=> d.resolved # 0

\* After each block every transaction of liquid staking is there, once unless
\* its block was indexed twice, under the pool it belongs to on the chain:
\* those from before the upgrade under the pool the upgrade created.
LiquidStakesMatch ==
    Indexed /\ (Upgraded => migrated) =>
        /\ {[no |-> t.no, at |-> t.at, pool |-> t.pool] : t \in rows.tx} = chain.tx
        /\ \A t, u \in rows.tx : t.no = u.no => t = u \/ t.at \in replays

\* Claims whose documents cannot be fetched do not keep the others of their
\* collection from getting a type, as long as they are fewer than the limit,
\* and what an update takes back is filled again.
Typed(c) == c \in DOMAIN rows.claim => rows.claim[c].typed

SchemaTypesFilled == \A c \in Claims \ Broken : ~ Typed(c) ~> Typed(c)
===============================================================================
