------------------------------ MODULE DaoStaking ------------------------------
(***************************************************************************)
(* Who votes with what weight in a DAO: the tables dao_voting_module (its  *)
(* total_weight), dao_native_staker, dao_cw20_staker, dao_cw721_staker,    *)
(* dao_cw4_member and dao_staking_claim, written by the handlers of        *)
(* event_data_sync_wasm_dao.ts and, once, by the snapshot of               *)
(* sync/daodao_snapshot.ts.                                                *)
(*                                                                         *)
(* Below a cutoff height the archive cannot answer, so the events of those *)
(* blocks are dropped.  The snapshot is taken before the block at the      *)
(* cutoff is indexed, but from the archive's state at the END of that      *)
(* block; then the block's own events are indexed on top of it.  A native  *)
(* or cw20 stake is kept by adding what the events say; NFTs and group     *)
(* members are read from the archive, at the end of the block again.       *)
(*                                                                         *)
(* The block transaction is SyncBlocks' matter: here every block, and the  *)
(* snapshot, succeeds at once.                                             *)
(***************************************************************************)
EXTENDS Integers, Sequences, SequencesExt, FiniteSetsExt

CONSTANTS
    CoinModules,   \* dao_voting_native_staked: coins are staked with the module
    NftModules,    \* dao_voting_cw721_staked: NFTs are
    TokenModules,  \* dao_voting_cw20_staked: tokens are, with a contract that
    Stakings,      \* several modules may use (cw20_stake)
    GroupModules,  \* dao_voting_cw4: the members of a group ...
    Groups,        \* ... vote (cw4_group)
    Base,          \* the contract each token or group module rests on
    Members,       \* whoever stakes or is a member
    Nfts,
    Amounts,       \* what is staked or unstaked at a time; also weights
    Duration,      \* for how many blocks each contract holds back what is
                   \* unstaked, 0 for not at all
    Cutoff,        \* DAODAO_CUTOFF_HEIGHT, 0 for none
    None,          \* no contract
    MaxHeight,     \* bound: heights
    MaxMessages    \* bound: messages

Modules   == CoinModules \cup NftModules \cup TokenModules \cup GroupModules
Fungible  == CoinModules \cup Stakings
Contracts == Fungible \cup NftModules \cup Groups

\* A contract has one code, and there are so many accounts and NFTs.
ASSUME DaoParameters ==
    /\ CoinModules \cap (NftModules \cup TokenModules \cup Stakings) = {}
    /\ NftModules \cap (TokenModules \cup Stakings) = {}
    /\ TokenModules \cap Stakings = {}
    /\ (GroupModules \cup Groups)
         \cap (CoinModules \cup NftModules \cup TokenModules \cup Stakings) = {}
    /\ GroupModules \cap Groups = {}
    /\ IsFiniteSet(Members) /\ IsFiniteSet(Nfts)
    /\ DOMAIN Base = TokenModules \cup GroupModules
    /\ \A m \in TokenModules : Base[m] \in Stakings
    /\ \A m \in GroupModules : Base[m] \in Groups
    /\ Amounts \subseteq Nat \ {0}
    /\ Duration \in [Contracts -> Nat]
    /\ None \notin Contracts
    /\ {Cutoff, MaxMessages} \subseteq Nat /\ MaxHeight \in Nat \ {0}

VARIABLES
    height,    \* the block in the making, or being indexed
    sealed,    \* it is complete
    events, messages,
    \* the chain
    created,   \* contracts, voting modules among them
    staked,    \* what each member has staked in coins or tokens
    weights,   \* what each group member weighs, 0 for who is none
    kept,      \* the NFTs each member has staked
    queue,     \* what each member unstaked and has not claimed, in order
    \* the indexer
    pos,       \* the event being processed
    snapDone,
    known,     \* wasm_instantiate
    modules,   \* dao_voting_module: the contract it is linked to, its weight
    stakers,   \* dao_native_staker and dao_cw20_staker
    members,   \* dao_cw4_member
    nftRows,   \* dao_cw721_staker
    claims,    \* dao_staking_claim, those not claimed; a bag
    \* history
    blurred,   \* the contracts with stakes moved in the snapshot's block
    seen       \* the NFT stakers of whom an event was indexed

chainVars == <<created, staked, weights, kept, queue>>
tables == <<known, modules, stakers, members, nftRows, claims>>
history == <<blurred, seen>>
vars == <<height, sealed, events, messages, chainVars, pos, snapDone, tables, history>>

Put(f, k, v) == [x \in DOMAIN f \cup {k} |-> IF x = k THEN v ELSE f[x]]
Without(f, K) == [x \in DOMAIN f \ K |-> f[x]]

Rests(m) == IF m \in TokenModules \cup GroupModules THEN Base[m] ELSE m

Init ==
    /\ height = 1 /\ sealed = FALSE /\ events = << >> /\ messages = 0
    /\ created = {}
    /\ staked = [h \in Fungible \X Members |-> 0]
    /\ weights = [h \in Groups \X Members |-> 0]
    /\ kept = [h \in NftModules \X Members |-> {}]
    /\ queue = [h \in (Fungible \cup NftModules) \X Members |-> << >>]
    /\ pos = 1 /\ snapDone = FALSE
    /\ known = {} /\ modules = << >> /\ stakers = << >> /\ members = << >>
    /\ nftRows = {} /\ claims = EmptyBag
    /\ blurred = {} /\ seen = {}

----------------------------------------------------------------------------
(* The chain. *)

Emit(evs) ==
    /\ ~ sealed
    /\ messages < MaxMessages
    /\ messages' = messages + 1
    /\ events' = events \o evs
    /\ UNCHANGED <<height, sealed, pos, snapDone, tables, history>>

Event(type, c, a) == [type |-> type, contract |-> c, member |-> a]

\* A voting module is instantiated and, unless it exists, so is what it rests
\* on; afterwards the module says which contract that is.
ChainInstantiates(m, w) ==
    LET c == Rests(m)
        new == {m, c} \ created
    IN  /\ m \notin created
        /\ created' = created \cup new
        /\ IF c \in Groups \cap new
           THEN weights' = [h \in DOMAIN weights |-> IF h[1] = c THEN w[h[2]] ELSE weights[h]]
           ELSE w = [a \in Members |-> 0] /\ UNCHANGED weights
        /\ Emit(<<Event("module", m, None)>>
                \o (IF c # m /\ c \in new THEN <<Event("contract", c, None)>> ELSE << >>)
                \o (IF c # m THEN <<Event("link", m, c)>> ELSE << >>))
        /\ UNCHANGED <<staked, kept, queue>>

AmountEvent(type, c, a, n) == [type |-> type, contract |-> c, member |-> a, amount |-> n]

ChainStakes(c, a, n) ==
    /\ c \in created
    /\ staked' = [staked EXCEPT ![<<c, a>>] = @ + n]
    /\ Emit(<<AmountEvent("stake", c, a, n)>>)
    /\ UNCHANGED <<created, weights, kept, queue>>

\* What is unstaked is paid out at once, or waits to be claimed.
Queued(c, a, whats) ==
    queue' = IF Duration[c] = 0 THEN queue
             ELSE [queue EXCEPT ![<<c, a>>] =
                    @ \o [i \in DOMAIN whats |-> [what |-> whats[i], release |-> height + Duration[c]]]]

ChainUnstakes(c, a, n) ==
    /\ staked[<<c, a>>] >= n
    /\ staked' = [staked EXCEPT ![<<c, a>>] = @ - n]
    /\ Queued(c, a, <<n>>)
    /\ Emit(<<AmountEvent("unstake", c, a, n)>>)
    /\ UNCHANGED <<created, weights, kept>>

\* An NFT is staked by whoever holds it: not while it is staked or waits.
Busy(c, x) ==
    \E a \in Members : x \in kept[<<c, a>>] \/ \E i \in DOMAIN queue[<<c, a>>] : queue[<<c, a>>][i].what = x

ChainStakesNft(c, a, x) ==
    /\ c \in created
    /\ ~ Busy(c, x)
    /\ kept' = [kept EXCEPT ![<<c, a>>] = @ \cup {x}]
    /\ Emit(<<Event("stakeNft", c, a)>>)
    /\ UNCHANGED <<created, staked, weights, queue>>

ChainUnstakesNfts(c, a, S) ==
    /\ S # {} /\ S \subseteq kept[<<c, a>>]
    /\ kept' = [kept EXCEPT ![<<c, a>>] = @ \ S]
    /\ Queued(c, a, SetToSeq(S))
    /\ Emit(<<Event("unstakeNft", c, a)>>)
    /\ UNCHANGED <<created, staked, weights>>

\* What is left of a queue when everything whose time has come is paid out.
Unripe(q, now) ==
    LET rest[i \in 0..Len(q)] ==
            IF i = 0 THEN << >>
            ELSE IF q[i].release <= now THEN rest[i - 1] ELSE Append(rest[i - 1], q[i])
    IN  rest[Len(q)]

ChainPaysClaims(c, a) ==
    /\ \E i \in DOMAIN queue[<<c, a>>] : queue[<<c, a>>][i].release <= height
    /\ queue' = [queue EXCEPT ![<<c, a>>] = Unripe(@, height)]
    /\ Emit(<<Event("claim", c, a)>>)
    /\ UNCHANGED <<created, staked, weights, kept>>

ChainUpdatesMember(c, a, n) ==
    /\ c \in created
    /\ n # weights[<<c, a>>]
    /\ weights' = [weights EXCEPT ![<<c, a>>] = n]
    /\ Emit(<<Event("members", c, None)>>)
    /\ UNCHANGED <<created, staked, kept, queue>>

ChainEndsBlock ==
    /\ ~ sealed
    /\ height < MaxHeight
    /\ sealed' = TRUE
    /\ UNCHANGED <<height, events, messages, chainVars, pos, snapDone, tables, history>>

----------------------------------------------------------------------------
(* What the handlers read and write. *)

\* isDaodaoIndexable
Indexable == Cutoff = 0 \/ height >= Cutoff

SnapshotDue == Cutoff # 0 /\ height >= Cutoff /\ ~ snapDone

StakedAmount(c, a) == IF <<c, a>> \in DOMAIN stakers THEN stakers[<<c, a>>] ELSE 0

SumOver(f, c) == SumFunctionOnSet(f, {h \in DOMAIN f : h[1] = c})

\* Bug: a row is never deleted.
NeverDeleted(c, a, delta) == Put(stakers, <<c, a>>, StakedAmount(c, a) + delta)

\* The rows after one member's amount changed; zero is no row.
Moved(c, a, delta) ==
    LET new == StakedAmount(c, a) + delta
    IN  IF new = 0 THEN Without(stakers, {<<c, a>>}) ELSE Put(stakers, <<c, a>>, new)

Weigh(S, n) == [m \in DOMAIN modules |->
                    IF m \in S THEN [modules[m] EXCEPT !.weight = n] ELSE modules[m]]

LinkedTo(c) == {m \in DOMAIN modules : modules[m].base = c}

\* The group's members as the archive lists them.
MembersOf(c) == {h \in DOMAIN weights : h[1] = c /\ weights[h] > 0}

\* Bug: the old rows are not deleted first.
MembersAdded(c) ==
    [h \in DOMAIN members \cup MembersOf(c) |-> IF h \in MembersOf(c) THEN weights[h] ELSE members[h]]

\* An empty list is taken for no answer: the old rows stay.
NewMembers(c) ==
    IF MembersOf(c) = {} THEN members
    ELSE [h \in {g \in DOMAIN members : g[1] # c} \cup MembersOf(c) |->
            IF h[1] = c THEN weights[h] ELSE members[h]]

----------------------------------------------------------------------------
(* The snapshot. *)

\* The stakers and members the archive lists, at the end of the block.
ListedStakers == {h \in Fungible \X Members : h[1] \in known /\ staked[h] > 0}
ListedMembers == {h \in Groups \X Members : h[1] \in known /\ weights[h] > 0}

SnapshotWeight(m) ==
    IF m \in NftModules THEN 0
    ELSE IF m \in GroupModules THEN SumOver(weights, Rests(m))
    ELSE SumOver(staked, Rests(m))

TakeSnapshot ==
    /\ sealed
    /\ SnapshotDue
    /\ snapDone' = TRUE
    /\ modules' = [m \in Modules \cap known |->
                    [base |-> IF Rests(m) = m THEN None ELSE Rests(m), weight |-> SnapshotWeight(m)]]
    /\ stakers' = [h \in ListedStakers |-> staked[h]]
    /\ members' = [h \in ListedMembers |-> weights[h]]
    /\ blurred' = {e.contract : e \in {x \in ToSet(events) : x.type \in {"stake", "unstake"}}} \cap known
    /\ UNCHANGED <<height, sealed, events, messages, chainVars, pos, known, nftRows, claims, seen>>

----------------------------------------------------------------------------
(* The handlers. *)

Current == events[pos]

Indexing(type) ==
    /\ sealed
    /\ ~ SnapshotDue
    /\ pos <= Len(events)
    /\ Current.type = type
    /\ Indexable

Indexed ==
    /\ pos' = pos + 1
    /\ UNCHANGED <<height, sealed, events, messages, chainVars, snapDone, blurred>>

Learned(c) == known \cup {c}

\* Below the cutoff only wasm_instantiate is written.
SkipEvent ==
    /\ sealed
    /\ pos <= Len(events)
    /\ ~ Indexable
    /\ known' = IF Current.type \in {"module", "contract"} THEN Learned(Current.contract) ELSE known
    /\ Indexed
    /\ UNCHANGED <<modules, stakers, members, nftRows, claims, seen>>

Created(m) ==
    IF m \in DOMAIN modules THEN modules ELSE Put(modules, m, [base |-> None, weight |-> 0])

IndexModule ==
    /\ Indexing("module")
    /\ known' = Learned(Current.contract)
    /\ modules' = Created(Current.contract)
    /\ Indexed
    /\ UNCHANGED <<stakers, members, nftRows, claims, seen>>

IndexContract ==
    /\ Indexing("contract")
    /\ known' = Learned(Current.contract)
    /\ members' = IF Current.contract \in Groups THEN NewMembers(Current.contract) ELSE members
    /\ Indexed
    /\ UNCHANGED <<modules, stakers, nftRows, claims, seen>>

\* Bug: the weight of every linked module is set before this one is linked.
WeighedThenLinked(m, c) ==
    [Weigh(LinkedTo(c), SumOver(stakers, c)) EXCEPT ![m].base = c]

\* The module learns what it rests on, and so its weight.
Linked(m, c) ==
    IF c \in Groups
    THEN [modules EXCEPT ![m] = [base |-> c, weight |-> SumOver(members, c)]]
    ELSE [k \in DOMAIN modules |->
            IF k = m \/ modules[k].base = c
            THEN [base |-> c, weight |-> SumOver(stakers, c)] ELSE modules[k]]

IndexLink ==
    /\ Indexing("link")
    /\ modules' = Linked(Current.contract, Current.member)
    /\ Indexed
    /\ UNCHANGED <<known, stakers, members, nftRows, claims, seen>>

\* A coin module's weight moves by the amount; the modules on a staking
\* contract get the sum of the rows as it was, plus the amount.
Reweighed(c, delta) ==
    IF c \in CoinModules
    THEN Weigh({c}, modules[c].weight + delta)
    ELSE Weigh(LinkedTo(c), SumOver(stakers, c) + delta)

IndexStake ==
    /\ Indexing("stake")
    /\ stakers' = Put(stakers, <<Current.contract, Current.member>>,
                      StakedAmount(Current.contract, Current.member) + Current.amount)
    /\ modules' = Reweighed(Current.contract, Current.amount)
    /\ Indexed
    /\ UNCHANGED <<known, members, nftRows, claims, seen>>

Insert(bag, q) == Put(bag, q, IF q \in DOMAIN bag THEN bag[q] + 1 ELSE 1)

Claim(c, a, q) == [contract |-> c, member |-> a, what |-> q.what, release |-> q.release]

\* Of the queue at the end of the block, the last entry is taken for the one
\* this unstaking made.
Newest(c, a) ==
    IF Duration[c] = 0 \/ queue[<<c, a>>] = << >> THEN claims
    ELSE Insert(claims, Claim(c, a, Last(queue[<<c, a>>])))

IndexUnstake ==
    /\ Indexing("unstake")
    /\ stakers' = Moved(Current.contract, Current.member, - Current.amount)
    /\ modules' = Reweighed(Current.contract, - Current.amount)
    /\ claims' = Newest(Current.contract, Current.member)
    /\ Indexed
    /\ UNCHANGED <<known, members, nftRows, seen>>

\* The member's NFTs as the archive lists them, beside the old rows or, where
\* they are deleted first, instead of them.
ListedNfts(c, a) == {c} \X {a} \X kept[<<c, a>>]
RowsOf(c, a) == {r \in nftRows : r[1] = c /\ r[2] = a}

WithNfts(rows, c) ==
    /\ nftRows' = rows
    /\ modules' = Weigh({c}, Cardinality({r \in rows : r[1] = c}))
    /\ seen' = seen \cup {<<c, Current.member>>}

IndexNftStake ==
    /\ Indexing("stakeNft")
    /\ WithNfts(nftRows \cup ListedNfts(Current.contract, Current.member), Current.contract)
    /\ Indexed
    /\ UNCHANGED <<known, stakers, members, claims>>

\* Bug: what was unstaked is not deleted.
NftsAdded(c, a) == nftRows \cup ListedNfts(c, a)

NftsReplaced(c, a) == (nftRows \ RowsOf(c, a)) \cup ListedNfts(c, a)

\* The whole queue is inserted, old entries and new.
WithQueue(c, a, q) ==
    LET with[i \in 0..Len(q)] ==
            IF i = 0 THEN claims ELSE Insert(with[i - 1], Claim(c, a, q[i]))
    IN  with[Len(q)]

IndexNftUnstake ==
    /\ Indexing("unstakeNft")
    /\ LET c == Current.contract
           a == Current.member
       IN  /\ WithNfts(NftsReplaced(c, a), c)
           /\ claims' = WithQueue(c, a, queue[<<c, a>>])
    /\ Indexed
    /\ UNCHANGED <<known, stakers, members>>

\* Bug: what becomes due with the block itself is left out.
PaidBefore(c, a) == {q \in DOMAIN claims : q.contract = c /\ q.member = a /\ q.release < height}

\* markDaoStakingClaimsClaimed: what is due at the block's time.
Paid(c, a) == {q \in DOMAIN claims : q.contract = c /\ q.member = a /\ q.release <= height}

IndexClaim ==
    /\ Indexing("claim")
    /\ claims' = Without(claims, Paid(Current.contract, Current.member))
    /\ Indexed
    /\ UNCHANGED <<known, modules, stakers, members, nftRows, seen>>

IndexMembers ==
    /\ Indexing("members")
    /\ members' = NewMembers(Current.contract)
    /\ modules' = Weigh(LinkedTo(Current.contract), SumOver(weights, Current.contract))
    /\ Indexed
    /\ UNCHANGED <<known, stakers, nftRows, claims, seen>>

IndexEndsBlock ==
    /\ sealed
    /\ ~ SnapshotDue
    /\ pos > Len(events)
    /\ sealed' = FALSE
    /\ height' = height + 1
    /\ events' = << >>
    /\ pos' = 1
    /\ UNCHANGED <<messages, chainVars, snapDone, tables, history>>

----------------------------------------------------------------------------

Chain ==
    \/ \E m \in Modules, w \in [Members -> {0} \cup Amounts] : ChainInstantiates(m, w)
    \/ \E a \in Members :
        \/ \E c \in Fungible, n \in Amounts : ChainStakes(c, a, n) \/ ChainUnstakes(c, a, n)
        \/ \E c \in NftModules :
            \/ \E x \in Nfts : ChainStakesNft(c, a, x)
            \/ \E S \in SUBSET Nfts : ChainUnstakesNfts(c, a, S)
        \/ \E c \in Fungible \cup NftModules : ChainPaysClaims(c, a)
        \/ \E c \in Groups, n \in {0} \cup Amounts : ChainUpdatesMember(c, a, n)
    \/ ChainEndsBlock

Index ==
    \/ TakeSnapshot \/ SkipEvent
    \/ IndexModule \/ IndexContract \/ IndexLink \/ IndexMembers
    \/ IndexStake \/ IndexUnstake \/ IndexNftStake \/ IndexNftUnstake \/ IndexClaim
    \/ IndexEndsBlock

Next == Chain \/ Index

Spec == Init /\ [][Next]_vars

----------------------------------------------------------------------------

TypeOK ==
    /\ height \in 1..MaxHeight
    /\ messages \in 0..MaxMessages
    /\ created \subseteq Modules \cup Contracts /\ known \subseteq created
    /\ staked \in [Fungible \X Members -> Nat]
    /\ weights \in [Groups \X Members -> Nat]
    /\ kept \in [NftModules \X Members -> SUBSET Nfts]
    /\ pos \in 1..Len(events) + 1
    /\ DOMAIN modules \subseteq Modules
    /\ \A m \in DOMAIN modules : modules[m] \in [base : Stakings \cup Groups \cup {None}, weight : Int]
    /\ DOMAIN stakers \subseteq Fungible \X Members
    /\ \A h \in DOMAIN stakers : stakers[h] > 0 \/ h[1] \in blurred
    /\ DOMAIN members \subseteq Groups \X Members
    /\ nftRows \subseteq NftModules \X Members \X Nfts
    /\ IsABag(claims)

\* Between two blocks, the newest of which is not below the cutoff, the tables
\* stand for the chain.
UpToDate == ~ sealed /\ events = << >> /\ (Cutoff = 0 \/ snapDone)

\* A group that lost all of its members (its rows stay, see NewMembers).
Deserted(c) == c \in Groups /\ MembersOf(c) = {}

\* A module's weight is the sum of the rows it stands for, whether it was
\* counted up event by event, summed up, or taken from the snapshot, and also
\* where a module is linked to a contract after stakes were made there.
WeightsAreSums ==
    UpToDate => \A m \in DOMAIN modules : ~ Deserted(Rests(m)) =>
        modules[m].weight =
            CASE m \in NftModules   -> Cardinality({r \in nftRows : r[1] = m})
              [] m \in GroupModules -> SumOver(members, Rests(m))
              [] OTHER              -> SumOver(stakers, Rests(m))

\* The rows of c's stakers are the chain's.
StakesExact(c) == \A a \in Members : StakedAmount(c, a) = staked[<<c, a>>]

\* Every contract's stakers have what they have on the chain, but for the
\* contracts where stakes moved in the snapshot's own block, which count
\* twice; and every group has the members it has on the chain.
SettledStakesMatch ==
    UpToDate =>
        /\ \A c \in Fungible \ blurred : StakesExact(c)
        /\ \A c \in Groups : ~ Deserted(c) =>
            \A a \in Members :
                (IF <<c, a>> \in DOMAIN members THEN members[<<c, a>>] ELSE 0) = weights[<<c, a>>]

\* No NFT is listed that is not staked, and all of a member's are listed once
\* an event of that member was indexed, or if there was no snapshot.
NftsMatch ==
    UpToDate =>
        /\ \A r \in nftRows : r[3] \in kept[<<r[1], r[2]>>]
        /\ \A h \in NftModules \X Members :
            Cutoff = 0 \/ h \in seen => kept[h] = {r[3] : r \in RowsOf(h[1], h[2])}

\* What was unstaked since the cutoff and is not claimed yet: as many entries
\* here as on the chain.
ClaimsCounted ==
    UpToDate => \A c \in Fungible, a \in Members :
        Cardinality({i \in DOMAIN queue[<<c, a>>] : queue[<<c, a>>][i].release - Duration[c] >= Cutoff})
            = SumFunctionOnSet(claims, {q \in DOMAIN claims : q.contract = c /\ q.member = a})
===============================================================================
