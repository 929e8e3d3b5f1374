------------------------------- MODULE EventSync -------------------------------
(***************************************************************************)
(* How one block's events become rows: syncEvents                          *)
(* (sync_handlers/event_sync.ts), its one slot for a delayed function, and *)
(* the tables of entities and tokens, the events of which come in an order *)
(* the tables cannot take them in.  A wasm event precedes the module event *)
(* of the same message: an NFT is minted to its owner before the entity    *)
(* row exists, a token is minted before the Token row its ledger entry     *)
(* refers to.                                                              *)
(*                                                                         *)
(* The chain executes messages and appends their events to the block; then *)
(* the indexer works through the events inside the block's transaction and *)
(* commits it.  A failure rolls the transaction back and the block is      *)
(* tried again; the class cache outlives that, though not a crash.         *)
(***************************************************************************)
EXTENDS Integers, Sequences, FiniteSets, SequencesExt, Bags

CONSTANTS
    Entities, Accounts, Classes, Tokens,
    MintAmounts,   \* the amounts tokens are minted in, and ...
    Amounts,       \* ... the amounts they are moved or burnt in
    None,          \* no entity, no owner, no counterparty
    MaxMessages,   \* bound: messages the chain executes in all
    MaxBlock,      \* bound: a block with so many events gets no more messages
    MaxFaults      \* bound: failures of the indexer

ASSUME ParametersAssumption ==
    /\ MintAmounts \cup Amounts \subseteq Nat \ {0}
    /\ None \notin Entities \cup Accounts \cup Classes
    /\ IsFiniteSet(Tokens)
    /\ {MaxMessages, MaxBlock, MaxFaults} \subseteq Nat

VARIABLES
    chain,     \* what is true on the chain
    messages,  \* how many messages it executed so far
    block,     \* the events of the block in the making, or being indexed
    fresh,     \* the classes created in that block
    late,      \* the tokens minted in the block that created their class
    committed, \* the database as other connections see it
    work,      \* the database as the block's transaction sees it
    phase,     \* "chain" executes messages or "index" works on the block
    pos,       \* the event being processed
    delayed,   \* the delayed function and how many events it waits, or None
    cache,     \* tokenClassCache
    faults

chainVars == <<chain, messages, block, fresh, late>>
vars == <<chainVars, committed, work, phase, pos, delayed, cache, faults>>

Holdings == Accounts \X Tokens

----------------------------------------------------------------------------
(* The events. *)

NftMint(e, a) == [type |-> "nftMint", entity |-> e, owner |-> a]
NftTransfer(e, a) == [type |-> "nftTransfer", entity |-> e, owner |-> a]
IidCreated(e) == [type |-> "iid", entity |-> e]
EntityCreated(e) == [type |-> "entity", entity |-> e]
ClassCreated(c, e) == [type |-> "class", class |-> c, names |-> e]
ClassUpdated(c, e, lists) ==
    [type |-> "classUpdated", class |-> c, names |-> e, lists |-> lists]
TokenMinted(t, c) == [type |-> "token", token |-> t, class |-> c]

\* A token contract's event: the transfers of one message, several of a batch.
\* A mint comes from None, a retirement or cancellation goes to None, and an
\* action that moves nothing has neither.
Moved(c, transfers) == [type |-> "moved", class |-> c, transfers |-> transfers]
Transfer(a, b, n, t) == [from |-> a, to |-> b, amount |-> n, token |-> t]

\* What can wait for its turn: the owner of an entity or the minting of a token.
Waiting ==
    [skip  : 1..2,
     later : [type : {"nftMint"}, entity : Entities, owner : Accounts] \cup
             [type : {"mint"}, transfer : [from : {None}, to : Accounts,
                                           amount : MintAmounts, token : Tokens]]]

ASSUME NoneAssumption == None \notin Waiting

----------------------------------------------------------------------------
(* The tables. *)

EmptyDb ==
    [iids     |-> {},                    \* IID
     owners   |-> << >>,                 \* Entity: its owner
     classes  |-> << >>,                 \* TokenClass: the entity it names,
                                         \* TokenRetired and TokenCancelled
     tokens   |-> << >>,                 \* Token: its class
     ledger   |-> << >>,                 \* TokenTransaction, a bag
     balances |-> << >>]                 \* TokenBalance, by holder and token

\* A row with its key: a new one, or in the place of the old one.
Put(rows, key, row) == [k \in DOMAIN rows \cup {key} |-> IF k = key THEN row ELSE rows[k]]

\* createIid, createEntity: a primary key, and a foreign key to the document.
CreateIid(db, e) == [db EXCEPT !.iids = @ \cup {e}]
CreateEntity(db, e) == [db EXCEPT !.owners = Put(@, e, None)]

\* An UPDATE: nothing happens to an entity without a row.
UpdateEntityOwner(db, e, a) ==
    IF e \in DOMAIN db.owners THEN [db EXCEPT !.owners[e] = a] ELSE db

\* Bug: the entity is looked up in what is committed already.
CommittedEntity(db, e) == IF e \in DOMAIN committed.owners THEN e ELSE None

\* A class may name anything; what is no entity is stored as NULL.
EntityIdOrNull(db, e) == IF e \in DOMAIN db.owners THEN e ELSE None

NoLists == [retired |-> << >>, cancelled |-> << >>]

CreateTokenClass(db, c, e) ==
    [db EXCEPT !.classes =
        Put(@, c, [names |-> EntityIdOrNull(db, e), lists |-> NoLists])]

\* Bug: the list is inserted without deleting what was there.
Added(old, new) == old \o new

\* The two lists are deleted and inserted anew, but an empty one is left alone.
Replaced(old, new) == IF new = << >> THEN old ELSE new

UpdateTokenClass(db, c, e, lists) ==
    IF c \notin DOMAIN db.classes THEN db
    ELSE [db EXCEPT !.classes[c] =
            [names |-> EntityIdOrNull(db, e),
             lists |-> [retired   |-> Replaced(@.lists.retired, lists.retired),
                        cancelled |-> Replaced(@.lists.cancelled, lists.cancelled)]]]

CreateToken(db, t, c) == [db EXCEPT !.tokens = Put(@, t, c)]

NoHolding == [amount |-> 0, minted |-> 0, retired |-> 0]

Balance(db, h) == IF h \in DOMAIN db.balances THEN db.balances[h] ELSE NoHolding

\* Bug: a row goes as soon as nothing is held.
RemoveDrained(balances, h) ==
    IF balances[h].amount = 0
    THEN [k \in DOMAIN balances \ {h} |-> balances[k]]
    ELSE balances

\* A row that says nothing is deleted.
RemoveEmpty(balances, h) ==
    IF balances[h] = NoHolding
    THEN [k \in DOMAIN balances \ {h} |-> balances[k]]
    ELSE balances

ApplyDelta(db, h, amount, minted, retired) ==
    LET old == Balance(db, h)
        new == [amount  |-> old.amount + amount,
                minted  |-> old.minted + minted,
                retired |-> old.retired + retired]
    IN  [db EXCEPT !.balances = RemoveEmpty(Put(@, h, new), h)]

Credit(db, tr) ==
    IF tr.to = None THEN db
    ELSE ApplyDelta(db, <<tr.to, tr.token>>, tr.amount,
                    IF tr.from = None THEN tr.amount ELSE 0, 0)

\* Bug: whatever leaves an account counts as retired.
DebitRetires(db, tr) ==
    IF tr.from = None THEN db
    ELSE ApplyDelta(db, <<tr.from, tr.token>>, - tr.amount, 0, tr.amount)

Debit(db, tr) ==
    IF tr.from = None THEN db
    ELSE ApplyDelta(db, <<tr.from, tr.token>>, - tr.amount, 0,
                    IF tr.to = None THEN tr.amount ELSE 0)

\* createTokenTransaction: the ledger row, then the recipient, then the sender.
CreateTokenTransaction(db, tr) ==
    Debit(Credit([db EXCEPT !.ledger = @ (+) SetToBag({tr})], tr), tr)

----------------------------------------------------------------------------
(* One event: the rows it writes and the function it leaves for later. *)

\* Bug: the owner waits for one event more.
SkipThree(type) == IF type = "nftMint" THEN 3 ELSE 1

\* How many events a mint waits: an entity's owner for the document and the
\* entity, a token's ledger row for the token.
Skip(type) == IF type = "nftMint" THEN 2 ELSE 1

\* getCachedTokenClassContractAddress: the cache, or else a read on the pool,
\* which does not see what the block's transaction created.
KnownClass(c) == c \in cache \cup DOMAIN committed.classes

\* Bug: a mint is recorded like any other transfer.
NoMint(transfers) == 0

\* A token contract's event is worked through transfer by transfer until a
\* mint, which ends it and waits; what moves nothing, or nowhere else, is
\* skipped.
FirstMint(transfers) ==
    SelectInSeq(transfers, LAMBDA tr : tr.from = None /\ tr.to # None)

\* How many of the transfers come before it, ...
Reached(transfers) ==
    IF FirstMint(transfers) = 0 THEN Len(transfers) ELSE FirstMint(transfers) - 1

\* ... which of those are recorded at once, ...
Recorded(transfers) == {i \in 1..Reached(transfers) : transfers[i].from # transfers[i].to}

\* ... and the rows they leave.
RecordAll(db, transfers) ==
    LET after[i \in 0..Reached(transfers)] ==
            IF i = 0 THEN db
            ELSE IF i \in Recorded(transfers)
                 THEN CreateTokenTransaction(after[i - 1], transfers[i])
                 ELSE after[i - 1]
    IN  after[Reached(transfers)]

\* What an event leaves for later.
Result(ev) ==
    CASE ev.type = "nftMint" -> [skip |-> Skip("nftMint"), later |-> ev]
      [] ev.type = "moved" /\ KnownClass(ev.class) /\ FirstMint(ev.transfers) # 0 ->
            [skip  |-> Skip("moved"),
             later |-> [type |-> "mint", transfer |-> ev.transfers[FirstMint(ev.transfers)]]]
      [] OTHER -> None

\* The statements a delayed function issues.
RunLater(db, later) ==
    IF later.type = "nftMint"
    THEN UpdateEntityOwner(db, later.entity, later.owner)
    ELSE CreateTokenTransaction(db, later.transfer)

\* The rows an event writes at once.
Written(db, ev) ==
    CASE ev.type = "nftTransfer" -> UpdateEntityOwner(db, ev.entity, ev.owner)
      [] ev.type = "iid" -> CreateIid(db, ev.entity)
      [] ev.type = "entity" -> CreateEntity(db, ev.entity)
      [] ev.type = "class" -> CreateTokenClass(db, ev.class, ev.names)
      [] ev.type = "classUpdated" -> UpdateTokenClass(db, ev.class, ev.names, ev.lists)
      [] ev.type = "token" -> CreateToken(db, ev.token, ev.class)
      [] ev.type = "moved" /\ KnownClass(ev.class) ->
            RecordAll(db, ev.transfers)
      [] OTHER -> db

\* Whether the tables' primary and foreign keys let it.
Accepts(db, ev) ==
    CASE ev.type = "iid" -> ev.entity \notin db.iids
      [] ev.type = "entity" -> ev.entity \in db.iids \ DOMAIN db.owners
      [] ev.type = "class" -> ev.class \notin DOMAIN db.classes
      [] ev.type = "classUpdated" ->
            \A i \in DOMAIN ev.lists.retired : ev.lists.retired[i].token \in DOMAIN db.tokens
      [] ev.type = "token" ->
            ev.token \notin DOMAIN db.tokens /\ ev.class \in DOMAIN db.classes
      [] ev.type = "moved" /\ KnownClass(ev.class) ->
            \A i \in Recorded(ev.transfers) : ev.transfers[i].token \in DOMAIN db.tokens
      [] OTHER -> TRUE

\* The delayed function whose turn it is, if any, after the event itself.
Due == delayed # None /\ delayed.skip = 1

AcceptsLater(db) ==
    Due /\ delayed.later.type = "mint" => delayed.later.transfer.token \in DOMAIN db.tokens

Accepted == /\ Accepts(work, block[pos])
            /\ AcceptsLater(Written(work, block[pos]))

\* Bug: the slot is overwritten whether or not its function has run.
SlotOverwritten(res) == res

\* The finally clause: a function that still waits keeps the slot.
Slot(res) ==
    IF delayed # None /\ delayed.skip # 1
    THEN [delayed EXCEPT !.skip = @ - 1]
    ELSE res

----------------------------------------------------------------------------

NoEntity == [e \in Entities |-> None]
Nothing  == [h \in Holdings |-> 0]

Init ==
    /\ chain = [owners  |-> [e \in Entities |-> None],
                classes |-> << >>,
                classOf |-> [t \in Tokens |-> None],
                held    |-> Nothing,
                minted  |-> Nothing,
                retired |-> Nothing]
    /\ messages = 0
    /\ block = << >>
    /\ fresh = {}
    /\ late = {}
    /\ committed = EmptyDb
    /\ work = EmptyDb
    /\ phase = "chain"
    /\ pos = 1
    /\ delayed = None
    /\ cache = {}
    /\ faults = 0

----------------------------------------------------------------------------
(* The chain: what a message does there and the events it leaves. *)

Message(events) ==
    /\ phase = "chain"
    /\ messages < MaxMessages
    /\ Len(block) < MaxBlock
    /\ messages' = messages + 1
    /\ block' = block \o events
    /\ UNCHANGED <<committed, work, phase, pos, delayed, cache, faults>>

MsgCreateEntity(e, a) ==
    /\ chain.owners[e] = None
    /\ chain' = [chain EXCEPT !.owners[e] = a]
    /\ Message(<<NftMint(e, a), IidCreated(e), EntityCreated(e)>>)
    /\ UNCHANGED <<fresh, late>>

MsgTransferEntity(e, a) ==
    /\ chain.owners[e] # None
    /\ chain' = [chain EXCEPT !.owners[e] = a]
    /\ Message(<<NftTransfer(e, a)>>)
    /\ UNCHANGED <<fresh, late>>

\* The entity a class names counts if it exists by now.
Linked(e) == IF chain.owners[e] # None THEN e ELSE None

MsgCreateToken(c, e) ==
    /\ c \notin DOMAIN chain.classes
    /\ chain' = [chain EXCEPT !.classes =
                    Put(@, c, [class |-> e, names |-> Linked(e), lists |-> NoLists])]
    /\ Message(<<ClassCreated(c, e)>>)
    /\ fresh' = fresh \cup {c}
    /\ UNCHANGED late

MsgMintToken(c, t, a, n) ==
    /\ c \in DOMAIN chain.classes
    /\ chain.classOf[t] = None
    /\ chain' = [chain EXCEPT !.classOf[t] = c, !.held[<<a, t>>] = n,
                              !.minted[<<a, t>>] = n]
    /\ Message(<<Moved(c, <<Transfer(None, a, n, t)>>), TokenMinted(t, c)>>)
    /\ late' = IF c \in fresh THEN late \cup {t} ELSE late
    /\ UNCHANGED fresh

\* One message may move several tokens; a transfer to oneself is one too.
MsgTransferToken(c, a, b, S, n) ==
    /\ \A t \in S : chain.classOf[t] = c /\ chain.held[<<a, t>>] >= n
    /\ chain' = [chain EXCEPT !.held =
            [h \in Holdings |-> @[h]
                - (IF h[2] \in S /\ h[1] = a THEN n ELSE 0)
                + (IF h[2] \in S /\ h[1] = b THEN n ELSE 0)]]
    /\ Message(<<Moved(c, SetToSeq({Transfer(a, b, n, t) : t \in S}))>>)
    /\ UNCHANGED <<fresh, late>>

MsgApprove(c) ==
    /\ c \in DOMAIN chain.classes
    /\ Message(<<Moved(c, << [from |-> None, to |-> None] >>)>>)
    /\ UNCHANGED <<chain, fresh, late>>

\* Tokens are burnt, and the class tells its whole list of burns again.
MsgBurnToken(c, t, a, n, list) ==
    /\ chain.classOf[t] = c
    /\ chain.held[<<a, t>>] >= n
    /\ LET lists == [chain.classes[c].lists EXCEPT ![list] =
                        Append(@, [token |-> t, amount |-> n, owner |-> a])]
       IN  /\ chain' = [chain EXCEPT
                !.held[<<a, t>>] = @ - n,
                !.retired[<<a, t>>] = @ + n,
                !.classes[c].lists = lists,
                !.classes[c].names = Linked(chain.classes[c].class)]
           /\ Message(<<Moved(c, <<Transfer(a, None, n, t)>>),
                        ClassUpdated(c, chain.classes[c].class, lists)>>)
    /\ UNCHANGED <<fresh, late>>

\* The block is complete and the sync loop takes it up.
BlockProduced ==
    /\ phase = "chain"
    /\ block # << >>
    /\ phase' = "index"
    /\ UNCHANGED <<chainVars, committed, work, pos, delayed, cache, faults>>

----------------------------------------------------------------------------
(* The indexer. *)

NextEvent ==
    /\ phase = "index"
    /\ pos <= Len(block)
    /\ Accepted
    /\ LET ev == block[pos]
           db == Written(work, ev)
       IN  /\ work' = IF Due THEN RunLater(db, delayed.later) ELSE db
           /\ delayed' = Slot(Result(ev))
           /\ cache' = IF ev.type = "moved" /\ KnownClass(ev.class)
                       THEN cache \cup {ev.class} ELSE cache
    /\ pos' = pos + 1
    /\ UNCHANGED <<chainVars, committed, phase, faults>>

CommitBlock ==
    /\ phase = "index"
    /\ pos > Len(block)
    /\ committed' = work
    /\ phase' = "chain"
    /\ block' = << >>
    /\ fresh' = {}
    /\ pos' = 1
    /\ delayed' = None
    /\ UNCHANGED <<chain, messages, late, work, cache, faults>>

\* Bug: the retry goes on where the failed attempt stopped.
RollBackInPlace ==
    /\ work' = committed
    /\ delayed' = None
    /\ UNCHANGED <<chainVars, committed, phase, pos>>

\* The block's transaction is rolled back; the block is tried from its start.
RollBack ==
    /\ work' = committed
    /\ pos' = 1
    /\ delayed' = None
    /\ UNCHANGED <<chainVars, committed, phase>>

\* A statement that a key forbids fails in every attempt, any other may.
Refused == pos <= Len(block) /\ ~ Accepted

EventFails ==
    /\ phase = "index"
    /\ ~ Refused => faults < MaxFaults
    /\ faults' = IF Refused THEN faults ELSE faults + 1
    /\ RollBack
    /\ UNCHANGED cache

Crash ==
    /\ faults < MaxFaults
    /\ faults' = faults + 1
    /\ RollBack
    /\ cache' = {}

----------------------------------------------------------------------------

Messages ==
    \/ \E e \in Entities, a \in Accounts : MsgCreateEntity(e, a) \/ MsgTransferEntity(e, a)
    \/ \E c \in Classes :
        \/ \E e \in Entities : MsgCreateToken(c, e)
        \/ MsgApprove(c)
        \/ \E t \in Tokens, a \in Accounts :
            \/ \E n \in MintAmounts : MsgMintToken(c, t, a, n)
            \/ \E n \in Amounts, list \in {"retired", "cancelled"} : MsgBurnToken(c, t, a, n, list)
        \/ \E a, b \in Accounts, S \in (SUBSET Tokens) \ {{}}, n \in Amounts :
            MsgTransferToken(c, a, b, S, n)

Index == NextEvent \/ CommitBlock

Next == Messages \/ BlockProduced \/ Index \/ EventFails \/ Crash

Spec == Init /\ [][Next]_vars

\* The sync loop tries a block until it is committed.
FairSpec == Spec /\ WF_vars(Index)

----------------------------------------------------------------------------

Holding == [amount : Int, minted : Nat, retired : Nat]

TypeOK ==
    /\ messages \in 0..MaxMessages
    /\ phase \in {"chain", "index"}
    /\ pos \in 1..Len(block) + 1
    /\ fresh \subseteq Classes /\ late \subseteq Tokens /\ cache \subseteq Classes
    /\ delayed \in Waiting \cup {None}
    /\ faults \in 0..MaxFaults
    /\ \A db \in {committed, work} :
        /\ db.iids \subseteq Entities
        /\ DOMAIN db.owners \subseteq Entities
        /\ \A e \in DOMAIN db.owners : db.owners[e] \in Accounts \cup {None}
        /\ DOMAIN db.classes \subseteq Classes
        /\ DOMAIN db.tokens \subseteq Tokens
        /\ DOMAIN db.balances \subseteq Holdings
        /\ \A h \in DOMAIN db.balances : db.balances[h] \in Holding

\* The database shows exactly the blocks that were produced.
UpToDate == phase = "chain" /\ block = << >>

\* Every entity has the owner the chain gives it, though its first owner is
\* announced before there is a row to put it in.
OwnersMatch ==
    UpToDate => \A e \in Entities :
        chain.owners[e] = IF e \in DOMAIN committed.owners THEN committed.owners[e] ELSE None

\* Every balance is what the chain says, of every token whose class was there
\* before the block that minted it.
BalancesMatch ==
    UpToDate => \A h \in Holdings : h[2] \notin late =>
        Balance(committed, h) = [amount  |-> chain.held[h],
                                 minted  |-> chain.minted[h],
                                 retired |-> chain.retired[h]]

\* What the ledger's rows of a token say of an account.
LedgerHolding(ledger, a, t) ==
    LET total(rows) ==
            SumFunctionOnSet([tr \in DOMAIN ledger |-> ledger[tr] * tr.amount], rows)
        in  == {tr \in DOMAIN ledger : tr.token = t /\ tr.to = a}
        out == {tr \in DOMAIN ledger : tr.token = t /\ tr.from = a}
    IN  [amount  |-> total(in) - total(out),
         minted  |-> total({tr \in in : tr.from = None}),
         retired |-> total({tr \in out : tr.to = None})]

\* At any moment, inside the transaction and out, the running totals are the
\* sum of the ledger, and there is no row that says nothing.
BalanceIsLedgerSum ==
    \A db \in {committed, work} :
        /\ \A h \in Holdings : Balance(db, h) = LedgerHolding(db.ledger, h[1], h[2])
        /\ \A h \in DOMAIN db.balances : db.balances[h] # NoHolding

\* What the class's two lists say was burnt is what its holders retired.
BurnsAgree ==
    UpToDate => \A c \in DOMAIN committed.classes, h \in Holdings :
        h[2] \in DOMAIN committed.tokens /\ committed.tokens[h[2]] = c /\ h[2] \notin late =>
            LET lists == committed.classes[c].lists
                burnt(list) == SumFunction([i \in DOMAIN list |->
                    IF <<list[i].owner, list[i].token>> = h THEN list[i].amount ELSE 0])
            IN  Balance(committed, h).retired = burnt(lists.retired) + burnt(lists.cancelled)

\* A class is linked to the entity it names if that exists on the chain, also
\* when it came earlier in the same block.
ClassLinksMatch ==
    UpToDate => \A c \in DOMAIN chain.classes :
        committed.classes[c].names = chain.classes[c].names

\* No block ends with a function still waiting, which would never run.
NothingLeftWaiting == phase = "index" /\ pos > Len(block) => delayed = None

\* No event of the chain runs into a key of the tables: such a block could
\* never be indexed.
NeverRefused == phase = "index" => ~ Refused

\* Every block produced gets indexed.
BlocksGetIndexed == phase = "index" ~> phase = "chain"
===============================================================================
