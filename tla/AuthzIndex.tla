------------------------------ MODULE AuthzIndex ------------------------------
(***************************************************************************)
(* The index of live authorizations, table authz_grant: one row per grant  *)
(* key (granter, grantee, message type), written by the authz cases of     *)
(* syncEventData and by the per-block expiry sweep.                        *)
(*                                                                         *)
(* The chain tells of a grant and of a revocation, but an authorization    *)
(* that is partly consumed or that expires changes without an event.  So   *)
(* the index sweeps expired rows after every block, reads what a consumed  *)
(* authorization has left from the archive, and reads a grant the archive  *)
(* way too when the message that made it does not show the payload.  The   *)
(* archive answers with the state at the END of the block, or, where it    *)
(* pruned that version, at the end of the next one it retained; or it      *)
(* fails.                                                                  *)
(*                                                                         *)
(* Block h has time h.  A failing block is rolled back and tried again as  *)
(* a whole, which SyncBlocks models, so here a block is worked through     *)
(* once; the archive's errors are caught in the handlers.                  *)
(***************************************************************************)
EXTENDS Naturals, Sequences, FiniteSetsExt, Functions

CONSTANTS
    Keys,          \* grant keys
    ClaimKeys,     \* those whose consumption the claims module announces
    PayoutKeys,    \* those the claims module grants by itself, for payouts
    Limits,        \* how often a grant may be used
    Lifetimes,     \* for how many blocks a grant holds, 0 for ever
    SnapInterval,  \* the archive retains every so many versions
    Lag,           \* how many blocks the index stays behind: 0 at the chain's
                   \* tip, more in a backfill
    Faults,        \* a subset of {"fails", "pruned"}
    MaxHeight,     \* bound: heights
    MaxMessages,   \* bound: messages in all
    MaxFaults      \* bound: answers that are not the exact state

ASSUME GrantParameters ==
    /\ ClaimKeys \cup PayoutKeys \subseteq Keys
    /\ ClaimKeys \cap PayoutKeys = {}
    /\ Limits \subseteq Nat \ {0}
    /\ Lifetimes \subseteq Nat
    /\ {SnapInterval, MaxHeight} \subseteq Nat \ {0}
    /\ Faults \subseteq {"fails", "pruned"}
    /\ {Lag, MaxMessages, MaxFaults} \subseteq Nat

VARIABLES
    height,    \* the chain's block in the making
    live,      \* the chain's grants
    events,    \* the events of that block
    messages,
    backlog,   \* the complete blocks that are not indexed yet: the events of
               \* each, and the grants at its end, as the archive knows them
    indexed,   \* the newest block in the index ...
    grants,    \* ... and the grants at its end
    pos,       \* how many events of the block after it are processed
    rows,      \* authz_grant
    tainted,   \* the keys whose row rests on an answer that was not exact
    faults

chainVars == <<height, live, events, messages>>
indexVars == <<indexed, grants, pos, rows, tainted, faults>>
vars == <<chainVars, backlog, indexVars>>

Never == 0      \* an expiration that is NULL
Unknown == 0    \* a payload that is NULL

Grant(left, expiration) == [left |-> left, expiration |-> expiration]

Put(f, k, v) == [x \in DOMAIN f \cup {k} |-> IF x = k THEN v ELSE f[x]]
Remove(f, k) == Restrict(f, DOMAIN f \ {k})

Expired(g, time) == g.expiration # Never /\ g.expiration <= time

\* What is left of grants, or of rows, at a block's time.
Unexpired(f, time) == Restrict(f, {k \in DOMAIN f : ~ Expired(f[k], time)})

----------------------------------------------------------------------------
(* The chain. *)

Init ==
    /\ height = 1
    /\ live = << >>
    /\ events = << >>
    /\ messages = 0
    /\ backlog = << >>
    /\ indexed = 0
    /\ grants = << >>
    /\ pos = 0
    /\ rows = << >>
    /\ tainted = {}
    /\ faults = 0

\* The chain and the index take turns, so that the index stays Lag behind.
ChainsTurn == Len(backlog) <= Lag

Emit(evs) ==
    /\ ChainsTurn
    /\ messages < MaxMessages
    /\ messages' = messages + 1
    /\ events' = events \o evs
    /\ UNCHANGED <<height, backlog, indexVars>>

GrantEvent(k, via, g) == [type |-> "grant", via |-> via, key |-> k, grant |-> g]

\* A grant, new or over an older one.  The index can read its payload in the
\* MsgGrant itself, in the richer event that follows, or nowhere ("wrapped":
\* dispatched by a contract, a MsgExec or a proposal).
ChainGrants(k, via, left, lifetime) ==
    LET g == Grant(left, IF lifetime = 0 THEN Never ELSE height + lifetime)
    IN  /\ k \notin PayoutKeys
        /\ live' = Put(live, k, g)
        /\ Emit(IF via = "rich"
                THEN <<GrantEvent(k, via, g), [type |-> "rich", key |-> k, grant |-> g]>>
                ELSE <<GrantEvent(k, via, g)>>)

\* The claims module grants the withdrawal of a payout, without expiration.
ChainGrantsPayout(k) ==
    /\ k \in PayoutKeys
    /\ live' = Put(live, k, Grant(1, Never))
    /\ Emit(<<GrantEvent(k, "payout", Grant(1, Never))>>)

ChainRevokes(k) ==
    /\ k \in DOMAIN live
    /\ live' = Remove(live, k)
    /\ Emit(<<[type |-> "revoke", key |-> k]>>)

\* A grant is used; the last use removes it, which looks like a revocation.
\* The claims module's own event follows.
ChainConsumes(k) ==
    /\ k \in DOMAIN live
    /\ LET last == live[k].left = 1
           used == IF k \in ClaimKeys THEN <<[type |-> "used", key |-> k]>> ELSE << >>
       IN  /\ live' = IF last THEN Remove(live, k) ELSE [live EXCEPT ![k].left = @ - 1]
           /\ Emit(IF last THEN <<[type |-> "revoke", key |-> k]>> \o used ELSE used)

\* A block ends; the next one begins by dropping, silently, what expired.
ChainEndsBlock ==
    /\ ChainsTurn
    /\ height < MaxHeight
    /\ backlog' = Append(backlog, [events |-> events, ended |-> live])
    /\ height' = height + 1
    /\ live' = Unexpired(live, height + 1)
    /\ events' = << >>
    /\ UNCHANGED <<messages, indexVars>>

----------------------------------------------------------------------------
(* The archive: authzGrantsQuery. *)

Snapped(h) == ((h + SnapInterval - 1) \div SnapInterval) * SnapInterval

EndOf(h) == backlog[h - indexed].ended

Exact == [kind |-> "exact", at |-> indexed + 1]

\* The state of the block being indexed, of the next retained version if it
\* is pruned and that one exists already, or an error.
Answers ==
    {Exact}
    \cup IF faults = MaxFaults THEN {}
         ELSE {a \in [kind : Faults, at : {Snapped(indexed + 1)}] :
                    a.kind = "pruned" => a.at > indexed + 1 /\ a.at < height}

\* Counts a fault, and notes the key that rests on it.
Note(a, k) ==
    /\ faults' = IF a = Exact THEN faults ELSE faults + 1
    /\ tainted' = IF a = Exact THEN tainted ELSE tainted \cup {k}

Found(a, k) == a.kind # "fails" /\ k \in DOMAIN EndOf(a.at)

----------------------------------------------------------------------------
(* The index. *)

Bare == Grant(Unknown, Never)

Event == backlog[1].events[pos + 1]

Processing(type) ==
    /\ ~ ChainsTurn
    /\ pos < Len(backlog[1].events)
    /\ Event.type = type

Processed ==
    /\ pos' = pos + 1
    /\ UNCHANGED <<chainVars, backlog, indexed, grants>>

\* The payload is written in the event itself.
IndexGrant ==
    /\ Processing("grant")
    /\ Event.via \in {"message", "payout"}
    /\ rows' = Put(rows, Event.key,
                   IF Event.via = "message" THEN Event.grant ELSE Bare)
    /\ tainted' = tainted \ {Event.key}
    /\ Processed
    /\ UNCHANGED faults

\* The row is left to the richer event of the same transaction, ...
IndexSkipsGrant ==
    /\ Processing("grant")
    /\ Event.via = "rich"
    /\ Processed
    /\ UNCHANGED <<rows, tainted, faults>>

\* ... which is this one.
IndexRichGrant ==
    /\ Processing("rich")
    /\ rows' = Put(rows, Event.key, Event.grant)
    /\ tainted' = tainted \ {Event.key}
    /\ Processed
    /\ UNCHANGED faults

\* Bug: without the payload there is no row.
HydrateOrSkip(a) ==
    IF Found(a, Event.key) THEN Put(rows, Event.key, EndOf(a.at)[Event.key]) ELSE rows

\* What the archive has, or else a bare row.
Hydrated(a) ==
    Put(rows, Event.key, IF Found(a, Event.key) THEN EndOf(a.at)[Event.key] ELSE Bare)

IndexHydratesGrant ==
    /\ Processing("grant")
    /\ Event.via = "wrapped"
    /\ \E a \in Answers :
        /\ rows' = Hydrated(a)
        /\ Note(a, Event.key)
    /\ Processed

IndexRevocation ==
    /\ Processing("revoke")
    /\ rows' = Remove(rows, Event.key)
    /\ tainted' = tainted \ {Event.key}
    /\ Processed
    /\ UNCHANGED faults

\* Bug: a refresh inserts the row it finds missing.
RefreshedOrInserted(a) ==
    IF Found(a, Event.key) THEN Put(rows, Event.key, EndOf(a.at)[Event.key]) ELSE rows

\* Bug: what a used authorization has left is not read again.
NotRefreshed(a) == rows

\* refreshConsumedGrant: only a row that is there gets what the archive has.
Refreshed(a) ==
    IF Found(a, Event.key) /\ Event.key \in DOMAIN rows
    THEN Put(rows, Event.key, EndOf(a.at)[Event.key])
    ELSE rows

IndexRefreshesGrant ==
    /\ Processing("used")
    /\ \E a \in Answers :
        /\ rows' = Refreshed(a)
        /\ Note(a, Event.key)
    /\ Processed

\* Bug: what expires at the block's own time is kept for one more block.
SweepBefore(h) == Restrict(rows, {k \in DOMAIN rows :
                    rows[k].expiration = Never \/ rows[k].expiration >= h})

\* deleteExpiredAuthzGrants, by the block's time.
Swept(h) == Unexpired(rows, h)

\* Bug: the next block is taken up where this one stopped.
WhereItStopped == pos

FirstEvent == 0

IndexEndsBlock ==
    /\ ~ ChainsTurn
    /\ pos = Len(backlog[1].events)
    /\ rows' = Swept(indexed + 1)
    /\ indexed' = indexed + 1
    /\ grants' = backlog[1].ended
    /\ backlog' = Tail(backlog)
    /\ pos' = FirstEvent
    /\ UNCHANGED <<chainVars, tainted, faults>>

----------------------------------------------------------------------------

Chain ==
    \/ \E k \in Keys :
        \/ \E via \in {"message", "rich", "wrapped"}, left \in Limits, t \in Lifetimes :
            ChainGrants(k, via, left, t)
        \/ ChainGrantsPayout(k) \/ ChainRevokes(k) \/ ChainConsumes(k)
    \/ ChainEndsBlock

Index ==
    \/ IndexGrant \/ IndexSkipsGrant \/ IndexRichGrant \/ IndexHydratesGrant
    \/ IndexRevocation \/ IndexRefreshesGrant \/ IndexEndsBlock

Next == Chain \/ Index

Spec == Init /\ [][Next]_vars

----------------------------------------------------------------------------

IsGrants(f) ==
    /\ DOMAIN f \subseteq Keys
    /\ \A k \in DOMAIN f : f[k] \in [left : Nat, expiration : Nat]

TypeOK ==
    /\ height \in 1..MaxHeight
    /\ IsGrants(live) /\ IsGrants(rows) /\ IsGrants(grants)
    /\ messages \in 0..MaxMessages
    /\ indexed = height - 1 - Len(backlog)
    /\ Len(backlog) <= Lag + 1
    /\ \A i \in DOMAIN backlog : IsGrants(backlog[i].ended)
    /\ pos # 0 => pos \in 1..Len(backlog[1].events)
    /\ tainted \subseteq Keys
    /\ faults \in 0..MaxFaults

\* Between two blocks the index stands for the chain as of the newest one.
BetweenBlocks == pos = 0

\* A row means that the capability exists, where the archive's answers were
\* exact since the key's grant: a bad answer about one key does no harm to
\* another, nor for longer than until the key is granted anew or revoked.
ExactRowsAreCapabilities == BetweenBlocks => DOMAIN rows \ tainted \subseteq DOMAIN grants

\* No grant is missing from the index, whatever the archive says.
NoGrantLost == BetweenBlocks => DOMAIN grants \subseteq DOMAIN rows

\* Where the answers were exact, a row tells when its grant expires and, of a
\* claims authorization, how much of it is left.
PayloadsMatch ==
    BetweenBlocks => \A k \in DOMAIN rows \ (tainted \cup PayoutKeys) :
        /\ rows[k].expiration = grants[k].expiration
        /\ k \in ClaimKeys => rows[k].left = grants[k].left
===============================================================================
