------------------------------- MODULE ArchiveApi -------------------------------
(***************************************************************************)
(* queryArchiveApi of util/archive-api.ts: requests to the archive node,   *)
(* each repeated a few times, before a cache that is keyed by path alone   *)
(* and emptied when a request comes for a greater height than any before.  *)
(*                                                                         *)
(* Who asks: the handlers of the block being indexed, at its height; authz *)
(* hydration, ahead of it and past the cache; the upgrade snapshot, at a   *)
(* fixed height behind it, under paths of its own; and, where an attempt   *)
(* failed, the handlers it left behind, still at their old height          *)
(* (SyncBlocks shows how they come about).                                 *)
(*                                                                         *)
(* An answer is abstracted to the height it is about.                      *)
(***************************************************************************)
EXTENDS Naturals

CONSTANTS
    Callers,        \* requests that may be under way at once
    BlockPaths, SnapshotPaths,
    UpgradeHeight,
    MaxRetries,     \* RETRY_BACKOFFS_MS.length
    Refused,        \* pairs <<path, height>> that get a deterministic error
    MaxHeight,      \* bound: heights
    MaxCrashes      \* bound: restarts

Paths == BlockPaths \cup SnapshotPaths
Heights == 1..MaxHeight

ASSUME ArchiveParameters ==
    /\ BlockPaths \cap SnapshotPaths = {}
    /\ MaxHeight \in Nat \ {0}
    /\ {MaxRetries, MaxCrashes} \subseteq Nat
    /\ UpgradeHeight \in Heights
    /\ Refused \subseteq Paths \X Heights

VARIABLES
    block,          \* the block the sync loop is at
    head,           \* the newest block the archive node has
    cache,          \* archiveApiCache: of some paths, the height answered for
    currentHeight,
    call,           \* of each caller
    abandoned,      \* the heights of attempts that failed in this process
    crashes

vars == <<block, head, cache, currentHeight, call, abandoned, crashes>>

Idle == [state |-> "idle"]

Init ==
    /\ block = 1
    /\ head = 0
    /\ cache = << >>
    /\ currentHeight = 0
    /\ call = [c \in Callers |-> Idle]
    /\ abandoned = {}
    /\ crashes = 0

----------------------------------------------------------------------------
(* A request. *)

\* Bug: the watermark moves, the entries stay.
RaisedOnly(h) == [height |-> IF h > currentHeight THEN h ELSE currentHeight, cache |-> cache]

CleanedUp(h) ==
    IF h > currentHeight THEN [height |-> h, cache |-> << >>]
    ELSE [height |-> currentHeight, cache |-> cache]

Call(state, path, height, stray, bypass, of) ==
    [state |-> state, path |-> path, height |-> height, stray |-> stray,
     bypass |-> bypass, attempt |-> 0, of |-> of]

Query(c, p, h, stray, bypass) ==
    LET cleaned == CleanedUp(h)
        hit == ~ bypass /\ p \in DOMAIN cleaned.cache
    IN  /\ call[c].state = "idle"
        /\ currentHeight' = IF bypass THEN currentHeight ELSE cleaned.height
        /\ cache' = IF bypass THEN cache ELSE cleaned.cache
        /\ call' = [call EXCEPT ![c] =
                       IF hit THEN Call("cached", p, h, stray, bypass, cleaned.cache[p])
                       ELSE Call("fetching", p, h, stray, bypass, 0)]
        /\ UNCHANGED <<block, head, abandoned, crashes>>

ReturnsCached(c) ==
    /\ call[c].state = "cached"
    /\ call' = [call EXCEPT ![c].state = "answered"]
    /\ UNCHANGED <<block, head, cache, currentHeight, abandoned, crashes>>

\* The archive answers and has been read; whatever height the cache is for by
\* now, the answer goes into it.
Succeeds(c) ==
    /\ call[c].state = "fetching"
    /\ call[c].height <= head
    /\ <<call[c].path, call[c].height>> \notin Refused
    /\ call' = [call EXCEPT ![c].state = "answered", ![c].of = call[c].height]
    /\ cache' = IF call[c].bypass THEN cache
                ELSE [p \in DOMAIN cache \cup {call[c].path} |->
                         IF p = call[c].path THEN call[c].height ELSE cache[p]]
    /\ UNCHANGED <<block, head, currentHeight, abandoned, crashes>>

\* An error that would be the same every time: no retry.
IsRefused(c) ==
    /\ call[c].state = "fetching"
    /\ call[c].height <= head
    /\ <<call[c].path, call[c].height>> \in Refused
    /\ call' = [call EXCEPT ![c].state = "failed"]
    /\ UNCHANGED <<block, head, cache, currentHeight, abandoned, crashes>>

\* Bug: the last attempt is followed by another wait.
SleepsAlways(c) ==
    /\ call[c].state = "fetching"
    /\ call' = [call EXCEPT ![c].state = "sleeping"]
    /\ UNCHANGED <<block, head, cache, currentHeight, abandoned, crashes>>

\* Rate limit, gateway error, timeout after thirty seconds, or a height the
\* archive does not have yet.
IsTroubled(c) ==
    /\ call[c].state = "fetching"
    /\ call' = [call EXCEPT ![c].state =
                   IF call[c].attempt = MaxRetries THEN "failed" ELSE "sleeping"]
    /\ UNCHANGED <<block, head, cache, currentHeight, abandoned, crashes>>

Retries(c) ==
    /\ call[c].state = "sleeping"
    /\ call' = [call EXCEPT ![c].state = "fetching",
                            ![c].attempt = IF @ < MaxRetries THEN @ + 1 ELSE @]
    /\ UNCHANGED <<block, head, cache, currentHeight, abandoned, crashes>>

CallStep(c) == ReturnsCached(c) \/ Succeeds(c) \/ IsRefused(c) \/ IsTroubled(c) \/ Retries(c)

----------------------------------------------------------------------------
(* Who asks, and when. *)

AskInBlock(c) == \E p \in BlockPaths : Query(c, p, block, FALSE, FALSE)

AskAhead(c) ==
    \E p \in BlockPaths, h \in block..MaxHeight : Query(c, p, h, FALSE, TRUE)

AskForSnapshot(c) ==
    /\ block >= UpgradeHeight
    /\ \E p \in SnapshotPaths : Query(c, p, UpgradeHeight, FALSE, FALSE)

\* A request past the cache is left out here: nobody would see it.
AskLeftBehind(c) ==
    \E p \in BlockPaths, h \in abandoned : Query(c, p, h, TRUE, FALSE)

Forget(c) ==
    /\ call[c].state \in {"answered", "failed"}
    /\ call' = [call EXCEPT ![c] = Idle]
    /\ UNCHANGED <<block, head, cache, currentHeight, abandoned, crashes>>

Busy == {c \in Callers : call[c].state # "idle"}

\* A handler throws; what the others still do is not waited for.
AttemptFails ==
    /\ abandoned' = abandoned \cup {block}
    /\ call' = [c \in Callers |-> IF c \in Busy THEN [call[c] EXCEPT !.stray = TRUE]
                                  ELSE call[c]]
    /\ UNCHANGED <<block, head, cache, currentHeight, crashes>>

\* All handlers of the block are done.
NextBlock ==
    /\ block < MaxHeight
    /\ \A c \in Busy : call[c].stray
    /\ block' = block + 1
    /\ UNCHANGED <<head, cache, currentHeight, call, abandoned, crashes>>

ArchiveAdvances ==
    /\ head < MaxHeight
    /\ head' = head + 1
    /\ UNCHANGED <<block, cache, currentHeight, call, abandoned, crashes>>

Crash ==
    /\ crashes < MaxCrashes
    /\ crashes' = crashes + 1
    /\ cache' = << >>
    /\ currentHeight' = 0
    /\ call' = [c \in Callers |-> Idle]
    /\ abandoned' = {}
    /\ UNCHANGED <<block, head>>

Ask(c) == AskInBlock(c) \/ AskAhead(c) \/ AskForSnapshot(c) \/ AskLeftBehind(c)

Next ==
    \/ \E c \in Callers : Ask(c) \/ CallStep(c) \/ Forget(c)
    \/ AttemptFails \/ NextBlock \/ ArchiveAdvances \/ Crash

Spec == Init /\ [][Next]_vars

\* A fetch ends within its timeout and a sleep after its seconds.
FairSpec == Spec /\ \A c \in Callers : WF_vars(CallStep(c))

----------------------------------------------------------------------------

TypeOK ==
    /\ block \in Heights
    /\ head \in 0..MaxHeight
    /\ currentHeight \in 0..MaxHeight
    /\ DOMAIN cache \subseteq Paths
    /\ \A p \in DOMAIN cache : cache[p] \in Heights
    /\ DOMAIN call = Callers
    /\ abandoned \subseteq Heights
    /\ crashes \in 0..MaxCrashes

\* What a caller sees of its call: ArchiveContract's request.
Seen(r) ==
    IF r.state = "idle" THEN Idle
    ELSE [state |-> IF r.state \in {"cached", "fetching", "sleeping"} THEN "asked" ELSE r.state,
          path |-> r.path, height |-> r.height, stray |-> r.stray,
          of |-> IF r.state = "answered" THEN r.of ELSE 0]

Requests == [c \in Callers |-> Seen(call[c])]

Contract == INSTANCE ArchiveContract WITH request <- Requests

\* The client keeps the contract: an answer is about the height that was asked
\* for, for all that the cache is keyed by path alone, that requests overlap,
\* come for older heights or ahead of the block, and that the process restarts;
\* save for what handlers left behind by a failed attempt put into it.
ContractKept == Contract!Spec

\* Every request is answered or fails, also where the archive stays behind or
\* refuses: the transaction that waits for it is not held forever.
CallsEnd ==
    \A c \in Callers :
        call[c].state \in {"cached", "fetching", "sleeping"}
            ~> call[c].state \in {"idle", "answered", "failed"}
===============================================================================
