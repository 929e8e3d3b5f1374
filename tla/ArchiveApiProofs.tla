--------------------------- MODULE ArchiveApiProofs ---------------------------
(***************************************************************************)
(* The archive client keeps its contract, for all paths, heights, callers, *)
(* refusals and any number of retries and restarts.                        *)
(*                                                                         *)
(* The inductive invariant says what the cache holds: under the path of a  *)
(* block handler an answer about currentHeight or about a height some      *)
(* attempt was abandoned at; and that a request of a handler that is still *)
(* waited for is about the block, which is then currentHeight.             *)
(***************************************************************************)
EXTENDS ArchiveApi, TLAPS

States == {"cached", "fetching", "sleeping", "answered", "failed"}

Calls == [state : States, path : Paths, height : Heights, stray : BOOLEAN,
          bypass : BOOLEAN, attempt : 0..MaxRetries, of : 0..MaxHeight]

Trusted(p, of) == of = currentHeight \/ of \in abandoned

Entry(p, of) ==
    /\ of \in Heights
    /\ <<p, of>> \notin Refused
    /\ p \in BlockPaths => Trusted(p, of)
    /\ p \in SnapshotPaths => of = UpgradeHeight

\* What the height of a request that uses the cache can be.
Placed(r) ==
    ~ r.bypass =>
        /\ r.path \in BlockPaths /\ ~ r.stray => r.height = block /\ currentHeight = block
        /\ r.path \in BlockPaths /\ r.stray => r.height \in abandoned
        /\ r.path \in SnapshotPaths => r.height = UpgradeHeight

Owed(r) ==
    r.state \in {"cached", "answered"} =>
        /\ r.of \in Heights
        /\ <<r.path, r.of>> \notin Refused
        /\ r.stray \/ r.of = r.height \/ r.of \in abandoned

CallOK(r) == r = Idle \/ (r \in Calls /\ Placed(r) /\ Owed(r))

Heighted ==
    /\ block \in Heights
    /\ currentHeight \in 0..block
    /\ abandoned \subseteq 1..block
    /\ head \in 0..MaxHeight
    /\ crashes \in 0..MaxCrashes

CacheOK == DOMAIN cache \subseteq Paths /\ \A p \in DOMAIN cache : Entry(p, cache[p])

CallsOK == DOMAIN call = Callers /\ call = [c \in Callers |-> call[c]]
           /\ \A c \in Callers : CallOK(call[c])

IInv == Heighted /\ CacheOK /\ CallsOK

USE ArchiveParameters

\* The invariant holds at the start, ...
LEMMA InitOK == Init => IInv
  BY DEF Init, IInv, Heighted, CacheOK, CallsOK, CallOK, Heights, Idle

\* A request, wherever it comes from: what it is about decides whether it may
\* use the cache.
LEMMA QueryOK ==
    ASSUME IInv, NEW c \in Callers, NEW p \in Paths, NEW h \in Heights,
           NEW stray \in BOOLEAN, NEW bypass \in BOOLEAN,
           Query(c, p, h, stray, bypass),
           ~ bypass => /\ h <= block
                       /\ p \in BlockPaths /\ ~ stray => h = block
                       /\ p \in BlockPaths /\ stray => h \in abandoned
                       /\ p \in SnapshotPaths => h = UpgradeHeight
    PROVE  IInv'
  <1> DEFINE cleaned == CleanedUp(h)
             hit == ~ bypass /\ p \in DOMAIN cleaned.cache
  <1>0. PICK new : new = IF hit THEN Call("cached", p, h, stray, bypass, cleaned.cache[p])
                         ELSE Call("fetching", p, h, stray, bypass, 0)
    OBVIOUS
  <1>1. /\ call' = [call EXCEPT ![c] = new]
        /\ currentHeight' = IF bypass THEN currentHeight ELSE cleaned.height
        /\ cache' = IF bypass THEN cache ELSE cleaned.cache
        /\ UNCHANGED <<block, head, abandoned, crashes>>
    BY <1>0 DEF Query
  <1>2. Heighted'
    BY <1>1 DEF IInv, Heighted, CleanedUp, Heights
  <1>3. \/ currentHeight' = currentHeight /\ cache' = cache
        \/ currentHeight' > currentHeight /\ cache' = << >> /\ h = currentHeight' /\ ~ bypass
    BY <1>1 DEF CleanedUp, IInv, Heighted, Heights
  <1>4. CacheOK'
    <2>1. CASE currentHeight' = currentHeight /\ cache' = cache
      BY <1>1, <2>1 DEF IInv, CacheOK, Entry, Trusted
    <2>2. CASE cache' = << >>
      BY <2>2 DEF CacheOK
    <2> QED BY <1>3, <2>1, <2>2
  <1>5. ~ bypass => currentHeight' >= h /\ (h = block => currentHeight' = block)
    BY <1>1 DEF CleanedUp, IInv, Heighted, Heights
  <1>6. \/ /\ p \in DOMAIN cache' /\ ~ bypass
           /\ new = Call("cached", p, h, stray, bypass, cache'[p])
        \/ new = Call("fetching", p, h, stray, bypass, 0)
    BY <1>0, <1>1
  <1>7. ASSUME p \in DOMAIN cache', ~ bypass
        PROVE  /\ cache'[p] \in Heights /\ <<p, cache'[p]>> \notin Refused
               /\ stray \/ cache'[p] = h \/ cache'[p] \in abandoned'
    BY <1>1, <1>4, <1>5, <1>7 DEF CacheOK, Entry, Trusted, Paths
  <1>8. new \in Calls /\ Placed(new)' /\ Owed(new)'
    <2>1. CASE p \in DOMAIN cache' /\ ~ bypass /\ new = Call("cached", p, h, stray, bypass, cache'[p])
      <3>1. new \in Calls
        BY <1>7, <2>1 DEF Call, Calls, States, Heights
      <3>2. Placed(new)'
        BY <1>1, <1>5, <2>1 DEF Placed, Call
      <3>3. Owed(new)'
        BY <1>7, <2>1 DEF Owed, Call
      <3> QED BY <3>1, <3>2, <3>3
    <2>2. CASE new = Call("fetching", p, h, stray, bypass, 0)
      <3>1. new \in Calls
        BY <2>2 DEF Call, Calls, States, Heights
      <3>2. Placed(new)'
        BY <1>1, <1>5, <2>2 DEF Placed, Call
      <3>3. Owed(new)'
        BY <2>2 DEF Owed, Call
      <3> QED BY <3>1, <3>2, <3>3
    <2> QED BY <1>6, <2>1, <2>2
  <1>9. ASSUME NEW d \in Callers, d # c PROVE CallOK(call[d])'
    <2>1. call'[d] = call[d] /\ CallOK(call[d])
      BY <1>1, <1>9 DEF IInv, CallsOK
    <2>2. CASE call[d] = Idle
      BY <2>1, <2>2 DEF CallOK, Idle
    <2>3. CASE call[d] \in Calls /\ Placed(call[d]) /\ Owed(call[d])
      <3>1. Placed(call[d])'
        BY <2>1, <2>3, <1>1, <1>2, <1>3 DEF Placed, IInv, Heighted, Heights
      <3>2. Owed(call[d])'
        BY <2>1, <2>3, <1>1 DEF Owed
      <3> QED BY <2>1, <2>3, <3>1, <3>2 DEF CallOK, Calls
    <2> QED BY <2>1, <2>2, <2>3 DEF CallOK
  <1>10. call'[c] = new /\ DOMAIN call' = Callers /\ call' = [d \in Callers |-> call'[d]]
    BY <1>1 DEF IInv, CallsOK
  <1>11. CallOK(call[c])'
    BY <1>8, <1>10 DEF CallOK, Calls, Placed, Owed
  <1>12. CallsOK'
    BY <1>9, <1>10, <1>11 DEF CallsOK
  <1> QED BY <1>2, <1>4, <1>12 DEF IInv

\* ... a request keeps it, ...
LEMMA AskOK == ASSUME IInv, NEW c \in Callers, Ask(c) PROVE IInv'
  <1>1. CASE AskInBlock(c)
    <2>1. PICK p \in BlockPaths : Query(c, p, block, FALSE, FALSE)
      BY <1>1 DEF AskInBlock
    <2>2. block \in Heights /\ block <= block /\ p \in Paths /\ p \notin SnapshotPaths
      BY DEF IInv, Heighted, Heights, Paths
    <2>3. FALSE \in BOOLEAN
      OBVIOUS
    <2> QED BY <2>1, <2>2, <2>3, QueryOK
  <1>2. CASE AskAhead(c)
    <2>1. PICK p \in BlockPaths, h \in block..MaxHeight : Query(c, p, h, FALSE, TRUE)
      BY <1>2 DEF AskAhead
    <2>2. h \in Heights /\ p \in Paths
      BY DEF IInv, Heighted, Heights, Paths
    <2> QED BY <2>1, <2>2, QueryOK
  <1>3. CASE AskForSnapshot(c)
    <2>1. PICK p \in SnapshotPaths : Query(c, p, UpgradeHeight, FALSE, FALSE)
      BY <1>3 DEF AskForSnapshot
    <2>2. p \notin BlockPaths /\ UpgradeHeight <= block
      BY <1>3 DEF AskForSnapshot
    <2> QED BY <2>1, <2>2, QueryOK DEF Paths
  <1>4. CASE AskLeftBehind(c)
    <2>1. PICK p \in BlockPaths, h \in abandoned : Query(c, p, h, TRUE, FALSE)
      BY <1>4 DEF AskLeftBehind
    <2>2. h \in Heights /\ h <= block
      BY DEF IInv, Heighted, Heights
    <2> QED BY <2>1, <2>2, QueryOK DEF Paths
  <1> QED BY <1>1, <1>2, <1>3, <1>4 DEF Ask

\* A step of one call that leaves the loop and the other calls alone.
LEMMA OneCallOK ==
    ASSUME IInv, NEW c \in Callers, NEW new, CallOK(new)',
           call' = [call EXCEPT ![c] = new],
           UNCHANGED <<block, head, currentHeight, abandoned, crashes>>
    PROVE  Heighted' /\ CallsOK'
  <1>1. Heighted'
    BY DEF IInv, Heighted
  <1>2. \A d \in Callers : d # c => call'[d] = call[d] /\ CallOK(call[d])
    BY DEF IInv, CallsOK
  <1>3. call'[c] = new /\ DOMAIN call' = Callers /\ call' = [d \in Callers |-> call'[d]]
    BY DEF IInv, CallsOK
  <1>4. \A d \in Callers : d # c => CallOK(call[d])'
    BY <1>2 DEF CallOK, Placed, Owed, Idle, Calls
  <1>5. CallOK(call[c])'
    BY <1>3 DEF CallOK, Placed, Owed, Idle, Calls
  <1> QED BY <1>1, <1>3, <1>4, <1>5 DEF CallsOK

\* ... the steps of one call do, ...
LEMMA CallStepOK == ASSUME IInv, NEW c \in Callers, CallStep(c) \/ Forget(c) PROVE IInv'
  <1> DEFINE r == call[c]
  <1>1. CallOK(r)
    BY DEF IInv, CallsOK
  <1>2. ASSUME UNCHANGED cache, UNCHANGED <<currentHeight, abandoned>> PROVE CacheOK'
    BY <1>2 DEF IInv, CacheOK, Entry, Trusted
  <1>3. CASE ReturnsCached(c)
    <2>1. PICK new : new = [r EXCEPT !.state = "answered"]
      OBVIOUS
    <2>2. CallOK(new)'
      BY <1>1, <1>3, <2>1 DEF ReturnsCached, CallOK, Calls, States, Placed, Owed, Idle
    <2> QED BY <1>2, <1>3, <2>1, <2>2, OneCallOK DEF ReturnsCached, IInv
  <1>4. CASE Succeeds(c)
    <2>1. PICK new : new = [r EXCEPT !.state = "answered", !.of = r.height]
      OBVIOUS
    <2>2. r \in Calls /\ Placed(r) /\ r.path \in Paths /\ r.height \in Heights
      BY <1>1, <1>4 DEF Succeeds, CallOK, Idle, Calls
    <2>3. CallOK(new)'
      <3>1. new \in Calls
        <4>1. r.height \in 0..MaxHeight
          BY <2>2 DEF Heights
        <4>2. new = [r EXCEPT !.state = "answered", !.of = r.height]
          BY <2>1
        <4> QED BY <2>2, <4>1, <4>2 DEF Calls, States
      <3>2. Placed(new)'
        BY <1>4, <2>1, <2>2 DEF Succeeds, Placed, Calls
      <3>3. Owed(new)'
        BY <1>4, <2>1, <2>2 DEF Succeeds, Owed, Calls
      <3> QED BY <3>1, <3>2, <3>3 DEF CallOK, Calls
    <2>4. CacheOK'
      <3>1. CASE r.bypass
        BY <1>2, <1>4, <3>1 DEF Succeeds
      <3>2. CASE ~ r.bypass
        <4>1. Entry(r.path, r.height)
          <5>1. r.path \in BlockPaths => Trusted(r.path, r.height)
            BY <2>2, <3>2 DEF Placed, Trusted, Calls
          <5> QED BY <1>4, <2>2, <3>2, <5>1 DEF Succeeds, Entry, Placed
        <4>2. cache' = [p \in DOMAIN cache \cup {r.path} |->
                          IF p = r.path THEN r.height ELSE cache[p]]
          BY <1>4, <3>2 DEF Succeeds
        <4>3. \A p \in DOMAIN cache' : Entry(p, cache'[p])
          BY <4>1, <4>2 DEF IInv, CacheOK
        <4>4. \A p \in DOMAIN cache' : Entry(p, cache[p])'
          BY <1>4, <4>3 DEF Succeeds, Entry, Trusted
        <4> QED BY <2>2, <4>2, <4>4 DEF IInv, CacheOK
      <3> QED BY <3>1, <3>2
    <2> QED BY <1>4, <2>1, <2>3, <2>4, OneCallOK DEF Succeeds, IInv
  <1>5. ASSUME r.state \in {"fetching", "sleeping"},
               NEW st \in {"failed", "fetching", "sleeping"}, NEW n \in 0..MaxRetries,
               call' = [call EXCEPT ![c].state = st, ![c].attempt = n],
               UNCHANGED <<block, head, cache, currentHeight, abandoned, crashes>>
        PROVE  IInv'
    <2>1. PICK new : new = [r EXCEPT !.state = st, !.attempt = n]
      OBVIOUS
    <2>2. r \in Calls /\ Placed(r)
      BY <1>1, <1>5 DEF CallOK, Idle
    <2>3. new \in Calls /\ new.state = st
      BY <2>1, <2>2 DEF Calls, States
    <2>4. Placed(new)'
      BY <1>5, <2>1, <2>2 DEF Placed, Calls
    <2>5. CallOK(new)'
      BY <2>3, <2>4 DEF CallOK, Owed, Calls
    <2>6. call' = [call EXCEPT ![c] = new]
      BY <1>5, <2>1 DEF IInv, CallsOK
    <2> QED BY <1>2, <1>5, <2>5, <2>6, OneCallOK DEF IInv
  <1>6. ASSUME r.state \in {"fetching", "sleeping"} PROVE r \in Calls
    BY <1>1, <1>6 DEF CallOK, Idle
  <1>7. CASE IsRefused(c)
    <2>1. call' = [call EXCEPT ![c].state = "failed", ![c].attempt = r.attempt]
      BY <1>6, <1>7 DEF IsRefused, Calls
    <2> QED BY <1>5, <1>6, <1>7, <2>1 DEF IsRefused, Calls
  <1>8. CASE IsTroubled(c)
    <2>1. PICK st \in {"failed", "sleeping"} :
            call' = [call EXCEPT ![c].state = st, ![c].attempt = r.attempt]
      BY <1>6, <1>8 DEF IsTroubled, Calls
    <2> QED BY <1>5, <1>6, <1>8, <2>1 DEF IsTroubled, Calls
  <1>9. CASE Retries(c)
    <2>1. PICK n \in 0..MaxRetries : n = IF r.attempt < MaxRetries THEN r.attempt + 1 ELSE r.attempt
      BY <1>6, <1>9 DEF Retries, Calls
    <2>2. call' = [call EXCEPT ![c].state = "fetching", ![c].attempt = n]
      BY <1>9, <2>1 DEF Retries
    <2> QED BY <1>5, <1>9, <2>2 DEF Retries
  <1>10. CASE Forget(c)
    <2>1. CallOK(Idle)'
      BY DEF CallOK, Idle
    <2> QED BY <1>2, <1>10, <2>1, OneCallOK DEF Forget, IInv
  <1> QED BY <1>3, <1>4, <1>7, <1>8, <1>9, <1>10 DEF CallStep

\* The steps of the loop and of the archive.
LEMMA LoopOK ==
    ASSUME IInv, AttemptFails \/ NextBlock \/ ArchiveAdvances \/ Crash
    PROVE  IInv'
  <1>1. CASE AttemptFails
    <2>1. Heighted' /\ CacheOK'
      BY <1>1 DEF AttemptFails, IInv, Heighted, CacheOK, Entry, Trusted, Heights
    <2>2. ASSUME NEW c \in Callers PROVE CallOK(call[c])'
      <3>1. CASE call[c] = Idle
        BY <1>1, <3>1 DEF AttemptFails, Busy, CallOK, Idle
      <3>2. CASE call[c] \in Calls /\ Placed(call[c]) /\ Owed(call[c])
        <4>1. PICK new : new = [call[c] EXCEPT !.stray = TRUE]
          OBVIOUS
        <4>2. c \in Busy /\ call'[c] = new
          BY <1>1, <3>2, <4>1 DEF AttemptFails, Busy, Calls, States
        <4>3. new \in Calls
          BY <3>2, <4>1 DEF Calls
        <4>4. Placed(new)'
          BY <1>1, <3>2, <4>1 DEF AttemptFails, Placed, Calls, Paths
        <4>5. Owed(new)'
          BY <1>1, <3>2, <4>1 DEF AttemptFails, Owed, Calls
        <4> QED BY <4>2, <4>3, <4>4, <4>5 DEF CallOK, Calls, Placed, Owed
      <3> QED BY <3>1, <3>2 DEF IInv, CallsOK, CallOK
    <2>3. DOMAIN call' = Callers /\ call' = [c \in Callers |-> call'[c]]
      BY <1>1 DEF AttemptFails
    <2> QED BY <2>1, <2>2, <2>3 DEF IInv, CallsOK
  <1>2. CASE NextBlock
    <2>1. Heighted' /\ CacheOK'
      BY <1>2 DEF NextBlock, IInv, Heighted, CacheOK, Entry, Trusted, Heights
    <2>2. ASSUME NEW c \in Callers PROVE CallOK(call[c])'
      <3>1. call'[c] = call[c] /\ CallOK(call[c])
        BY <1>2 DEF NextBlock, IInv, CallsOK
      <3>2. CASE call[c] = Idle
        BY <3>1, <3>2 DEF CallOK, Idle
      <3>3. CASE call[c] \in Calls /\ Placed(call[c]) /\ Owed(call[c])
        <4>1. call[c].stray
          BY <1>2, <3>3 DEF NextBlock, Busy, Calls, States
        <4> QED BY <1>2, <3>1, <3>3, <4>1 DEF NextBlock, CallOK, Calls, Placed, Owed
      <3> QED BY <3>1, <3>2, <3>3 DEF CallOK
    <2> QED BY <1>2, <2>1, <2>2 DEF NextBlock, IInv, CallsOK
  <1>3. CASE ArchiveAdvances
    <2>1. Heighted' /\ CacheOK'
      BY <1>3 DEF ArchiveAdvances, IInv, Heighted, CacheOK, Entry, Trusted, Heights
    <2>2. CallsOK'
      BY <1>3 DEF ArchiveAdvances, IInv, CallsOK, CallOK, Calls, Placed, Owed, Idle
    <2> QED BY <2>1, <2>2 DEF IInv
  <1>4. CASE Crash
    <2>1. Heighted' /\ CacheOK'
      BY <1>4 DEF Crash, IInv, Heighted, CacheOK, Heights
    <2>2. CallsOK'
      BY <1>4 DEF Crash, CallsOK, CallOK, Idle
    <2> QED BY <2>1, <2>2 DEF IInv
  <1> QED BY <1>1, <1>2, <1>3, <1>4

\* ... and every step.
LEMMA StepOK == IInv /\ [Next]_vars => IInv'
  <1> SUFFICES ASSUME IInv, [Next]_vars PROVE IInv'
    OBVIOUS
  <1>1. CASE Next
    <2>1. CASE \E c \in Callers : Ask(c) \/ CallStep(c) \/ Forget(c)
      BY <2>1, AskOK, CallStepOK
    <2>2. CASE AttemptFails \/ NextBlock \/ ArchiveAdvances \/ Crash
      BY <2>2, LoopOK
    <2> QED BY <1>1, <2>1, <2>2 DEF Next
  <1>2. CASE UNCHANGED vars
    BY <1>2 DEF vars, IInv, Heighted, CacheOK, Entry, Trusted, CallsOK, CallOK, Calls,
                Placed, Owed, Idle
  <1> QED BY <1>1, <1>2

\* The cache and the calls are always as the invariant says.
LEMMA Inductive == Spec => []IInv
  BY InitOK, StepOK, PTL DEF Spec

\* Every behaviour keeps the type invariant of the archive client.
THEOREM ArchiveTypeCorrect == Spec => []TypeOK
  <1>1. IInv => TypeOK
    <2> SUFFICES ASSUME IInv PROVE TypeOK
      OBVIOUS
    <2>1. block \in Heights /\ head \in 0..MaxHeight /\ crashes \in 0..MaxCrashes
      BY DEF IInv, Heighted
    <2>2. currentHeight \in 0..MaxHeight /\ abandoned \subseteq Heights
      BY DEF IInv, Heighted, Heights
    <2>3. DOMAIN cache \subseteq Paths /\ \A p \in DOMAIN cache : cache[p] \in Heights
      BY DEF IInv, CacheOK, Entry
    <2>4. DOMAIN call = Callers
      BY DEF IInv, CallsOK
    <2> QED BY <2>1, <2>2, <2>3, <2>4 DEF TypeOK
  <1> QED BY Inductive, <1>1, PTL

----------------------------------------------------------------------------
(* The refinement.  A request is idle or under way for its caller just if   *)
(* it is so here; a cached or a fetched answer is an answer, whether a       *)
(* retry happens in between is not seen.                                     *)

\* The steps of one call, seen by its caller.
LEMMA Looks == ASSUME IInv, NEW c \in Callers PROVE Requests[c] = Seen(call[c]) /\ CallOK(call[c])
  BY DEF Requests, IInv, CallsOK

\* A step of one call changes one request of the contract.
LEMMA OneSeen ==
    ASSUME IInv, NEW c \in Callers, NEW new, call' = [call EXCEPT ![c] = new]
    PROVE  Requests' = [Requests EXCEPT ![c] = Seen(new)]
  <1>1. \A d \in Callers : call'[d] = IF d = c THEN new ELSE call[d]
    BY DEF IInv, CallsOK
  <1> QED BY <1>1 DEF Requests, Seen

\* A query is a request of the contract.
LEMMA AskSeen ==
    ASSUME IInv, NEW c \in Callers, NEW p \in Paths, NEW h \in Heights,
           NEW stray \in BOOLEAN, NEW bypass \in BOOLEAN,
           Query(c, p, h, stray, bypass)
    PROVE  Contract!Ask(c)
  <1> DEFINE hit == ~ bypass /\ p \in DOMAIN CleanedUp(h).cache
  <1>1. PICK st \in {"cached", "fetching"} : st = IF hit THEN "cached" ELSE "fetching"
    OBVIOUS
  <1>a. PICK of : of = IF hit THEN CleanedUp(h).cache[p] ELSE 0
    OBVIOUS
  <1>b. call' = [call EXCEPT ![c] = Call(st, p, h, stray, bypass, of)]
    BY <1>1, <1>a DEF Query
  <1>2. PICK new : new = Call(st, p, h, stray, bypass, of)
    OBVIOUS
  <1>3. Seen(new) = Contract!Request("asked", p, h, stray, 0)
    BY <1>2 DEF Seen, Call, Contract!Request
  <1>4. Requests[c].state = "idle"
    <2>1. call[c].state = "idle"
      BY DEF Query
    <2>2. Requests[c] = Seen(call[c])
      BY Looks
    <2> QED BY <2>1, <2>2 DEF Seen, Idle
  <1>5. Requests' = [Requests EXCEPT ![c] = Contract!Request("asked", p, h, stray, 0)]
    BY <1>b, <1>2, <1>3, OneSeen
  <1>6. UNCHANGED abandoned
    BY DEF Query
  <1> QED BY <1>4, <1>5, <1>6 DEF Contract!Ask

\* What EXCEPT makes of a request.
LEMMA Answering ==
    ASSUME NEW p, NEW h, NEW stray, NEW of, NEW r,
           r = [state |-> "asked", path |-> p, height |-> h, stray |-> stray, of |-> 0]
    PROVE  [r EXCEPT !.state = "answered", !.of = of]
           = [state |-> "answered", path |-> p, height |-> h, stray |-> stray, of |-> of]
  <1>1. PICK S : S = [state : {"asked", "answered"}, path : {p}, height : {h},
                      stray : {stray}, of : {0, of}]
    OBVIOUS
  <1>2. PICK new : new = [r EXCEPT !.state = "answered", !.of = of]
    OBVIOUS
  <1>3. new \in S
    BY <1>1, <1>2
  <1>4. new = [state |-> "answered", path |-> p, height |-> h, stray |-> stray, of |-> of]
    BY <1>1, <1>2, <1>3
  <1> QED BY <1>2, <1>4

\* A call that strays is otherwise the same.
LEMMA Straying ==
    ASSUME NEW st, NEW p, NEW h, NEW stray, NEW of, NEW r,
           r = [state |-> st, path |-> p, height |-> h, stray |-> stray, of |-> of]
    PROVE  [r EXCEPT !.stray = TRUE]
           = [state |-> st, path |-> p, height |-> h, stray |-> TRUE, of |-> of]
  <1>1. PICK S : S = [state : {st}, path : {p}, height : {h}, stray : {stray, TRUE}, of : {of}]
    OBVIOUS
  <1>2. PICK new : new = [r EXCEPT !.stray = TRUE]
    OBVIOUS
  <1>3. new \in S
    BY <1>1, <1>2
  <1>4. new = [state |-> st, path |-> p, height |-> h, stray |-> TRUE, of |-> of]
    BY <1>1, <1>2, <1>3
  <1> QED BY <1>2, <1>4

\* A step of one call is an answer, a failure or nothing.
LEMMA CallStepSeen ==
    ASSUME IInv, NEW c \in Callers, CallStep(c) \/ Forget(c)
    PROVE  \/ Contract!Answer(c) \/ Contract!Fail(c) \/ Contract!Forget(c)
           \/ UNCHANGED <<Requests, abandoned>>
  <1> DEFINE r == call[c]
  <1>1. Requests[c] = Seen(r) /\ CallOK(r)
    BY Looks
  <1>2. r.state \in States => r \in Calls /\ Owed(r)
    BY <1>1 DEF CallOK, Idle, States
  <1>3. UNCHANGED abandoned
    BY DEF CallStep, ReturnsCached, Succeeds, IsRefused, IsTroubled, Retries, Forget
  <1>4. ASSUME NEW of \in Heights, NEW st \in {"cached", "fetching"}, r.state = st,
               r.stray \/ of = r.height \/ of \in abandoned, <<r.path, of>> \notin Refused,
               call' = [call EXCEPT ![c] = [r EXCEPT !.state = "answered", !.of = of]]
        PROVE  Contract!Answer(c)
    <2>1. PICK new : new = [r EXCEPT !.state = "answered", !.of = of]
      OBVIOUS
    <2>2. r \in Calls
      BY <1>2, <1>4 DEF States
    <2>3. Requests[c].state = "asked" /\ Requests[c].stray = r.stray
          /\ Requests[c].path = r.path /\ Requests[c].height = r.height
      BY <1>1, <1>4, <2>2 DEF Seen, Calls
    <2>4. Seen(new) = [Seen(r) EXCEPT !.state = "answered", !.of = of]
      <3>1. Seen(r) = [state |-> "asked", path |-> r.path, height |-> r.height,
                       stray |-> r.stray, of |-> 0]
        BY <1>4 DEF Seen
      <3>2. /\ new.state = "answered" /\ new.of = of /\ new.path = r.path
            /\ new.height = r.height /\ new.stray = r.stray
        BY <2>1, <2>2 DEF Calls
      <3>3. Seen(new) = [state |-> "answered", path |-> r.path, height |-> r.height,
                         stray |-> r.stray, of |-> of]
        BY <3>2 DEF Seen
      <3>4. PICK seen : seen = Seen(r)
        OBVIOUS
      <3>5. PICK p, h, stray : p = r.path /\ h = r.height /\ stray = r.stray
        OBVIOUS
      <3>6. seen = [state |-> "asked", path |-> p, height |-> h, stray |-> stray, of |-> 0]
        BY <3>1, <3>4, <3>5
      <3>7. Seen(new) = [state |-> "answered", path |-> p, height |-> h,
                         stray |-> stray, of |-> of]
        BY <3>3, <3>5
      <3>8. [seen EXCEPT !.state = "answered", !.of = of]
            = [state |-> "answered", path |-> p, height |-> h, stray |-> stray, of |-> of]
        BY <3>6, Answering
      <3> QED BY <3>4, <3>7, <3>8
    <2>5. Requests' = [Requests EXCEPT ![c] = Seen(new)]
      BY <1>4, <2>1, OneSeen
    <2>6. Requests' = [Requests EXCEPT ![c].state = "answered", ![c].of = of]
      BY <1>1, <2>4, <2>5 DEF Requests
    <2> QED BY <1>3, <1>4, <2>3, <2>6 DEF Contract!Answer, Contract!Promised
  <1>5. ASSUME r.state \in {"fetching", "sleeping"},
               NEW st \in {"failed", "fetching", "sleeping"}, NEW n,
               call' = [call EXCEPT ![c].state = st, ![c].attempt = n]
        PROVE  Contract!Fail(c) \/ UNCHANGED <<Requests, abandoned>>
    <2>1. PICK new : new = [r EXCEPT !.state = st, !.attempt = n]
      OBVIOUS
    <2>2. r \in Calls
      BY <1>2, <1>5 DEF States
    <2>3. Requests' = [Requests EXCEPT ![c] = Seen(new)]
      <3>1. call' = [call EXCEPT ![c] = new]
        BY <1>5, <2>1 DEF IInv, CallsOK
      <3> QED BY <3>1, OneSeen
    <2>4. CASE st = "failed"
      <3>1. Seen(new) = [Seen(r) EXCEPT !.state = "failed"] /\ Seen(r).state = "asked"
        BY <1>5, <2>1, <2>2, <2>4 DEF Seen, Calls
      <3>2. Requests' = [Requests EXCEPT ![c].state = "failed"]
        BY <1>1, <2>3, <3>1 DEF Requests
      <3> QED BY <1>1, <1>3, <3>1, <3>2 DEF Contract!Fail
    <2>5. CASE st # "failed"
      <3>1. Seen(new) = Seen(r)
        BY <1>5, <2>1, <2>2, <2>5 DEF Seen, Calls
      <3> QED BY <1>1, <1>3, <2>3, <3>1 DEF Requests
    <2> QED BY <2>4, <2>5
  <1>6. CASE ReturnsCached(c)
    <2>1. r \in Calls /\ Owed(r)
      BY <1>2, <1>6 DEF ReturnsCached, States
    <2>2. call' = [call EXCEPT ![c] = [r EXCEPT !.state = "answered", !.of = r.of]]
      BY <1>6, <2>1 DEF ReturnsCached, Calls
    <2> QED BY <1>4, <1>6, <2>1, <2>2 DEF ReturnsCached, Owed
  <1>7. CASE Succeeds(c)
    <2>1. r \in Calls
      BY <1>2, <1>7 DEF Succeeds, States
    <2>2. call' = [call EXCEPT ![c] = [r EXCEPT !.state = "answered", !.of = r.height]]
      BY <1>7 DEF Succeeds
    <2> QED BY <1>4, <1>7, <2>1, <2>2 DEF Succeeds, Calls
  <1>8. CASE IsRefused(c)
    <2>1. r \in Calls
      BY <1>2, <1>8 DEF IsRefused, States
    <2>2. call' = [call EXCEPT ![c].state = "failed", ![c].attempt = r.attempt]
      BY <1>8, <2>1 DEF IsRefused, Calls
    <2> QED BY <1>5, <1>8, <2>2 DEF IsRefused
  <1>9. CASE IsTroubled(c)
    <2>1. r \in Calls
      BY <1>2, <1>9 DEF IsTroubled, States
    <2>2. PICK st \in {"failed", "sleeping"} :
            call' = [call EXCEPT ![c].state = st, ![c].attempt = r.attempt]
      BY <1>9, <2>1 DEF IsTroubled, Calls
    <2> QED BY <1>5, <1>9, <2>2 DEF IsTroubled
  <1>10. CASE Retries(c)
    <2>1. PICK n : n = IF r.attempt < MaxRetries THEN r.attempt + 1 ELSE r.attempt
      OBVIOUS
    <2>2. call' = [call EXCEPT ![c].state = "fetching", ![c].attempt = n]
      BY <1>10, <2>1 DEF Retries
    <2> QED BY <1>5, <1>10, <2>2 DEF Retries
  <1>11. CASE Forget(c)
    <2>1. r \in Calls
      BY <1>2, <1>11 DEF Forget, States
    <2>2. Requests[c].state \in {"answered", "failed"}
      BY <1>1, <1>11, <2>1 DEF Forget, Seen, Calls
    <2>3. Requests' = [Requests EXCEPT ![c] = Contract!Idle]
      <3>1. Requests' = [Requests EXCEPT ![c] = Seen(Idle)]
        BY <1>11, OneSeen DEF Forget
      <3> QED BY <3>1 DEF Seen, Idle, Contract!Idle
    <2> QED BY <1>3, <2>2, <2>3 DEF Contract!Forget
  <1> QED BY <1>6, <1>7, <1>8, <1>9, <1>10, <1>11 DEF CallStep

\* What the loop does abandons or restarts, or is not seen.
LEMMA LoopSeen ==
    ASSUME IInv, AttemptFails \/ NextBlock \/ ArchiveAdvances \/ Crash
    PROVE  Contract!Abandon \/ Contract!Restart \/ UNCHANGED <<Requests, abandoned>>
  <1>1. CASE AttemptFails
    <2>1. ASSUME NEW c \in Callers
          PROVE  Seen(call'[c]) = Contract!LeftBehind(Seen(call[c]))
      <3>1. CallOK(call[c])
        BY Looks
      <3>2. CASE call[c] = Idle
        BY <1>1, <3>2 DEF AttemptFails, Busy, Seen, Idle, Contract!LeftBehind
      <3>3. CASE call[c] \in Calls
        <4>1. call[c].state # "idle" /\ call'[c] = [call[c] EXCEPT !.stray = TRUE]
          BY <1>1, <3>3 DEF AttemptFails, Busy, Calls, States
        <4>2. Seen(call[c]).state # "idle"
          BY <4>1 DEF Seen
        <4>3. Seen([call[c] EXCEPT !.stray = TRUE]) = [Seen(call[c]) EXCEPT !.stray = TRUE]
          <5>1. PICK r : r = call[c]
            OBVIOUS
          <5>2. PICK new : new = [r EXCEPT !.stray = TRUE]
            OBVIOUS
          <5>3. PICK st, of : /\ st = (IF r.state \in {"cached", "fetching", "sleeping"} THEN "asked"
                                        ELSE r.state)
                              /\ of = IF r.state = "answered" THEN r.of ELSE 0
            OBVIOUS
          <5>4. Seen(r) = [state |-> st, path |-> r.path, height |-> r.height,
                           stray |-> r.stray, of |-> of]
            BY <4>1, <5>1, <5>3 DEF Seen
          <5>5. /\ new.state = r.state /\ new.path = r.path /\ new.height = r.height
                /\ new.stray = TRUE /\ new.of = r.of
            BY <3>3, <5>1, <5>2 DEF Calls
          <5>6. Seen(new) = [state |-> st, path |-> r.path, height |-> r.height,
                             stray |-> TRUE, of |-> of]
            BY <4>1, <5>1, <5>3, <5>5 DEF Seen
          <5> QED BY <5>1, <5>2, <5>4, <5>6, Straying
        <4> QED BY <4>1, <4>2, <4>3 DEF Contract!LeftBehind
      <3> QED BY <3>1, <3>2, <3>3 DEF CallOK
    <2>2. Requests' = [c \in Callers |-> Contract!LeftBehind(Requests[c])]
      BY <2>1 DEF Requests, Seen
    <2>3. block \in Heights /\ abandoned' = abandoned \cup {block}
      BY <1>1 DEF AttemptFails, IInv, Heighted
    <2> QED BY <2>2, <2>3 DEF Contract!Abandon
  <1>2. CASE NextBlock \/ ArchiveAdvances
    BY <1>2 DEF NextBlock, ArchiveAdvances, Requests, Seen
  <1>3. CASE Crash
    <2>1. Requests' = [c \in Callers |-> Contract!Idle]
      BY <1>3 DEF Crash, Requests, Seen, Idle, Contract!Idle
    <2> QED BY <1>3, <2>1 DEF Crash, Contract!Restart
  <1> QED BY <1>1, <1>2, <1>3

\* Each of the ways to ask is a request of the contract.
LEMMA AnyAskSeen == ASSUME IInv, NEW c \in Callers, Ask(c) PROVE Contract!Ask(c)
  <1>1. \E p \in Paths, h \in Heights, stray \in BOOLEAN, bypass \in BOOLEAN :
            Query(c, p, h, stray, bypass)
    <2>1. block \in Heights /\ abandoned \subseteq Heights /\ block..MaxHeight \subseteq Heights
      BY DEF IInv, Heighted, Heights
    <2>2. TRUE \in BOOLEAN /\ FALSE \in BOOLEAN
      OBVIOUS
    <2>3. CASE AskInBlock(c)
      BY <2>1, <2>2, <2>3 DEF AskInBlock, Paths
    <2>4. CASE AskAhead(c)
      BY <2>1, <2>2, <2>4 DEF AskAhead, Paths
    <2>5. CASE AskForSnapshot(c)
      BY <2>2, <2>5 DEF AskForSnapshot, Paths
    <2>6. CASE AskLeftBehind(c)
      BY <2>1, <2>2, <2>6 DEF AskLeftBehind, Paths
    <2> QED BY <2>3, <2>4, <2>5, <2>6 DEF Ask
  <1> QED BY <1>1, AskSeen

\* The archive client implements its contract: every answer to a handler that
\* is still waited for is about the height it asked for, or about one that an
\* earlier attempt was abandoned at.
THEOREM ContractRefined == Spec => ContractKept
  <1>1. Init => Contract!Init
    <2> SUFFICES ASSUME Init PROVE Contract!Init
      OBVIOUS
    <2>1. Requests = [c \in Callers |-> Contract!Idle]
      BY DEF Init, Requests, Seen, Idle, Contract!Idle
    <2> QED BY <2>1 DEF Init, Contract!Init
  <1>2. IInv /\ [Next]_vars => [Contract!Next]_<<Requests, abandoned>>
    <2> SUFFICES ASSUME IInv, [Next]_vars PROVE [Contract!Next]_<<Requests, abandoned>>
      OBVIOUS
    <2>1. CASE Next
      <3>1. ASSUME NEW c \in Callers, Ask(c) \/ CallStep(c) \/ Forget(c)
            PROVE  Contract!Next \/ UNCHANGED <<Requests, abandoned>>
        BY <3>1, AnyAskSeen, CallStepSeen DEF Contract!Next
      <3>2. CASE AttemptFails \/ NextBlock \/ ArchiveAdvances \/ Crash
        BY <3>2, LoopSeen DEF Contract!Next
      <3> QED BY <2>1, <3>1, <3>2 DEF Next
    <2>2. CASE UNCHANGED vars
      BY <2>2 DEF vars, Requests, Seen
    <2> QED BY <2>1, <2>2
  <1> QED BY <1>1, <1>2, Inductive, PTL DEF Spec, ContractKept, Contract!Spec
===============================================================================
