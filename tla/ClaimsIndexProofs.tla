--------------------------- MODULE ClaimsIndexProofs ---------------------------
(***************************************************************************)
(* Theorems of ClaimsIndex: types, the rows that mirror the chain, the     *)
(* evaluations of claims, the transactions of liquid staking and disputes. *)
(*                                                                         *)
(* The rows follow the chain in steps of one event, so the invariant says  *)
(* what the rows hold of a block after its first i events (Follows): all   *)
(* that no later event of the block is about is as on the chain.  A block  *)
(* in the making or due has i = 0, an indexed one i = Len(events), see     *)
(* Seen; as that implies i = 0, a block may be indexed again (Replay).     *)
(* A second invariant says the same of disputes (DisputesFollow): a block  *)
(* that is indexed again may then meet the row of another dispute, so what *)
(* it says of one is weaker where such blocks have opened or resolved any. *)
(***************************************************************************)
EXTENDS ClaimsIndex, SumLemmas

Maps(S, T) == UNION {[D -> T] : D \in SUBSET S}

Keys == Collections \cup Budgets \cup Pools
Versions == [no : 0..MaxMessages, at : 0..MaxHeight]
Mirrors == Maps(Keys, Versions)

Evaluations ==
    [claim : Claims, agent : Agents, date : 1..MaxHeight, status : {"flagged", "final"}]
Currents == {None} \cup {<<e>> : e \in Evaluations}
ClaimStates == [current : Currents, history : Seq(Evaluations)]
DisputeStatus == {"open", "awarded", "dismissed"}
Disputes ==
    [subject : Claims, role : Roles \cup {Legacy}, no : 1..MaxMessages, at : 1..MaxHeight,
     status : DisputeStatus, resolved : Nat]
Txs == [no : 1..MaxMessages, at : 1..MaxHeight, pool : Pools \cup {NoPool}]

ChainStates ==
    [mirror : Mirrors, claim : Maps(Claims, ClaimStates), dispute : SUBSET Disputes,
     tx : SUBSET Txs]

WholeEvents ==
    [type : {"upsert"}, key : Keys, stamp : Versions] \cup [type : {"remove"}, key : Keys]
ClaimEvents ==
    [type : {"submit", "update"}, claim : Claims, current : Currents, history : Seq(Evaluations)]
DisputeEvents == [type : {"dispute", "resolve"}, dispute : Disputes]
StakeEvents == [type : {"stake"}, tx : Txs]
Events == WholeEvents \cup ClaimEvents \cup DisputeEvents \cup StakeEvents

Pointers == {None} \cup {<<k>> : k \in [agent : Agents, date : 1..MaxHeight]}
ClaimRows == [current : Pointers, typed : BOOLEAN]
DisputeRows ==
    [id : Nat, subject : Claims, role : Roles \cup {Legacy}, no : 1..MaxMessages,
     status : DisputeStatus]
TxRows == [id : Nat, no : 1..MaxMessages, at : 1..MaxHeight, pool : Pools \cup {NoPool}]
Tables ==
    [mirror : Mirrors, claim : Maps(Claims, ClaimRows), evaluation : SUBSET Evaluations,
     dispute : SUBSET DisputeRows, resolution : SUBSET Nat, tx : SUBSET TxRows]

\* Every resolution is one of a dispute that has a row.
Resolved(r) == r.resolution \subseteq {d.id : d \in r.dispute}

IsTables(r) ==
    /\ r \in Tables
    /\ IsFiniteSet(r.dispute)
    /\ IsFiniteSet(r.tx)
    /\ Resolved(r)

Types ==
    /\ height \in 1..MaxHeight
    /\ phase \in {"open", "due", "done"}
    /\ messages \in 0..MaxMessages
    /\ events \in Seq(Events)
    /\ chain \in ChainStates
    /\ upgraded \in {<< >>} \cup {<<c>> : c \in ChainStates}
    /\ IsTables(rows)
    /\ migrated \in BOOLEAN
    /\ fetching \in SUBSET DOMAIN rows.claim
    /\ replays \in SUBSET (1..height)
    /\ height \in replays => phase = "done"

\* When the state at the upgrade is known, and for how long it can be needed.
UpgradeSeen ==
    /\ height = UpgradeHeight /\ phase # "open" => upgraded = <<chain>>
    /\ height > UpgradeHeight => upgraded # << >>
    /\ height < UpgradeHeight \/ (height = UpgradeHeight /\ phase = "open") => upgraded = << >>
    /\ Upgraded /\ ~ migrated =>
         /\ height = UpgradeHeight \/ height <= KnownFrom
         /\ phase = "done" => height < KnownFrom
    /\ migrated => Upgraded

----------------------------------------------------------------------------
(* The mirror: what a table m of whole rows holds after i of the events es, *)
(* when the chain has cm; w is whether the snapshot is waited for.          *)

Whole(e, k) == e.type \in {"upsert", "remove"} /\ e.key = k

WholeAfter(es, i, k) == \E j \in 1..Len(es) : j > i /\ Whole(es[j], k)

Agree(m, n, k) ==
    /\ k \in DOMAIN m <=> k \in DOMAIN n
    /\ k \in DOMAIN m => m[k] = n[k]

Says(e, cm) ==
    IF e.type = "upsert" THEN e.key \in DOMAIN cm /\ cm[e.key] = e.stamp
    ELSE e.key \notin DOMAIN cm

\* The last event about a key says what the chain has.
MirrorTold(es, cm) ==
    \A j \in 1..Len(es) : \A k \in Keys :
        Whole(es[j], k) /\ ~ WholeAfter(es, j, k) => Says(es[j], cm)

\* A late snapshot of the state up at the upgrade put back k's row.
PutBack(m, cm, k, up) ==
    /\ k \in Collections \cup Pools
    /\ up # << >>
    /\ k \in DOMAIN up[1].mirror /\ k \in DOMAIN m /\ k \in DOMAIN cm
    /\ m[k] = up[1].mirror[k]
    /\ UpgradeHeight < cm[k].at /\ cm[k].at < KnownFrom

\* The pool that the upgrade made without an event has no row before the snapshot.
MirrorSeen(m, es, cm, i, w, up) ==
    \A k \in Keys : \/ WholeAfter(es, i, k)
                    \/ Agree(m, cm, k)
                    \/ w /\ k = Zero /\ k \in DOMAIN cm
                    \/ PutBack(m, cm, k, up)

\* What the chain wrote in the block h has an event there, and what it has since
\* the upgrade was there at the upgrade or was written later.
MirrorDated(es, cm, h, up) ==
    /\ \A k \in DOMAIN cm : cm[k].at <= h
    /\ h > UpgradeHeight => \A k \in DOMAIN cm : cm[k].at = h => WholeAfter(es, 0, k)
    /\ up # << >> =>
         /\ \A k \in (Collections \cup Pools) \cap DOMAIN up[1].mirror :
              k \in DOMAIN cm /\ (cm[k] = up[1].mirror[k] \/ cm[k].at > UpgradeHeight)
         /\ Zero \in DOMAIN cm => Zero \in DOMAIN up[1].mirror

----------------------------------------------------------------------------
(* Claims: what the rows r hold after i of the events es, when the chain    *)
(* has cc.                                                                  *)

AboutClaim(e, c) == e.type \in {"submit", "update"} /\ e.claim = c

ClaimAfter(es, i, c) == \E j \in 1..Len(es) : j > i /\ AboutClaim(es[j], c)

All(claim) == ToSet(claim.history) \cup ToSet(claim.current)

\* Every event has evaluations the claim has had, the last one all of them.
ClaimsTold(es, cc) ==
    /\ \A c \in DOMAIN cc : \A e \in All(cc[c]) : e.claim = c
    /\ \A j \in 1..Len(es) : \A c \in Claims : AboutClaim(es[j], c) =>
        /\ c \in DOMAIN cc
        /\ All(es[j]) \subseteq All(cc[c])
        /\ es[j].current # None => cc[c].current # None
        /\ es[j].type = "submit" => es[j].current = None /\ es[j].history = << >>
        /\ ~ ClaimAfter(es, j, c) =>
             es[j].current = cc[c].current /\ es[j].history = cc[c].history

Pointer(current) ==
    IF current = None THEN None ELSE <<[agent |-> current[1].agent, date |-> current[1].date]>>

RowMatches(r, c, claim) ==
    /\ c \in DOMAIN r.claim
    /\ r.claim[c].current = Pointer(claim.current)
    /\ \A e \in All(claim) : \E x \in r.evaluation : SameKey(x, e)

\* An update finds the row of its claim.
RowThere(r, es, i, j) ==
    \/ es[j].claim \in DOMAIN r.claim
    \/ \E l \in 1..Len(es) : i < l /\ l < j /\ es[l].type = "submit" /\ es[l].claim = es[j].claim

ClaimsSeen(r, es, cc, i) ==
    /\ \A c \in DOMAIN cc : ClaimAfter(es, i, c) \/ RowMatches(r, c, cc[c])
    /\ \A x \in r.evaluation : x.claim \in DOMAIN cc /\ x \in All(cc[x.claim])
    /\ \A c \in DOMAIN r.claim :
         c \in DOMAIN cc /\ (r.claim[c].current # None => cc[c].current # None)
    /\ \A j \in 1..Len(es) : j > i /\ es[j].type = "update" => RowThere(r, es, i, j)

----------------------------------------------------------------------------
(* Liquid staking: what the table txs holds after i of the events es, when  *)
(* the chain has ct at the height h and the blocks reps were indexed twice. *)

Bare(t) == [no |-> t.no, at |-> t.at, pool |-> t.pool]

\* The table as the snapshot will leave it.
Settled(txs, w) == IF w THEN RelinkLegacyTx(txs) ELSE txs

Staked(es, i) == {es[j].tx : j \in {l \in 1..Len(es) : l > i /\ es[l].type = "stake"}}

StakesTold(es, ct, h, n) ==
    /\ \A t, u \in ct : t.no = u.no => t = u
    /\ \A t \in ct : t.no <= n /\ t.at <= h /\ (h < UpgradeHeight => t.pool = NoPool)
    /\ \A j \in 1..Len(es) : es[j].type = "stake" => es[j].tx \in ct /\ es[j].tx.at = h
    /\ \A j, l \in 1..Len(es) :
         es[j].type = "stake" /\ es[l].type = "stake" /\ es[j].tx.no = es[l].tx.no => j = l

StakesSeen(txs, es, ct, i, w, h, reps) ==
    /\ {Bare(t) : t \in Settled(txs, w)} \cup Staked(es, i) = ct
    /\ \A t, u \in txs : t.no = u.no => t = u \/ t.at \in reps
    /\ h \in reps \/ \A t \in txs : \A e \in Staked(es, i) : t.no # e.no

----------------------------------------------------------------------------

SnapshotWaits == Upgraded /\ ~ migrated

\* What the rows r hold after i of the events es, when the chain has ch at the
\* height h after n messages.
Follows(r, i, es, ch, h, n, w, reps, up) ==
    /\ MirrorTold(es, ch.mirror)
    /\ MirrorSeen(r.mirror, es, ch.mirror, i, w, up)
    /\ MirrorDated(es, ch.mirror, h, up)
    /\ ClaimsTold(es, ch.claim)
    /\ ClaimsSeen(r, es, ch.claim, i)
    /\ StakesTold(es, ch.tx, h, n)
    /\ StakesSeen(r.tx, es, ch.tx, i, w, h, reps)

Seen == IF phase = "done" THEN Len(events) ELSE 0

IInv ==
    /\ Types
    /\ UpgradeSeen
    /\ Follows(rows, Seen, events, chain, height, messages, SnapshotWaits, replays, upgraded)

----------------------------------------------------------------------------
(* Maps and sequences.                                                      *)

\* What a map has of its keys and values, ...
LEMMA MapFacts ==
    ASSUME NEW S, NEW T, NEW f \in Maps(S, T)
    PROVE  /\ DOMAIN f \subseteq S
           /\ f = [x \in DOMAIN f |-> f[x]]
           /\ \A x \in DOMAIN f : f[x] \in T
  BY DEF Maps

\* ... and when something is one.
LEMMA IsMap ==
    ASSUME NEW S, NEW T, NEW f, DOMAIN f \subseteq S, f = [x \in DOMAIN f |-> f[x]],
           \A x \in DOMAIN f : f[x] \in T
    PROVE  f \in Maps(S, T)
  <1>1. f \in [DOMAIN f -> T]
    OBVIOUS
  <1> QED
    BY <1>1 DEF Maps

\* Put and Without keep maps maps.
LEMMA PutType ==
    ASSUME NEW S, NEW T, NEW f \in Maps(S, T), NEW k \in S, NEW v \in T
    PROVE  Put(f, k, v) \in Maps(S, T)
  <1>1. PICK g : g = Put(f, k, v)
    OBVIOUS
  <1>2. g = [x \in DOMAIN g |-> g[x]]
    BY <1>1 DEF Put
  <1>3. DOMAIN f \subseteq S /\ \A x \in DOMAIN f : f[x] \in T
    BY MapFacts
  <1>4. DOMAIN g = DOMAIN f \cup {k} /\ g[k] = v /\ \A x \in DOMAIN f : x # k => g[x] = f[x]
    BY <1>1 DEF Put
  <1>5. DOMAIN g \subseteq S /\ \A x \in DOMAIN g : g[x] \in T
    BY <1>3, <1>4
  <1> QED
    BY <1>1, <1>2, <1>5, IsMap

\* A map without a key is a map.
LEMMA WithoutType ==
    ASSUME NEW S, NEW T, NEW f \in Maps(S, T), NEW k
    PROVE  Without(f, k) \in Maps(S, T)
  <1>1. PICK g : g = Without(f, k)
    OBVIOUS
  <1>2. g = [x \in DOMAIN g |-> g[x]]
    BY <1>1 DEF Without
  <1>3. DOMAIN f \subseteq S /\ \A x \in DOMAIN f : f[x] \in T
    BY MapFacts
  <1>4. DOMAIN g = DOMAIN f \ {k} /\ \A x \in DOMAIN g : g[x] = f[x]
    BY <1>1 DEF Without
  <1>5. DOMAIN g \subseteq S /\ \A x \in DOMAIN g : g[x] \in T
    BY <1>3, <1>4
  <1> QED
    BY <1>1, <1>2, <1>5, IsMap

\* One event more.
LEMMA AppendFacts ==
    ASSUME NEW S, NEW es \in Seq(S), NEW e \in S
    PROVE  /\ Append(es, e) \in Seq(S)
           /\ Len(Append(es, e)) = Len(es) + 1
           /\ \A j \in 1..Len(es) : Append(es, e)[j] = es[j]
           /\ Append(es, e)[Len(es) + 1] = e
           /\ es \o <<e>> = Append(es, e)
  OBVIOUS

\* Two events more.
LEMMA AppendTwo ==
    ASSUME NEW S, NEW es \in Seq(S), NEW e \in S, NEW f \in S
    PROVE  es \o <<e, f>> = Append(Append(es, e), f)
  OBVIOUS

\* The recursive functions of InsertEvaluations and of Handled.
Inserting(f, r, es, m) ==
    f = [i \in 0..m |-> IF i = 0 THEN r ELSE InsertEvaluation(f[i - 1], es[i])]

Handling(f, r, es, m) ==
    f = [i \in 0..m |-> IF i = 0 THEN r ELSE Handle(f[i - 1], es[i])]

\* The recursive functions exist, so that CHOOSE picks them.
LEMMA InsertingExists ==
    ASSUME NEW r, NEW es, NEW m \in Nat
    PROVE  \E f : Inserting(f, r, es, m)
  <1> DEFINE G == {n \in Nat : \E f : Inserting(f, r, es, n)}
  <1>1. 0 \in G
    <2>1. PICK f : f = [i \in 0..0 |-> r]
      OBVIOUS
    <2>2. Inserting(f, r, es, 0)
      BY <2>1 DEF Inserting
    <2> QED
      BY <2>2
  <1>2. ASSUME NEW n \in G PROVE n + 1 \in G
    <2>0. n \in Nat /\ n + 1 \in Nat
      OBVIOUS
    <2>1. PICK f : Inserting(f, r, es, n)
      OBVIOUS
    <2>2. PICK x : x = InsertEvaluation(f[n], es[n + 1])
      OBVIOUS
    <2>3. PICK g : g = [i \in 0..n + 1 |-> IF i <= n THEN f[i] ELSE x]
      OBVIOUS
    <2>4. (\A i \in 0..n : g[i] = f[i]) /\ g[n + 1] = x /\ DOMAIN g = 0..n + 1
      BY <2>0, <2>3
    <2>5. ASSUME NEW i \in 0..n + 1
          PROVE  g[i] = IF i = 0 THEN r ELSE InsertEvaluation(g[i - 1], es[i])
      <3>1. CASE i = n + 1
        <4>1. i # 0 /\ i - 1 = n /\ n \in 0..n
          BY <2>0, <3>1
        <4> QED
          BY <2>2, <2>4, <3>1, <4>1
      <3>2. CASE i # n + 1
        <4>1. i \in 0..n /\ (i # 0 => i - 1 \in 0..n)
          BY <2>0, <3>2
        <4>2. f[i] = IF i = 0 THEN r ELSE InsertEvaluation(f[i - 1], es[i])
          BY <2>1, <4>1 DEF Inserting
        <4> QED
          BY <2>4, <4>1, <4>2
      <3> QED
        BY <3>1, <3>2
    <2>6. Inserting(g, r, es, n + 1)
      <3>1. g = [i \in 0..n + 1 |-> g[i]]
        BY <2>3
      <3> QED
        BY <2>5, <3>1 DEF Inserting
    <2> QED
      BY <2>0, <2>6
  <1>3. G = Nat
    <2> HIDE DEF G
    <2>1. G \in SUBSET Nat
      BY DEF G
    <2> QED
      BY <1>1, <1>2, <2>1, Induction
  <1> QED
    BY <1>3

\* The tables after each of the first m events.
LEMMA HandlingExists ==
    ASSUME NEW r, NEW es, NEW m \in Nat
    PROVE  \E f : Handling(f, r, es, m)
  <1> DEFINE G == {n \in Nat : \E f : Handling(f, r, es, n)}
  <1>1. 0 \in G
    <2>1. PICK f : f = [i \in 0..0 |-> r]
      OBVIOUS
    <2>2. Handling(f, r, es, 0)
      BY <2>1 DEF Handling
    <2> QED
      BY <2>2
  <1>2. ASSUME NEW n \in G PROVE n + 1 \in G
    <2>0. n \in Nat /\ n + 1 \in Nat
      OBVIOUS
    <2>1. PICK f : Handling(f, r, es, n)
      OBVIOUS
    <2>2. PICK x : x = Handle(f[n], es[n + 1])
      OBVIOUS
    <2>3. PICK g : g = [i \in 0..n + 1 |-> IF i <= n THEN f[i] ELSE x]
      OBVIOUS
    <2>4. (\A i \in 0..n : g[i] = f[i]) /\ g[n + 1] = x /\ DOMAIN g = 0..n + 1
      BY <2>0, <2>3
    <2>5. ASSUME NEW i \in 0..n + 1
          PROVE  g[i] = IF i = 0 THEN r ELSE Handle(g[i - 1], es[i])
      <3>1. CASE i = n + 1
        <4>1. i # 0 /\ i - 1 = n /\ n \in 0..n
          BY <2>0, <3>1
        <4> QED
          BY <2>2, <2>4, <3>1, <4>1
      <3>2. CASE i # n + 1
        <4>1. i \in 0..n /\ (i # 0 => i - 1 \in 0..n)
          BY <2>0, <3>2
        <4>2. f[i] = IF i = 0 THEN r ELSE Handle(f[i - 1], es[i])
          BY <2>1, <4>1 DEF Handling
        <4> QED
          BY <2>4, <4>1, <4>2
      <3> QED
        BY <3>1, <3>2
    <2>6. Handling(g, r, es, n + 1)
      <3>1. g = [i \in 0..n + 1 |-> g[i]]
        BY <2>3
      <3> QED
        BY <2>5, <3>1 DEF Handling
    <2> QED
      BY <2>0, <2>6
  <1>3. G = Nat
    <2> HIDE DEF G
    <2>1. G \in SUBSET Nat
      BY DEF G
    <2> QED
      BY <1>1, <1>2, <2>1, Induction
  <1> QED
    BY <1>3

\* Evaluations are inserted one after the other, ...
LEMMA InsertEvaluationsSteps ==
    ASSUME NEW r, NEW es, Len(es) \in Nat
    PROVE  \E f : /\ f[0] = r
                  /\ \A i \in 1..Len(es) : f[i] = InsertEvaluation(f[i - 1], es[i])
                  /\ InsertEvaluations(r, es) = f[Len(es)]
  <1> DEFINE C == CHOOSE f : Inserting(f, r, es, Len(es))
  <1>1. Inserting(C, r, es, Len(es))
    BY InsertingExists
  <1>2. InsertEvaluations(r, es) = C[Len(es)]
    BY DEF InsertEvaluations, Inserting
  <1> HIDE DEF C
  <1>3. \A i \in 0..Len(es) : C[i] = IF i = 0 THEN r ELSE InsertEvaluation(C[i - 1], es[i])
    BY <1>1 DEF Inserting
  <1>4. 0 \in 0..Len(es) /\ \A i \in 1..Len(es) : i \in 0..Len(es) /\ i # 0
    OBVIOUS
  <1> QED
    BY <1>2, <1>3, <1>4

\* ... and so are the events of a block handled.
LEMMA HandledSteps ==
    ASSUME NEW r, Len(events) \in Nat
    PROVE  \E f : /\ f[0] = r
                  /\ \A i \in 1..Len(events) : f[i] = Handle(f[i - 1], events[i])
                  /\ Handled(r) = f[Len(events)]
  <1> DEFINE C == CHOOSE f : Handling(f, r, events, Len(events))
  <1>1. Handling(C, r, events, Len(events))
    BY HandlingExists
  <1>2. Handled(r) = C[Len(events)]
    BY DEF Handled, Handling
  <1> HIDE DEF C
  <1>3. \A i \in 0..Len(events) : C[i] = IF i = 0 THEN r ELSE Handle(C[i - 1], events[i])
    BY <1>1 DEF Handling
  <1>4. 0 \in 0..Len(events) /\ \A i \in 1..Len(events) : i \in 0..Len(events) /\ i # 0
    OBVIOUS
  <1> QED
    BY <1>2, <1>3, <1>4

----------------------------------------------------------------------------
(* What the handlers of claims change.                                      *)

SameBut(q, r, names) ==
    \A n \in {"mirror", "claim", "evaluation", "dispute", "resolution", "tx"} \ names : q[n] = r[n]

\* q is r with the evaluations in es, but for those whose key r has.
Adds(q, r, es) ==
    /\ q \in Tables
    /\ SameBut(q, r, {"evaluation"})
    /\ r.evaluation \subseteq q.evaluation
    /\ q.evaluation \subseteq r.evaluation \cup es
    /\ \A e \in es : \E x \in q.evaluation : SameKey(x, e)

\* One evaluation adds itself, or its key is there.
LEMMA AddsOne ==
    ASSUME NEW r \in Tables, NEW e \in Evaluations
    PROVE  Adds(InsertEvaluation(r, e), r, {e})
  <1>1. PICK q : q = InsertEvaluation(r, e)
    OBVIOUS
  <1>2. CASE \E x \in r.evaluation : SameKey(x, e)
    <2>1. q = r
      BY <1>1, <1>2 DEF InsertEvaluation
    <2> QED
      BY <1>1, <1>2, <2>1 DEF Adds, SameBut
  <1>3. CASE ~ \E x \in r.evaluation : SameKey(x, e)
    <2>1. q = [r EXCEPT !.evaluation = @ \cup {e}]
      BY <1>1, <1>3 DEF InsertEvaluation
    <2>2. q \in Tables /\ SameBut(q, r, {"evaluation"})
      BY <2>1 DEF Tables, SameBut
    <2>3. q.evaluation = r.evaluation \cup {e}
      BY <2>1 DEF Tables
    <2>4. SameKey(e, e)
      BY DEF SameKey
    <2> QED
      BY <1>1, <2>2, <2>3, <2>4 DEF Adds
  <1> QED
    BY <1>2, <1>3

\* No row is added.
LEMMA AddsNone ==
    ASSUME NEW r \in Tables
    PROVE  Adds(r, r, {})
  BY DEF Adds, SameBut

\* Additions add up, ...
LEMMA AddsMore ==
    ASSUME NEW p, NEW q, NEW r, NEW A, NEW B, Adds(q, r, A), Adds(p, q, B)
    PROVE  Adds(p, r, A \cup B)
  BY DEF Adds, SameBut

\* ... those of a whole history too.
LEMMA AddsAll ==
    ASSUME NEW r \in Tables, NEW es \in Seq(Evaluations)
    PROVE  Adds(InsertEvaluations(r, es), r, ToSet(es))
  <1>1. Len(es) \in Nat
    OBVIOUS
  <1>2. PICK f : /\ f[0] = r
                 /\ \A i \in 1..Len(es) : f[i] = InsertEvaluation(f[i - 1], es[i])
                 /\ InsertEvaluations(r, es) = f[Len(es)]
    BY <1>1, InsertEvaluationsSteps
  <1> DEFINE First(n) == {es[i] : i \in 1..n}
             G == {n \in Nat : n <= Len(es) => Adds(f[n], r, First(n))}
  <1>3. 0 \in G
    <2>1. First(0) = {}
      OBVIOUS
    <2> QED
      BY <1>2, <2>1, AddsNone
  <1>4. ASSUME NEW n \in G PROVE n + 1 \in G
    <2>0. n \in Nat /\ n + 1 \in Nat
      OBVIOUS
    <2> SUFFICES ASSUME n + 1 <= Len(es) PROVE Adds(f[n + 1], r, First(n + 1))
      BY <2>0
    <2>1. n <= Len(es) /\ n + 1 \in 1..Len(es) /\ (n + 1) - 1 = n
      BY <1>1, <2>0
    <2>2. Adds(f[n], r, First(n))
      BY <2>1
    <2>3. f[n + 1] = InsertEvaluation(f[n], es[n + 1])
      BY <1>2, <2>1
    <2>4. es[n + 1] \in Evaluations
      BY <2>1
    <2>5. f[n] \in Tables
      BY <2>2 DEF Adds
    <2>6. Adds(f[n + 1], f[n], {es[n + 1]})
      BY <2>3, <2>4, <2>5, AddsOne
    <2>7. First(n + 1) = First(n) \cup {es[n + 1]}
      BY <2>0
    <2> HIDE DEF First
    <2> QED
      BY <2>2, <2>6, <2>7, AddsMore
  <1>5. G = Nat
    <2> HIDE DEF G
    <2>1. G \in SUBSET Nat
      BY DEF G
    <2> QED
      BY <1>3, <1>4, <2>1, Induction
  <1>6. First(Len(es)) = ToSet(es)
    BY DEF ToSet
  <1> HIDE DEF First
  <1>7. Adds(f[Len(es)], r, First(Len(es)))
    <2>1. Len(es) \in G
      BY <1>1, <1>5
    <2> QED
      BY <1>1, <2>1
  <1> QED
    BY <1>2, <1>6, <1>7

\* What a claim's event ev makes of the rows r.
ClaimHandled(q, r, ev) ==
    /\ q \in Tables
    /\ SameBut(q, r, {"claim", "evaluation"})
    /\ DOMAIN q.claim = IF ev.type = "submit" THEN DOMAIN r.claim \cup {ev.claim} ELSE DOMAIN r.claim
    /\ \A c \in DOMAIN r.claim : c # ev.claim => q.claim[c] = r.claim[c]
    /\ ev.claim \in DOMAIN q.claim =>
         q.claim[ev.claim].current = IF ev.current # None THEN Pointer(ev.current)
                                     ELSE IF ev.type = "submit" THEN None
                                     ELSE r.claim[ev.claim].current
    /\ r.evaluation \subseteq q.evaluation
    /\ q.evaluation \subseteq r.evaluation \cup All(ev)
    /\ \A e \in All(ev) : \E x \in q.evaluation : SameKey(x, e)

\* The evaluations of a claim with one and without.
LEMMA AllOne ==
    ASSUME NEW e
    PROVE  ToSet(<<e>>) = {e} /\ ToSet(None) = {}
  BY DEF ToSet, None

\* What handling a claim makes of the tables.
LEMMA CreateClaimFacts ==
    ASSUME NEW r \in Tables, NEW ev \in ClaimEvents, ev.type = "submit", ev.current = None
    PROVE  ClaimHandled(CreateClaim(r, ev), r, ev)
  <1>1. ev.claim \in Claims /\ ev.history \in Seq(Evaluations)
    BY DEF ClaimEvents
  <1>2. PICK row : row = [current |-> None, typed |-> FALSE]
    OBVIOUS
  <1>3. row \in ClaimRows /\ row.current = None
    BY <1>2 DEF ClaimRows, Pointers
  <1>4. r.claim \in Maps(Claims, ClaimRows)
    BY DEF Tables
  <1>5. PICK m : m = Put(r.claim, ev.claim, row)
    OBVIOUS
  <1>6. /\ m \in Maps(Claims, ClaimRows) /\ DOMAIN m = DOMAIN r.claim \cup {ev.claim}
        /\ m[ev.claim] = row /\ \A c \in DOMAIN r.claim : c # ev.claim => m[c] = r.claim[c]
    <2>1. m \in Maps(Claims, ClaimRows)
      BY <1>1, <1>3, <1>4, <1>5, PutType
    <2> QED
      BY <1>5, <2>1 DEF Put
  <1>7. PICK s : s = [r EXCEPT !.claim = m]
    OBVIOUS
  <1>8. s \in Tables /\ SameBut(s, r, {"claim"}) /\ s.claim = m
    BY <1>6, <1>7 DEF Tables, SameBut
  <1>9. Adds(CreateClaim(r, ev), s, ToSet(ev.history))
    <2>1. CreateClaim(r, ev) = InsertEvaluations(s, ev.history)
      BY <1>2, <1>5, <1>7 DEF CreateClaim
    <2> QED
      BY <1>1, <1>8, <2>1, AddsAll
  <1>10. PICK q : q = CreateClaim(r, ev)
    OBVIOUS
  <1>11. /\ q \in Tables /\ SameBut(q, s, {"evaluation"})
         /\ s.evaluation \subseteq q.evaluation
         /\ q.evaluation \subseteq s.evaluation \cup ToSet(ev.history)
         /\ \A e \in ToSet(ev.history) : \E x \in q.evaluation : SameKey(x, e)
    BY <1>9, <1>10 DEF Adds
  <1>12. q.claim = m /\ s.evaluation = r.evaluation /\ SameBut(q, r, {"claim", "evaluation"})
    BY <1>8, <1>11 DEF SameBut
  <1>13. All(ev) = ToSet(ev.history)
    BY AllOne DEF All
  <1> QED
    BY <1>3, <1>6, <1>10, <1>11, <1>12, <1>13 DEF ClaimHandled

\* updateClaim changes the row of the claim, and evaluations of it only.
LEMMA UpdateClaimFacts ==
    ASSUME NEW r \in Tables, NEW ev \in ClaimEvents, ev.type = "update"
    PROVE  ClaimHandled(UpdateClaim(r, ev), r, ev)
  <1>1. ev.claim \in Claims /\ ev.history \in Seq(Evaluations) /\ ev.current \in Currents
    BY DEF ClaimEvents
  <1>4. r.claim \in Maps(Claims, ClaimRows)
    BY DEF Tables
  <1>5. PICK m : m = [r.claim EXCEPT ![ev.claim].typed = FALSE]
    OBVIOUS
  <1>6. /\ m \in Maps(Claims, ClaimRows) /\ DOMAIN m = DOMAIN r.claim
        /\ \A c \in DOMAIN r.claim : m[c].current = r.claim[c].current
        /\ \A c \in DOMAIN r.claim : c # ev.claim => m[c] = r.claim[c]
    <2>1. DOMAIN r.claim \subseteq Claims /\ \A c \in DOMAIN r.claim : r.claim[c] \in ClaimRows
      BY <1>4, MapFacts
    <2>2. DOMAIN m = DOMAIN r.claim /\ m = [c \in DOMAIN m |-> m[c]]
      BY <1>5
    <2>3. ASSUME NEW c \in DOMAIN r.claim
          PROVE  /\ m[c] \in ClaimRows /\ m[c].current = r.claim[c].current
                 /\ c # ev.claim => m[c] = r.claim[c]
      BY <1>5, <2>1 DEF ClaimRows
    <2> QED
      BY <2>1, <2>2, <2>3, IsMap
  <1>7. PICK s : s = [r EXCEPT !.claim[ev.claim].typed = FALSE]
    OBVIOUS
  <1>8. s \in Tables /\ SameBut(s, r, {"claim"}) /\ s.claim = m
    <2>1. s = [r EXCEPT !.claim = m]
      BY <1>5, <1>7 DEF Tables
    <2> QED
      BY <1>6, <2>1 DEF Tables, SameBut
  <1>9. PICK u : u = InsertEvaluations(s, ev.history)
    OBVIOUS
  <1>10. Adds(u, s, ToSet(ev.history))
    BY <1>1, <1>8, <1>9, AddsAll
  <1>11. PICK q : q = UpdateClaim(r, ev)
    OBVIOUS
  <1>12. CASE ev.current = None
    <2>1. q = u
      BY <1>7, <1>9, <1>11, <1>12 DEF UpdateClaim
    <2>2. /\ q \in Tables /\ SameBut(q, s, {"evaluation"})
          /\ s.evaluation \subseteq q.evaluation
          /\ q.evaluation \subseteq s.evaluation \cup ToSet(ev.history)
          /\ \A e \in ToSet(ev.history) : \E x \in q.evaluation : SameKey(x, e)
      BY <1>10, <2>1 DEF Adds
    <2>3. q.claim = m /\ s.evaluation = r.evaluation /\ SameBut(q, r, {"claim", "evaluation"})
      BY <1>8, <2>2 DEF SameBut
    <2>4. All(ev) = ToSet(ev.history)
      BY <1>12, AllOne DEF All
    <2> QED
      BY <1>6, <1>11, <1>12, <2>2, <2>3, <2>4 DEF ClaimHandled
  <1>13. CASE ev.current # None
    <2>1. PICK e \in Evaluations : ev.current = <<e>>
      BY <1>1, <1>13 DEF Currents
    <2>2. ev.current[1] = e /\ ToSet(ev.current) = {e}
      BY <2>1, AllOne
    <2>3. PICK t : t = InsertEvaluation(u, e)
      OBVIOUS
    <2>4. u \in Tables
      BY <1>10 DEF Adds
    <2>5. Adds(t, u, {e})
      BY <2>3, <2>4, AddsOne
    <2>6. Adds(t, s, All(ev))
      BY <1>10, <2>2, <2>5, AddsMore DEF All
    <2>7. PICK p : p = <<[agent |-> e.agent, date |-> e.date]>>
      OBVIOUS
    <2>8. p \in Pointers /\ p = Pointer(ev.current)
      BY <1>13, <2>2, <2>7 DEF Pointer, Pointers, Evaluations
    <2>9. q = SetCurrentEvaluation(t, ev.claim, e)
      BY <1>7, <1>9, <1>11, <1>13, <2>2, <2>3 DEF UpdateClaim
    <2>10. q = [t EXCEPT !.claim[ev.claim].current = p]
      BY <2>9, <2>7 DEF SetCurrentEvaluation
    <2>11. /\ t \in Tables /\ SameBut(t, s, {"evaluation"})
           /\ s.evaluation \subseteq t.evaluation
           /\ t.evaluation \subseteq s.evaluation \cup All(ev)
           /\ \A x \in All(ev) : \E y \in t.evaluation : SameKey(y, x)
      BY <2>6 DEF Adds
    <2>12. t.claim = m
      BY <1>8, <2>11 DEF SameBut
    <2>13. PICK n : n = [m EXCEPT ![ev.claim].current = p]
      OBVIOUS
    <2>14. /\ n \in Maps(Claims, ClaimRows) /\ DOMAIN n = DOMAIN r.claim
           /\ ev.claim \in DOMAIN n => n[ev.claim].current = p
           /\ \A c \in DOMAIN r.claim : c # ev.claim => n[c] = r.claim[c]
      <3>1. DOMAIN m \subseteq Claims /\ \A c \in DOMAIN m : m[c] \in ClaimRows
        BY <1>6, MapFacts
      <3>2. DOMAIN n = DOMAIN r.claim /\ n = [c \in DOMAIN n |-> n[c]]
        BY <1>6, <2>13
      <3>3. ASSUME NEW c \in DOMAIN r.claim
            PROVE  /\ n[c] \in ClaimRows
                   /\ c = ev.claim => n[c].current = p
                   /\ c # ev.claim => n[c] = r.claim[c]
        BY <1>6, <2>8, <2>13, <3>1 DEF ClaimRows
      <3> QED
        BY <1>6, <3>1, <3>2, <3>3, IsMap
    <2>15. q = [t EXCEPT !.claim = n]
      BY <2>10, <2>11, <2>12, <2>13 DEF Tables
    <2>16. q \in Tables /\ SameBut(q, t, {"claim"}) /\ q.claim = n
      BY <2>11, <2>14, <2>15 DEF Tables, SameBut
    <2>17. /\ SameBut(q, r, {"claim", "evaluation"})
           /\ q.evaluation = t.evaluation /\ s.evaluation = r.evaluation
      BY <1>8, <2>11, <2>16 DEF SameBut
    <2> QED
      BY <1>11, <1>13, <2>8, <2>11, <2>14, <2>16, <2>17 DEF ClaimHandled
  <1> QED
    BY <1>12, <1>13

\* What a whole row's event makes of the rows.
WholeHandled(q, r, ev) ==
    /\ q \in Tables
    /\ SameBut(q, r, {"mirror"})
    /\ q.mirror = IF ev.type = "upsert" THEN Put(r.mirror, ev.key, ev.stamp)
                  ELSE Without(r.mirror, ev.key)

\* What handling a whole row makes of them.
LEMMA HandleWholeFacts ==
    ASSUME NEW r \in Tables, NEW ev \in WholeEvents
    PROVE  WholeHandled(HandleWhole(r, ev), r, ev)
  <1>1. PICK q : q = HandleWhole(r, ev)
    OBVIOUS
  <1>2. r.mirror \in Mirrors
    BY DEF Tables
  <1>3. CASE ev.type = "upsert"
    <2>1. ev.key \in Keys /\ ev.stamp \in Versions
      BY <1>3 DEF WholeEvents
    <2>2. PICK m : m = Put(r.mirror, ev.key, ev.stamp)
      OBVIOUS
    <2>3. m \in Mirrors
      BY <1>2, <2>1, <2>2, PutType DEF Mirrors
    <2>4. q = [r EXCEPT !.mirror = m]
      BY <1>1, <1>3, <2>2 DEF HandleWhole
    <2>5. q \in Tables /\ SameBut(q, r, {"mirror"}) /\ q.mirror = m
      BY <2>3, <2>4 DEF Tables, SameBut
    <2> QED
      BY <1>1, <1>3, <2>2, <2>5 DEF WholeHandled
  <1>4. CASE ev.type # "upsert"
    <2>2. PICK m : m = Without(r.mirror, ev.key)
      OBVIOUS
    <2>3. m \in Mirrors
      BY <1>2, <2>2, WithoutType DEF Mirrors
    <2>4. q = [r EXCEPT !.mirror = m]
      BY <1>1, <1>4, <2>2 DEF HandleWhole
    <2>5. q \in Tables /\ SameBut(q, r, {"mirror"}) /\ q.mirror = m
      BY <2>3, <2>4 DEF Tables, SameBut
    <2> QED
      BY <1>1, <1>4, <2>2, <2>5 DEF WholeHandled
  <1> QED
    BY <1>3, <1>4

\* Of any disputes one is the newest.
LEMMA Newest ==
    ASSUME NEW open \in SUBSET DisputeRows, open # {}
    PROVE  \E x \in open : \A y \in open : x.no >= y.no
  <1>0. MaxMessages \in Nat
    BY ClaimsParameters
  <1>1. \A x \in open : x.no \in 1..MaxMessages
    BY DEF DisputeRows
  <1> DEFINE S == {MaxMessages - x.no : x \in open}
  <1>2. S \in SUBSET Nat /\ S # {}
    BY <1>0, <1>1
  <1>3. PICK n \in S : \A m \in S : n <= m
    BY <1>2, LeastNatural
  <1>4. PICK x \in open : n = MaxMessages - x.no
    BY <1>3
  <1>5. ASSUME NEW y \in open PROVE x.no >= y.no
    <2>1. MaxMessages - x.no <= MaxMessages - y.no
      BY <1>3, <1>4
    <2> QED
      BY <1>0, <1>1, <2>1
  <1> QED
    BY <1>5

DisputeHandled(q, r) ==
    /\ IsTables(q)
    /\ SameBut(q, r, {"dispute", "resolution"})

\* What the disputes' events make of them.
LEMMA CreateDisputeFacts ==
    ASSUME NEW r, IsTables(r), NEW d \in Disputes
    PROVE  DisputeHandled(CreateDispute(r, d), r)
  <1>1. PICK q : q = CreateDispute(r, d)
    OBVIOUS
  <1>2. r \in Tables /\ IsFiniteSet(r.dispute) /\ IsFiniteSet(r.tx) /\ Resolved(r)
    BY DEF IsTables
  <1>3. CASE Open(r, d.subject, d.role) # {}
    <2>1. q = r
      BY <1>1, <1>3 DEF CreateDispute
    <2> QED
      BY <1>1, <2>1 DEF DisputeHandled, SameBut
  <1>4. CASE Open(r, d.subject, d.role) = {}
    <2>1. PICK row : row = [id |-> Cardinality(r.dispute) + 1, subject |-> d.subject,
                            role |-> d.role, no |-> d.no, status |-> d.status]
      OBVIOUS
    <2>2. Cardinality(r.dispute) + 1 \in Nat
      BY <1>2, FS_CardinalityType
    <2>3. row \in DisputeRows
      BY <2>1, <2>2 DEF DisputeRows, Disputes
    <2>4. q = [r EXCEPT !.dispute = @ \cup {row}]
      BY <1>1, <1>4, <2>1 DEF CreateDispute
    <2>5. q \in Tables /\ SameBut(q, r, {"dispute", "resolution"}) /\ q.dispute = r.dispute \cup {row}
          /\ q.tx = r.tx /\ q.resolution = r.resolution
      BY <1>2, <2>3, <2>4 DEF Tables, SameBut
    <2>6. IsFiniteSet(q.dispute)
      BY <1>2, <2>5, FS_AddElement
    <2>7. Resolved(q)
      BY <1>2, <2>5 DEF Resolved
    <2> QED
      BY <1>1, <1>2, <2>5, <2>6, <2>7 DEF DisputeHandled, IsTables
  <1> QED
    BY <1>3, <1>4

\* resolveDispute changes disputes and resolutions only, and keeps what IInv says of them.
LEMMA ResolveDisputeFacts ==
    ASSUME NEW r, IsTables(r), NEW d \in Disputes
    PROVE  DisputeHandled(ResolveDispute(r, d), r)
  <1>1. PICK q : q = ResolveDispute(r, d)
    OBVIOUS
  <1>2. r \in Tables /\ IsFiniteSet(r.dispute) /\ IsFiniteSet(r.tx) /\ Resolved(r)
    BY DEF IsTables
  <1>3. PICK open : open = Open(r, d.subject, d.role)
    OBVIOUS
  <1>4. CASE open = {}
    <2>1. q = r
      BY <1>1, <1>3, <1>4 DEF ResolveDispute
    <2> QED
      BY <1>1, <2>1 DEF DisputeHandled, SameBut
  <1>5. CASE open # {}
    <2>1. PICK latest : latest = CHOOSE x \in open : \A y \in open : x.no >= y.no
      OBVIOUS
    <2>2. open \in SUBSET DisputeRows /\ open \in SUBSET r.dispute
      BY <1>2, <1>3 DEF Open, Tables
    <2>3. latest \in open
      BY <1>5, <2>1, <2>2, Newest
    <2>4. PICK flipped : flipped = [latest EXCEPT !.status = d.status]
      OBVIOUS
    <2>5. flipped \in DisputeRows /\ flipped.id = latest.id /\ latest.id \in Nat
          /\ latest \in r.dispute
      BY <2>2, <2>3, <2>4 DEF DisputeRows, Disputes
    <2>6. PICK D, R : /\ D = (r.dispute \ {latest}) \cup {flipped}
                      /\ R = r.resolution \cup {latest.id}
      OBVIOUS
    <2>7. q = [r EXCEPT !.dispute = D, !.resolution = R]
      BY <1>1, <1>3, <1>5, <2>1, <2>4, <2>6 DEF ResolveDispute
    <2>8. D \in SUBSET DisputeRows /\ R \in SUBSET Nat
      BY <1>2, <2>5, <2>6 DEF Tables
    <2>9. q \in Tables /\ SameBut(q, r, {"dispute", "resolution"})
          /\ q.dispute = D /\ q.resolution = R /\ q.tx = r.tx
      BY <1>2, <2>7, <2>8 DEF Tables, SameBut
    <2>10. IsFiniteSet(D)
      BY <1>2, <2>6, FS_AddElement, FS_RemoveElement
    <2>11. Resolved(q)
      <3>1. ASSUME NEW n \in R PROVE \E x \in D : n = x.id
        <4>1. CASE n = latest.id
          BY <2>5, <2>6, <4>1
        <4>2. CASE n # latest.id
          <5>1. PICK x \in r.dispute : n = x.id
            BY <1>2, <2>6, <3>1, <4>2 DEF Resolved
          <5> QED
            BY <2>6, <4>2, <5>1
        <4> QED
          BY <4>1, <4>2
      <3> QED
        BY <2>9, <3>1 DEF Resolved
    <2> QED
      BY <1>1, <1>2, <2>9, <2>10, <2>11 DEF DisputeHandled, IsTables
  <1> QED
    BY <1>4, <1>5

StakeHandled(q, r, tx) ==
    /\ q \in Tables
    /\ SameBut(q, r, {"tx"})
    /\ \E n \in Nat : q.tx = r.tx \cup {[id |-> n, no |-> tx.no, at |-> tx.at, pool |-> tx.pool]}

\* What a transaction of liquid staking makes of them.
LEMMA InsertLiquidStakeTxFacts ==
    ASSUME NEW r, IsTables(r), NEW tx \in Txs
    PROVE  StakeHandled(InsertLiquidStakeTx(r, tx), r, tx)
  <1>1. PICK q : q = InsertLiquidStakeTx(r, tx)
    OBVIOUS
  <1>2. r \in Tables /\ IsFiniteSet(r.tx)
    BY DEF IsTables
  <1>3. PICK n : n = Cardinality(r.tx) + 1
    OBVIOUS
  <1>4. n \in Nat
    BY <1>2, <1>3, FS_CardinalityType
  <1>5. PICK row : row = [id |-> n, no |-> tx.no, at |-> tx.at, pool |-> tx.pool]
    OBVIOUS
  <1>6. row \in TxRows
    BY <1>4, <1>5 DEF TxRows, Txs
  <1>7. q = [r EXCEPT !.tx = @ \cup {row}]
    BY <1>1, <1>3, <1>5 DEF InsertLiquidStakeTx
  <1>8. q \in Tables /\ SameBut(q, r, {"tx"}) /\ q.tx = r.tx \cup {row}
    BY <1>2, <1>6, <1>7 DEF Tables, SameBut
  <1> QED
    BY <1>1, <1>4, <1>5, <1>8 DEF StakeHandled

----------------------------------------------------------------------------
(* Handle. *)

\* A submitted claim has not been evaluated.
Sound(ev) == ev.type = "submit" => ev.current = None /\ ev.history = << >>

\* Which handler an event goes to, ...
LEMMA HandleIs ==
    ASSUME NEW r, NEW ev \in Events
    PROVE  /\ ev \in WholeEvents => Handle(r, ev) = HandleWhole(r, ev)
           /\ ev \in ClaimEvents => Handle(r, ev) = HandleClaim(r, ev)
           /\ ev \in DisputeEvents => Handle(r, ev) = HandleDispute(r, ev)
           /\ ev \in StakeEvents => Handle(r, ev) = InsertLiquidStakeTx(r, ev.tx)
  BY DEF Handle, WholeEvents, ClaimEvents, DisputeEvents, StakeEvents

\* ... and that the tables keep their types.
LEMMA HandleFacts ==
    ASSUME NEW r, IsTables(r), NEW ev \in Events, Sound(ev)
    PROVE  /\ IsTables(Handle(r, ev))
           /\ ev \in WholeEvents => WholeHandled(Handle(r, ev), r, ev)
           /\ ev \in ClaimEvents => ClaimHandled(Handle(r, ev), r, ev)
           /\ ev \in DisputeEvents => DisputeHandled(Handle(r, ev), r)
           /\ ev \in StakeEvents => StakeHandled(Handle(r, ev), r, ev.tx)
  <1>1. PICK q : q = Handle(r, ev)
    OBVIOUS
  <1>2. r \in Tables /\ IsFiniteSet(r.dispute) /\ IsFiniteSet(r.tx) /\ Resolved(r)
    BY DEF IsTables
  <1>3. ev \in WholeEvents => WholeHandled(q, r, ev)
    BY <1>1, <1>2, HandleIs, HandleWholeFacts
  <1>4. ev \in ClaimEvents => ClaimHandled(q, r, ev)
    <2> SUFFICES ASSUME ev \in ClaimEvents PROVE ClaimHandled(q, r, ev)
      OBVIOUS
    <2>1. q = HandleClaim(r, ev) /\ ev.type \in {"submit", "update"}
      BY <1>1, HandleIs DEF ClaimEvents
    <2>2. CASE ev.type = "submit"
      <3>1. q = CreateClaim(r, ev) /\ ev.current = None
        BY <2>1, <2>2 DEF HandleClaim, Sound
      <3> QED
        BY <1>2, <2>2, <3>1, CreateClaimFacts
    <2>3. CASE ev.type = "update"
      <3>1. q = UpdateClaim(r, ev)
        BY <2>1, <2>3 DEF HandleClaim
      <3> QED
        BY <1>2, <2>3, <3>1, UpdateClaimFacts
    <2> QED
      BY <2>1, <2>2, <2>3
  <1>5. ev \in DisputeEvents => DisputeHandled(q, r)
    <2> SUFFICES ASSUME ev \in DisputeEvents PROVE DisputeHandled(q, r)
      OBVIOUS
    <2>1. q = HandleDispute(r, ev) /\ ev.dispute \in Disputes
      BY <1>1, HandleIs DEF DisputeEvents
    <2> QED
      BY <2>1, CreateDisputeFacts, ResolveDisputeFacts DEF HandleDispute
  <1>6. ev \in StakeEvents => StakeHandled(q, r, ev.tx)
    <2> SUFFICES ASSUME ev \in StakeEvents PROVE StakeHandled(q, r, ev.tx)
      OBVIOUS
    <2>1. q = InsertLiquidStakeTx(r, ev.tx) /\ ev.tx \in Txs
      BY <1>1, HandleIs DEF StakeEvents
    <2> QED
      BY <2>1, InsertLiquidStakeTxFacts
  <1>7. IsTables(q)
    <2>1. CASE ev \in WholeEvents
      <3>1. q \in Tables /\ q.dispute = r.dispute /\ q.tx = r.tx /\ q.resolution = r.resolution
        BY <1>3, <2>1 DEF WholeHandled, SameBut
      <3> QED
        BY <1>2, <3>1 DEF IsTables, Resolved
    <2>2. CASE ev \in ClaimEvents
      <3>1. q \in Tables /\ q.dispute = r.dispute /\ q.tx = r.tx /\ q.resolution = r.resolution
        BY <1>4, <2>2 DEF ClaimHandled, SameBut
      <3> QED
        BY <1>2, <3>1 DEF IsTables, Resolved
    <2>3. CASE ev \in DisputeEvents
      BY <1>5, <2>3 DEF DisputeHandled
    <2>4. CASE ev \in StakeEvents
      <3>1. q \in Tables /\ q.dispute = r.dispute /\ q.resolution = r.resolution
        BY <1>6, <2>4 DEF StakeHandled, SameBut
      <3>2. \E row : q.tx = r.tx \cup {row}
        BY <1>6, <2>4 DEF StakeHandled
      <3>3. IsFiniteSet(q.tx)
        BY <1>2, <3>2, FS_AddElement
      <3> QED
        BY <1>2, <3>1, <3>3 DEF IsTables, Resolved
    <2> QED
      BY <2>1, <2>2, <2>3, <2>4 DEF Events
  <1> QED
    BY <1>1, <1>3, <1>4, <1>5, <1>6, <1>7

----------------------------------------------------------------------------
(* The mirror.                                                              *)

\* An event is handled, one more of the block.
LEMMA MirrorStep ==
    ASSUME NEW es \in Seq(Events), NEW cm, NEW m, NEW n, NEW i \in Nat, i < Len(es),
           NEW w \in BOOLEAN, NEW up, MirrorTold(es, cm), MirrorSeen(m, es, cm, i, w, up),
           es[i + 1] \in WholeEvents =>
               n = IF es[i + 1].type = "upsert" THEN Put(m, es[i + 1].key, es[i + 1].stamp)
                   ELSE Without(m, es[i + 1].key),
           es[i + 1] \notin WholeEvents => n = m
    PROVE  MirrorSeen(n, es, cm, i + 1, w, up)
  <1>0. Len(es) \in Nat /\ i + 1 \in 1..Len(es) /\ es[i + 1] \in Events
    OBVIOUS
  <1>1. PICK ev : ev = es[i + 1]
    OBVIOUS
  <1> SUFFICES ASSUME NEW k \in Keys, ~ WholeAfter(es, i + 1, k),
                      ~ (w /\ k = Zero /\ k \in DOMAIN cm)
               PROVE  Agree(n, cm, k) \/ PutBack(n, cm, k, up)
    BY DEF MirrorSeen
  <1>2. CASE Whole(ev, k)
    <2>1. Says(ev, cm)
      BY <1>0, <1>1, <1>2 DEF MirrorTold
    <2>2. ev \in WholeEvents /\ ev.key = k
      BY <1>0, <1>1, <1>2 DEF Whole, Events, WholeEvents, ClaimEvents, DisputeEvents, StakeEvents
    <2>3. CASE ev.type = "upsert"
      <3>1. n = Put(m, k, ev.stamp)
        BY <1>1, <2>2, <2>3
      <3>2. k \in DOMAIN n /\ n[k] = ev.stamp
        BY <3>1 DEF Put
      <3> QED
        BY <2>1, <2>2, <2>3, <3>2 DEF Says, Agree
    <2>4. CASE ev.type # "upsert"
      <3>1. n = Without(m, k)
        BY <1>1, <2>2, <2>4
      <3>2. k \notin DOMAIN n
        BY <3>1 DEF Without
      <3> QED
        BY <2>1, <2>2, <2>4, <3>2 DEF Says, Agree
    <2> QED
      BY <2>3, <2>4
  <1>3. CASE ~ Whole(ev, k)
    <2>1. ~ WholeAfter(es, i, k)
      <3> SUFFICES ASSUME NEW j \in 1..Len(es), j > i, Whole(es[j], k) PROVE FALSE
        BY DEF WholeAfter
      <3>1. j = i + 1 \/ j > i + 1
        OBVIOUS
      <3> QED
        BY <1>1, <1>3, <3>1 DEF WholeAfter
    <2>2. Agree(m, cm, k) \/ PutBack(m, cm, k, up)
      BY <2>1 DEF MirrorSeen
    <2>3. (k \in DOMAIN n <=> k \in DOMAIN m) /\ (k \in DOMAIN m => n[k] = m[k])
      <3>1. CASE ev \in WholeEvents
        <4>1. ev.key # k
          BY <1>3, <3>1 DEF Whole, WholeEvents
        <4>2. CASE ev.type = "upsert"
          <5>1. n = Put(m, ev.key, ev.stamp)
            BY <1>1, <3>1, <4>2
          <5> QED
            BY <4>1, <5>1 DEF Put
        <4>3. CASE ev.type # "upsert"
          <5>1. n = Without(m, ev.key)
            BY <1>1, <3>1, <4>3
          <5> QED
            BY <4>1, <5>1 DEF Without
        <4> QED
          BY <4>2, <4>3
      <3>2. CASE ev \notin WholeEvents
        BY <1>1, <3>2
      <3> QED
        BY <3>1, <3>2
    <2> QED
      BY <2>2, <2>3 DEF Agree, PutBack
  <1> QED
    BY <1>2, <1>3

\* The chain emits an event e, and what it writes is under e's key.
LEMMA MirrorTells ==
    ASSUME NEW es \in Seq(Events), NEW e \in Events, NEW cm, NEW dm,
           MirrorTold(es, cm),
           \A k \in Keys : Agree(dm, cm, k) \/ Whole(e, k),
           \A k \in Keys : Whole(e, k) => Says(e, dm)
    PROVE  MirrorTold(Append(es, e), dm)
  <1>1. PICK fs : fs = Append(es, e)
    OBVIOUS
  <1>2. /\ Len(es) \in Nat /\ Len(fs) = Len(es) + 1 /\ fs[Len(es) + 1] = e
        /\ \A j \in 1..Len(es) : fs[j] = es[j]
    BY <1>1
  <1> SUFFICES ASSUME NEW j \in 1..Len(fs), NEW k \in Keys, Whole(fs[j], k), ~ WholeAfter(fs, j, k)
               PROVE  Says(fs[j], dm)
    BY <1>1 DEF MirrorTold
  <1>3. CASE j = Len(es) + 1
    BY <1>2, <1>3
  <1>4. CASE j # Len(es) + 1
    <2>1. j \in 1..Len(es) /\ fs[j] = es[j]
      BY <1>2, <1>4
    <2>2. ~ Whole(e, k)
      <3>1. Len(es) + 1 \in 1..Len(fs) /\ Len(es) + 1 > j
        BY <1>2, <2>1
      <3> QED
        BY <1>2, <3>1 DEF WholeAfter
    <2>3. ~ WholeAfter(es, j, k)
      <3> SUFFICES ASSUME NEW l \in 1..Len(es), l > j, Whole(es[l], k) PROVE FALSE
        BY DEF WholeAfter
      <3>1. l \in 1..Len(fs) /\ fs[l] = es[l]
        BY <1>2
      <3> QED
        BY <3>1 DEF WholeAfter
    <2>4. Says(es[j], cm) /\ es[j].key = k
      BY <2>1, <2>3 DEF MirrorTold, Whole
    <2>5. Agree(dm, cm, k)
      BY <2>2
    <2> QED
      BY <2>1, <2>4, <2>5 DEF Says, Agree
  <1> QED
    BY <1>3, <1>4

\* Once an event about the key comes, the row need not be as on the chain.
LEMMA MirrorWaits ==
    ASSUME NEW es \in Seq(Events), NEW e \in Events, NEW cm, NEW dm, NEW m, NEW w \in BOOLEAN,
           NEW up, MirrorSeen(m, es, cm, 0, w, up),
           \A k \in Keys : Agree(dm, cm, k) \/ Whole(e, k)
    PROVE  MirrorSeen(m, Append(es, e), dm, 0, w, up)
  <1>1. PICK fs : fs = Append(es, e)
    OBVIOUS
  <1>2. /\ Len(es) \in Nat /\ Len(fs) = Len(es) + 1 /\ fs[Len(es) + 1] = e
        /\ \A j \in 1..Len(es) : fs[j] = es[j]
    BY <1>1
  <1> SUFFICES ASSUME NEW k \in Keys, ~ WholeAfter(fs, 0, k)
               PROVE  \/ Agree(m, dm, k)
                      \/ w /\ k = Zero /\ k \in DOMAIN dm
                      \/ PutBack(m, dm, k, up)
    BY <1>1 DEF MirrorSeen
  <1>3. ~ Whole(e, k)
    <2>1. Len(es) + 1 \in 1..Len(fs) /\ Len(es) + 1 > 0
      BY <1>2
    <2> QED
      BY <1>2, <2>1 DEF WholeAfter
  <1>4. ~ WholeAfter(es, 0, k)
    <2> SUFFICES ASSUME NEW l \in 1..Len(es), l > 0, Whole(es[l], k) PROVE FALSE
      BY DEF WholeAfter
    <2>1. l \in 1..Len(fs) /\ fs[l] = es[l]
      BY <1>2
    <2> QED
      BY <2>1 DEF WholeAfter
  <1>5. Agree(dm, cm, k)
    BY <1>3
  <1>6. Agree(m, cm, k) \/ (w /\ k = Zero /\ k \in DOMAIN cm) \/ PutBack(m, cm, k, up)
    BY <1>4 DEF MirrorSeen
  <1> QED
    BY <1>5, <1>6 DEF Agree, PutBack

\* What was seen of all events holds for a block to be indexed again.
LEMMA MirrorAgain ==
    ASSUME NEW es \in Seq(Events), NEW cm, NEW m, NEW w \in BOOLEAN, NEW up,
           MirrorSeen(m, es, cm, Len(es), w, up)
    PROVE  MirrorSeen(m, es, cm, 0, w, up)
  <1>1. \A k \in Keys : ~ WholeAfter(es, Len(es), k)
    BY DEF WholeAfter
  <1> QED
    BY <1>1 DEF MirrorSeen

\* An event of a whole row carries the block h, and no collection or pool ends.
Dated(e, cm, h) ==
    IF e.type = "upsert" THEN e.stamp.at = h /\ (e.key = Zero => Zero \in DOMAIN cm)
    ELSE e.key \in Budgets

\* The chain emits an event; after the upgrade's block has ended, it is of a later one.
LEMMA DatedWrites ==
    ASSUME NEW es \in Seq(Events), NEW e \in Events, NEW cm, NEW dm, NEW h \in Nat, NEW up,
           MirrorDated(es, cm, h, up), up # << >> => h > UpgradeHeight,
           DOMAIN cm \subseteq Keys, DOMAIN dm \subseteq Keys,
           \A k \in Keys : Agree(dm, cm, k) \/ Whole(e, k),
           \A k \in Keys : Whole(e, k) => Says(e, dm) /\ Dated(e, cm, h)
    PROVE  MirrorDated(Append(es, e), dm, h, up)
  <1>1. PICK fs : fs = Append(es, e)
    OBVIOUS
  <1>2. /\ Len(es) \in Nat /\ Len(fs) = Len(es) + 1 /\ fs[Len(es) + 1] = e
        /\ \A j \in 1..Len(es) : fs[j] = es[j]
    BY <1>1
  <1>3. \A k : WholeAfter(es, 0, k) => WholeAfter(fs, 0, k)
    <2>1. ASSUME NEW k, NEW l \in 1..Len(es), l > 0, Whole(es[l], k) PROVE WholeAfter(fs, 0, k)
      <3>1. l \in 1..Len(fs) /\ fs[l] = es[l]
        BY <1>2
      <3> QED
        BY <2>1, <3>1 DEF WholeAfter
    <2> QED
      BY <2>1 DEF WholeAfter
  <1>4. \A k : Whole(e, k) => WholeAfter(fs, 0, k)
    <2>1. Len(es) + 1 \in 1..Len(fs) /\ Len(es) + 1 > 0
      BY <1>2
    <2> QED
      BY <1>2, <2>1 DEF WholeAfter
  <1>5. ASSUME NEW k \in Keys, Whole(e, k)
        PROVE  /\ k \in DOMAIN dm => dm[k].at = h /\ (k = Zero => Zero \in DOMAIN cm)
               /\ k \notin DOMAIN dm => k \in Budgets
    BY <1>5 DEF Says, Dated, Whole
  <1>6. \A k \in DOMAIN dm : dm[k].at <= h
    BY <1>5 DEF MirrorDated, Agree
  <1>7. ASSUME h > UpgradeHeight, NEW k \in DOMAIN dm, dm[k].at = h PROVE WholeAfter(fs, 0, k)
    BY <1>3, <1>4, <1>7 DEF MirrorDated, Agree
  <1>8. ASSUME up # << >>, NEW k \in (Collections \cup Pools) \cap DOMAIN up[1].mirror
        PROVE  k \in DOMAIN dm /\ (dm[k] = up[1].mirror[k] \/ dm[k].at > UpgradeHeight)
    <2>1. k \in Keys /\ k \notin Budgets
      BY ClaimsParameters DEF Keys
    <2>2. k \in DOMAIN cm /\ (cm[k] = up[1].mirror[k] \/ cm[k].at > UpgradeHeight)
      BY <1>8 DEF MirrorDated
    <2> QED
      BY <1>5, <1>8, <2>1, <2>2 DEF Agree
  <1>9. up # << >> /\ Zero \in DOMAIN dm => Zero \in DOMAIN up[1].mirror
    BY <1>5 DEF MirrorDated, Agree
  <1> QED
    BY <1>1, <1>6, <1>7, <1>8, <1>9 DEF MirrorDated

----------------------------------------------------------------------------
(* Liquid staking.                                                          *)

Relinked(t) == IF t.pool = NoPool /\ t.at < UpgradeHeight THEN [t EXCEPT !.pool = Zero] ELSE t

\* Relinking a row changes its pool only.
LEMMA RelinkedFacts ==
    ASSUME NEW t \in TxRows
    PROVE  /\ Relinked(t) \in TxRows
           /\ Relinked(t).no = t.no /\ Relinked(t).at = t.at /\ Relinked(t).id = t.id
           /\ Bare(t) \in Txs /\ Bare(t).no = t.no /\ Bare(t).at = t.at /\ Bare(t).pool = t.pool
  <1>1. Zero \in Pools
    BY ClaimsParameters
  <1> QED
    BY <1>1 DEF Relinked, TxRows, Txs, Bare

\* RelinkLegacyTx is Relinked of each row.
LEMMA RelinkIs ==
    ASSUME NEW txs
    PROVE  RelinkLegacyTx(txs) = {Relinked(t) : t \in txs}
  BY DEF RelinkLegacyTx, Relinked

\* Each row of txs is on the chain, under one pool or the other.
LEMMA RowOnChain ==
    ASSUME NEW txs \in SUBSET TxRows, NEW w \in BOOLEAN, NEW t \in txs
    PROVE  \E s \in Settled(txs, w) :
             /\ Bare(s).no = t.no /\ Bare(s).at = t.at
             /\ s.no = t.no /\ s.at = t.at
  <1>1. t \in TxRows
    OBVIOUS
  <1>2. CASE w
    <2>1. Relinked(t) \in Settled(txs, w)
      BY <1>2, RelinkIs DEF Settled
    <2> QED
      BY <1>1, <2>1, RelinkedFacts
  <1>3. CASE ~ w
    <2>1. t \in Settled(txs, w)
      BY <1>3 DEF Settled
    <2> QED
      BY <1>1, <2>1, RelinkedFacts
  <1> QED
    BY <1>2, <1>3

\* A row more, before or after the snapshot.
LEMMA SettledMore ==
    ASSUME NEW txs \in SUBSET TxRows, NEW w \in BOOLEAN, NEW row \in TxRows, NEW h \in Nat,
           w => h >= UpgradeHeight, row.at = h
    PROVE  Settled(txs \cup {row}, w) = Settled(txs, w) \cup {row}
  <1>0. UpgradeHeight \in Nat
    BY ClaimsParameters
  <1>1. CASE w
    <2>1. Relinked(row) = row
      BY <1>0, <1>1 DEF Relinked
    <2> QED
      BY <1>1, <2>1, RelinkIs DEF Settled
  <1>2. CASE ~ w
    BY <1>2 DEF Settled
  <1> QED
    BY <1>1, <1>2

\* The transactions after the first i events, with and without the next.
LEMMA StakedStep ==
    ASSUME NEW es \in Seq(Events), NEW i \in Nat, i < Len(es)
    PROVE  /\ es[i + 1].type = "stake" => Staked(es, i) = Staked(es, i + 1) \cup {es[i + 1].tx}
           /\ es[i + 1].type # "stake" => Staked(es, i) = Staked(es, i + 1)
  <1>1. i + 1 \in 1..Len(es) /\ i + 1 > i
    OBVIOUS
  <1>2. \A j \in 1..Len(es) : j > i <=> j = i + 1 \/ j > i + 1
    OBVIOUS
  <1> QED
    BY <1>1, <1>2 DEF Staked

\* An event is handled, one more of the block.
LEMMA StakesStep ==
    ASSUME NEW es \in Seq(Events), NEW ct, NEW txs \in SUBSET TxRows, NEW us, NEW i \in Nat,
           i < Len(es), NEW w \in BOOLEAN, NEW h \in Nat, w => h >= UpgradeHeight, NEW reps, NEW n,
           StakesTold(es, ct, h, n), StakesSeen(txs, es, ct, i, w, h, reps),
           es[i + 1] \in StakeEvents =>
             \E d \in Nat : us = txs \cup {[id |-> d, no |-> es[i + 1].tx.no,
                                            at |-> es[i + 1].tx.at, pool |-> es[i + 1].tx.pool]},
           es[i + 1] \notin StakeEvents => us = txs
    PROVE  StakesSeen(us, es, ct, i + 1, w, h, reps)
  <1>1. PICK ev : ev = es[i + 1]
    OBVIOUS
  <1>2. ev \in Events /\ i + 1 \in 1..Len(es)
    BY <1>1
  <1>3. /\ {Bare(t) : t \in Settled(txs, w)} \cup Staked(es, i) = ct
        /\ \A t, u \in txs : t.no = u.no => t = u \/ t.at \in reps
        /\ h \in reps \/ \A t \in txs : \A e \in Staked(es, i) : t.no # e.no
    BY DEF StakesSeen
  <1>4. CASE ev \in StakeEvents
    <2>1. PICK d \in Nat : us = txs \cup {[id |-> d, no |-> ev.tx.no, at |-> ev.tx.at,
                                           pool |-> ev.tx.pool]}
      BY <1>1, <1>4
    <2>2. PICK row : row = [id |-> d, no |-> ev.tx.no, at |-> ev.tx.at, pool |-> ev.tx.pool]
      OBVIOUS
    <2>3. ev.type = "stake" /\ ev.tx \in Txs
      BY <1>4 DEF StakeEvents
    <2>4. ev.tx \in ct /\ ev.tx.at = h
      BY <1>1, <1>2, <2>3 DEF StakesTold
    <2>5. /\ row \in TxRows /\ row.at = h /\ row.no = ev.tx.no /\ Bare(row) = ev.tx
          /\ us = txs \cup {row}
      BY <2>1, <2>2, <2>3, <2>4 DEF TxRows, Txs, Bare
    <2>6. Settled(us, w) = Settled(txs, w) \cup {row}
      BY <2>5, SettledMore
    <2>7. Staked(es, i) = Staked(es, i + 1) \cup {ev.tx}
      BY <1>1, <2>3, StakedStep
    <2>8. {Bare(t) : t \in Settled(us, w)} \cup Staked(es, i + 1) = ct
      <3>1. PICK S : S = Settled(txs, w)
        OBVIOUS
      <3>2. {Bare(t) : t \in S \cup {row}} = {Bare(t) : t \in S} \cup {Bare(row)}
        OBVIOUS
      <3> QED
        BY <1>3, <2>5, <2>6, <2>7, <3>1, <3>2
    <2>9. ASSUME NEW t \in txs, t.no = row.no
          PROVE  h \in reps /\ t.at = h
      <3>1. h \in reps
        BY <1>3, <2>5, <2>7, <2>9
      <3>2. PICK s \in Settled(txs, w) : Bare(s).no = t.no /\ Bare(s).at = t.at
        BY RowOnChain
      <3>3. Bare(s) \in ct
        BY <1>3, <3>2
      <3>4. Bare(s) = ev.tx
        BY <2>4, <2>5, <2>9, <3>2, <3>3 DEF StakesTold
      <3> QED
        BY <2>4, <3>1, <3>2, <3>4
    <2>10. \A t, u \in us : t.no = u.no => t = u \/ t.at \in reps
      <3> SUFFICES ASSUME NEW t \in us, NEW u \in us, t.no = u.no, t # u PROVE t.at \in reps
        OBVIOUS
      <3>1. CASE t \in txs /\ u \in txs
        BY <1>3, <3>1
      <3>2. CASE t = row /\ u \in txs
        BY <2>5, <2>9, <3>2
      <3>3. CASE u = row /\ t \in txs
        BY <2>9, <3>3
      <3> QED
        BY <2>5, <3>1, <3>2, <3>3
    <2>11. h \in reps \/ \A t \in us : \A e \in Staked(es, i + 1) : t.no # e.no
      <3> SUFFICES ASSUME h \notin reps, NEW e \in Staked(es, i + 1) PROVE \A t \in us : t.no # e.no
        OBVIOUS
      <3>1. \A t \in txs : t.no # e.no
        BY <1>3, <2>7
      <3>2. PICK j \in 1..Len(es) : j > i + 1 /\ es[j].type = "stake" /\ e = es[j].tx
        BY DEF Staked
      <3>3. row.no # e.no
        BY <1>1, <1>2, <2>3, <2>5, <3>2 DEF StakesTold
      <3> QED
        BY <2>5, <3>1, <3>3
    <2> QED
      BY <2>8, <2>10, <2>11 DEF StakesSeen
  <1>5. CASE ev \notin StakeEvents
    <2>1. ev.type # "stake"
      BY <1>2, <1>5 DEF Events, WholeEvents, ClaimEvents, DisputeEvents
    <2>2. us = txs /\ Staked(es, i + 1) = Staked(es, i)
      BY <1>1, <1>5, <2>1, StakedStep
    <2> QED
      BY <1>3, <2>2 DEF StakesSeen
  <1> QED
    BY <1>4, <1>5

\* The chain emits an event e.
LEMMA StakedAppend ==
    ASSUME NEW es \in Seq(Events), NEW e \in Events
    PROVE  /\ e.type = "stake" => Staked(Append(es, e), 0) = Staked(es, 0) \cup {e.tx}
           /\ e.type # "stake" => Staked(Append(es, e), 0) = Staked(es, 0)
  <1>1. PICK fs : fs = Append(es, e)
    OBVIOUS
  <1>2. /\ Len(es) \in Nat /\ Len(fs) = Len(es) + 1 /\ fs[Len(es) + 1] = e
        /\ \A j \in 1..Len(es) : fs[j] = es[j]
    BY <1>1
  <1>3. \A j \in 1..Len(fs) : j > 0 /\ (j = Len(es) + 1 \/ j \in 1..Len(es))
    BY <1>2
  <1>4. \A j \in 1..Len(es) : j > 0 /\ j \in 1..Len(fs)
    BY <1>2
  <1>5. Len(es) + 1 \in 1..Len(fs) /\ Len(es) + 1 > 0
    BY <1>2
  <1>6. /\ e.type = "stake" => Staked(fs, 0) = Staked(es, 0) \cup {e.tx}
        /\ e.type # "stake" => Staked(fs, 0) = Staked(es, 0)
    <2>1. ASSUME NEW x \in Staked(fs, 0)
          PROVE  x \in Staked(es, 0) \/ (e.type = "stake" /\ x = e.tx)
      <3>1. PICK j \in 1..Len(fs) : fs[j].type = "stake" /\ x = fs[j].tx
        BY DEF Staked
      <3> QED
        BY <1>2, <1>3, <3>1 DEF Staked
    <2>2. ASSUME NEW x \in Staked(es, 0) PROVE x \in Staked(fs, 0)
      <3>1. PICK j \in 1..Len(es) : es[j].type = "stake" /\ x = es[j].tx
        BY DEF Staked
      <3> QED
        BY <1>2, <1>4, <3>1 DEF Staked
    <2>3. e.type = "stake" => e.tx \in Staked(fs, 0)
      BY <1>2, <1>5 DEF Staked
    <2> QED
      BY <2>1, <2>2, <2>3
  <1> QED
    BY <1>1, <1>6

\* Other events leave the transactions alone.
LEMMA StakesQuiet ==
    ASSUME NEW es \in Seq(Events), NEW e \in Events, e.type # "stake", NEW ct \in SUBSET Txs,
           NEW txs, NEW w, NEW h, NEW reps, NEW n \in Nat,
           StakesTold(es, ct, h, n), StakesSeen(txs, es, ct, 0, w, h, reps)
    PROVE  /\ StakesTold(Append(es, e), ct, h, n)
           /\ StakesSeen(txs, Append(es, e), ct, 0, w, h, reps)
  <1>1. PICK fs : fs = Append(es, e)
    OBVIOUS
  <1>2. /\ Len(es) \in Nat /\ Len(fs) = Len(es) + 1 /\ fs[Len(es) + 1] = e
        /\ \A j \in 1..Len(es) : fs[j] = es[j]
    BY <1>1
  <1>3. \A j \in 1..Len(fs) : fs[j].type = "stake" => j \in 1..Len(es) /\ fs[j] = es[j]
    BY <1>2
  <1>4. Staked(fs, 0) = Staked(es, 0)
    BY <1>1, StakedAppend
  <1>5. StakesTold(fs, ct, h, n)
    BY <1>3 DEF StakesTold
  <1>6. StakesSeen(txs, fs, ct, 0, w, h, reps)
    BY <1>4 DEF StakesSeen
  <1> QED
    BY <1>1, <1>5, <1>6

\* More messages do not unmake what was told.
LEMMA StakesLater ==
    ASSUME NEW es, NEW ct \in SUBSET Txs, NEW h, NEW n \in Nat, StakesTold(es, ct, h, n)
    PROVE  StakesTold(es, ct, h, n + 1)
  <1>1. \A t \in ct : t.no \in Nat
    BY DEF Txs
  <1>2. \A t \in ct : t.no <= n + 1
    BY <1>1 DEF StakesTold
  <1> QED
    BY <1>2 DEF StakesTold

\* The chain emits a transaction.
LEMMA StakesEmit ==
    ASSUME NEW es \in Seq(Events), NEW tx \in Txs, NEW ct \in SUBSET Txs, NEW h \in Nat,
           NEW n \in Nat, NEW e, e = [type |-> "stake", tx |-> tx],
           tx.no = n + 1, tx.at = h, h < UpgradeHeight => tx.pool = NoPool,
           StakesTold(es, ct, h, n)
    PROVE  StakesTold(Append(es, e), ct \cup {tx}, h, n + 1)
  <1>1. e \in Events /\ e.type = "stake" /\ e.tx = tx
    BY DEF Events, StakeEvents
  <1>2. PICK fs : fs = Append(es, e)
    OBVIOUS
  <1>3. /\ Len(es) \in Nat /\ Len(fs) = Len(es) + 1 /\ fs[Len(es) + 1] = e
        /\ \A j \in 1..Len(es) : fs[j] = es[j]
    BY <1>1, <1>2
  <1>4. \A t \in ct : t.no \in Nat /\ t.no # tx.no /\ t.no <= n + 1
    BY DEF StakesTold, Txs
  <1>5. \A j \in 1..Len(fs) : j = Len(es) + 1 \/ (j \in 1..Len(es) /\ fs[j] = es[j])
    BY <1>3
  <1>6. StakesTold(fs, ct \cup {tx}, h, n + 1)
    <2>1. \A t, u \in ct \cup {tx} : t.no = u.no => t = u
      BY <1>4 DEF StakesTold
    <2>2. \A t \in ct \cup {tx} :
            t.no <= n + 1 /\ t.at <= h /\ (h < UpgradeHeight => t.pool = NoPool)
      BY <1>4 DEF StakesTold
    <2>3. \A j \in 1..Len(fs) : fs[j].type = "stake" => fs[j].tx \in ct \cup {tx} /\ fs[j].tx.at = h
      BY <1>1, <1>3, <1>5 DEF StakesTold
    <2>4. ASSUME NEW j \in 1..Len(fs), NEW l \in 1..Len(fs), fs[j].type = "stake",
                 fs[l].type = "stake", fs[j].tx.no = fs[l].tx.no
          PROVE  j = l
      <3>1. \A k \in 1..Len(es) : es[k].type = "stake" => es[k].tx.no # tx.no
        BY <1>4 DEF StakesTold
      <3>2. CASE j \in 1..Len(es) /\ l \in 1..Len(es)
        BY <1>3, <2>4, <3>2 DEF StakesTold
      <3>3. CASE j = Len(es) + 1 /\ l \in 1..Len(es)
        BY <1>1, <1>3, <2>4, <3>1, <3>3
      <3>4. CASE l = Len(es) + 1 /\ j \in 1..Len(es)
        BY <1>1, <1>3, <2>4, <3>1, <3>4
      <3> QED
        BY <1>5, <3>2, <3>3, <3>4
    <2> QED
      BY <2>1, <2>2, <2>3, <2>4 DEF StakesTold
  <1> QED
    BY <1>2, <1>6

\* A row to come is not in the table yet.
LEMMA StakesWait ==
    ASSUME NEW es \in Seq(Events), NEW tx \in Txs, NEW ct \in SUBSET Txs,
           NEW txs \in SUBSET TxRows, NEW w \in BOOLEAN, NEW h \in Nat, NEW reps,
           NEW e, e = [type |-> "stake", tx |-> tx], \A t \in ct : t.no # tx.no,
           StakesSeen(txs, es, ct, 0, w, h, reps)
    PROVE  StakesSeen(txs, Append(es, e), ct \cup {tx}, 0, w, h, reps)
  <1>1. e \in Events /\ e.type = "stake" /\ e.tx = tx
    BY DEF Events, StakeEvents
  <1>2. PICK fs : fs = Append(es, e)
    OBVIOUS
  <1>3. Staked(fs, 0) = Staked(es, 0) \cup {tx}
    BY <1>1, <1>2, StakedAppend
  <1>4. {Bare(t) : t \in Settled(txs, w)} \cup Staked(fs, 0) = ct \cup {tx}
    BY <1>3 DEF StakesSeen
  <1>5. ASSUME NEW t \in txs PROVE t.no # tx.no
    <2>1. PICK s \in Settled(txs, w) : Bare(s).no = t.no
      BY RowOnChain
    <2>2. Bare(s) \in ct
      BY <2>1 DEF StakesSeen
    <2> QED
      BY <2>1, <2>2
  <1> QED
    BY <1>2, <1>3, <1>4, <1>5 DEF StakesSeen

\* What was seen of all events holds for a block to be indexed again.
LEMMA StakesAgain ==
    ASSUME NEW es \in Seq(Events), NEW ct, NEW txs, NEW w, NEW h, NEW reps, NEW n,
           StakesTold(es, ct, h, n), StakesSeen(txs, es, ct, Len(es), w, h, reps)
    PROVE  StakesSeen(txs, es, ct, 0, w, h, reps \cup {h})
  <1>1. Staked(es, Len(es)) = {}
    BY DEF Staked
  <1>2. Staked(es, 0) \subseteq ct
    BY DEF Staked, StakesTold
  <1> QED
    BY <1>1, <1>2 DEF StakesSeen

\* The snapshot leaves the table settled.
LEMMA StakesSettle ==
    ASSUME NEW es, NEW ct, NEW txs \in SUBSET TxRows, NEW h, NEW reps,
           StakesSeen(txs, es, ct, 0, TRUE, h, reps)
    PROVE  StakesSeen(RelinkLegacyTx(txs), es, ct, 0, FALSE, h, reps)
  <1>1. PICK us : us = RelinkLegacyTx(txs)
    OBVIOUS
  <1>2. Settled(txs, TRUE) = us /\ Settled(us, FALSE) = us
    BY <1>1 DEF Settled
  <1>3. \A u \in us : \E t \in txs : u = Relinked(t) /\ u.no = t.no /\ u.at = t.at
    BY <1>1, RelinkIs, RelinkedFacts
  <1>4. \A t, u \in us : t.no = u.no => t = u \/ t.at \in reps
    BY <1>3 DEF StakesSeen
  <1>5. h \in reps \/ \A t \in us : \A e \in Staked(es, 0) : t.no # e.no
    BY <1>3 DEF StakesSeen
  <1> QED
    BY <1>1, <1>2, <1>4, <1>5 DEF StakesSeen

\* A block begins, ...
LEMMA StakesBegin ==
    ASSUME NEW es \in Seq(Events), NEW ct \in SUBSET Txs, NEW txs, NEW w, NEW h \in Nat, NEW reps,
           NEW n, h + 1 # UpgradeHeight, StakesTold(es, ct, h, n),
           StakesSeen(txs, es, ct, Len(es), w, h, reps)
    PROVE  StakesTold(<< >>, ct, h + 1, n) /\ StakesSeen(txs, << >>, ct, 0, w, h + 1, reps)
  <1>0. UpgradeHeight \in Nat
    BY ClaimsParameters
  <1>1. Staked(es, Len(es)) = {} /\ Staked(<< >>, 0) = {}
    BY DEF Staked
  <1>2. \A t \in ct : t.at \in Nat
    BY DEF Txs
  <1>3. \A t \in ct : t.at <= h + 1 /\ (h + 1 < UpgradeHeight => h < UpgradeHeight)
    BY <1>0, <1>2 DEF StakesTold
  <1>4. StakesTold(<< >>, ct, h + 1, n)
    BY <1>3 DEF StakesTold
  <1>5. StakesSeen(txs, << >>, ct, 0, w, h + 1, reps)
    BY <1>1 DEF StakesSeen
  <1> QED
    BY <1>4, <1>5

\* ... or the one of the upgrade.
LEMMA StakesUpgrade ==
    ASSUME NEW es \in Seq(Events), NEW ct \in SUBSET Txs, NEW txs \in SUBSET TxRows, NEW h \in Nat,
           NEW reps, NEW n, h + 1 = UpgradeHeight, StakesTold(es, ct, h, n),
           StakesSeen(txs, es, ct, Len(es), FALSE, h, reps),
           NEW dt, dt = {[t EXCEPT !.pool = Zero] : t \in ct}
    PROVE  /\ StakesTold(<< >>, dt, h + 1, n)
           /\ StakesSeen(txs, << >>, dt, 0, TRUE, h + 1, reps)
  <1>1. Staked(es, Len(es)) = {} /\ Staked(<< >>, 0) = {}
    BY DEF Staked
  <1>2. \A t \in ct : t.at \in Nat /\ t.at <= h /\ t.pool = NoPool
    BY DEF Txs, StakesTold
  <1>3. \A d \in dt : \E t \in ct : d = [t EXCEPT !.pool = Zero] /\ d.no = t.no /\ d.at = t.at
    BY DEF Txs
  <1>4. StakesTold(<< >>, dt, h + 1, n)
    <2>1. \A t, u \in dt : t.no = u.no => t = u
      BY <1>3 DEF StakesTold
    <2>2. \A t \in dt : t.no <= n /\ t.at <= h + 1
      BY <1>2, <1>3 DEF StakesTold
    <2> QED
      BY <2>1, <2>2 DEF StakesTold
  <1>5. ct = {Bare(t) : t \in txs}
    BY <1>1 DEF StakesSeen, Settled
  <1>6. ASSUME NEW t \in txs PROVE Bare(Relinked(t)) = [Bare(t) EXCEPT !.pool = Zero]
    <2>1. t \in TxRows /\ Bare(t) \in ct
      BY <1>5
    <2>2. t.pool = NoPool /\ t.at < UpgradeHeight
      BY <1>2, <2>1, RelinkedFacts
    <2>3. Relinked(t) = [t EXCEPT !.pool = Zero]
      BY <2>2 DEF Relinked
    <2> QED
      BY <2>1, <2>3 DEF Bare, TxRows
  <1>7. {Bare(t) : t \in Settled(txs, TRUE)} = dt
    <2>1. Settled(txs, TRUE) = {Relinked(t) : t \in txs}
      BY RelinkIs DEF Settled
    <2>2. ASSUME NEW t \in txs
          PROVE  Relinked(t) \in Settled(txs, TRUE) /\ Bare(t) \in ct
      BY <1>5, <2>1
    <2>3. ASSUME NEW d \in dt PROVE \E s \in Settled(txs, TRUE) : d = Bare(s)
      <3>1. PICK c \in ct : d = [c EXCEPT !.pool = Zero]
        OBVIOUS
      <3>2. PICK t \in txs : c = Bare(t)
        BY <1>5
      <3> QED
        BY <1>6, <2>2, <3>1, <3>2
    <2>4. ASSUME NEW s \in Settled(txs, TRUE) PROVE Bare(s) \in dt
      <3>1. PICK t \in txs : s = Relinked(t)
        BY <2>1
      <3>2. Bare(s) = [Bare(t) EXCEPT !.pool = Zero] /\ Bare(t) \in ct
        BY <1>6, <2>2, <3>1
      <3> QED
        BY <3>2
    <2> QED
      BY <2>3, <2>4
  <1>8. StakesSeen(txs, << >>, dt, 0, TRUE, h + 1, reps)
    BY <1>1, <1>7 DEF StakesSeen
  <1> QED
    BY <1>4, <1>8

----------------------------------------------------------------------------
(* Claims.                                                                  *)

\* Which events are about a claim.
LEMMA ClaimEventIs ==
    ASSUME NEW e \in Events
    PROVE  /\ e.type \in {"submit", "update"} => e \in ClaimEvents
           /\ e \in ClaimEvents => e.type \in {"submit", "update"} /\ e.claim \in Claims
  BY DEF Events, WholeEvents, ClaimEvents, DisputeEvents, StakeEvents

\* An event is handled, one more of the block.
LEMMA ClaimsStep ==
    ASSUME NEW es \in Seq(Events), NEW cc \in Maps(Claims, ClaimStates), NEW r \in Tables,
           NEW q \in Tables, NEW i \in Nat, i < Len(es), ClaimsTold(es, cc),
           ClaimsSeen(r, es, cc, i),
           es[i + 1] \in ClaimEvents => ClaimHandled(q, r, es[i + 1]),
           es[i + 1] \notin ClaimEvents => q.claim = r.claim /\ q.evaluation = r.evaluation
    PROVE  ClaimsSeen(q, es, cc, i + 1)
  <1>0. PICK ev : ev = es[i + 1]
    OBVIOUS
  <1>1. Len(es) \in Nat /\ i + 1 \in 1..Len(es) /\ ev \in Events
    BY <1>0
  <1>2. \A j \in 1..Len(es) : j > i => j = i + 1 \/ j > i + 1
    OBVIOUS
  <1>3. /\ \A c \in DOMAIN cc : ClaimAfter(es, i, c) \/ RowMatches(r, c, cc[c])
        /\ \A x \in r.evaluation : x.claim \in DOMAIN cc /\ x \in All(cc[x.claim])
        /\ \A c \in DOMAIN r.claim :
             c \in DOMAIN cc /\ (r.claim[c].current # None => cc[c].current # None)
        /\ \A j \in 1..Len(es) : j > i /\ es[j].type = "update" => RowThere(r, es, i, j)
    BY DEF ClaimsSeen
  <1>4. ASSUME NEW c, ~ ClaimAfter(es, i + 1, c), ~ AboutClaim(ev, c)
        PROVE  ~ ClaimAfter(es, i, c)
    BY <1>0, <1>2, <1>4 DEF ClaimAfter
  <1>5. CASE ev \in ClaimEvents
    <2>0. PICK k : k = ev.claim
      OBVIOUS
    <2>1. /\ SameBut(q, r, {"claim", "evaluation"})
          /\ DOMAIN q.claim = IF ev.type = "submit" THEN DOMAIN r.claim \cup {k} ELSE DOMAIN r.claim
          /\ \A c \in DOMAIN r.claim : c # k => q.claim[c] = r.claim[c]
          /\ k \in DOMAIN q.claim =>
               q.claim[k].current = IF ev.current # None THEN Pointer(ev.current)
                                    ELSE IF ev.type = "submit" THEN None
                                    ELSE r.claim[k].current
          /\ r.evaluation \subseteq q.evaluation
          /\ q.evaluation \subseteq r.evaluation \cup All(ev)
          /\ \A e \in All(ev) : \E x \in q.evaluation : SameKey(x, e)
      BY <1>0, <1>5, <2>0 DEF ClaimHandled
    <2>2. ev.type \in {"submit", "update"} /\ k \in Claims /\ AboutClaim(ev, k)
      BY <1>1, <1>5, <2>0, ClaimEventIs DEF AboutClaim
    <2>3. /\ k \in DOMAIN cc
          /\ All(ev) \subseteq All(cc[k])
          /\ ev.current # None => cc[k].current # None
          /\ ev.type = "submit" => ev.current = None
          /\ ~ ClaimAfter(es, i + 1, k) =>
               ev.current = cc[k].current /\ ev.history = cc[k].history
      BY <1>0, <1>1, <2>2 DEF ClaimsTold
    <2>4. k \in DOMAIN q.claim
      <3>1. CASE ev.type = "submit"
        BY <2>1, <3>1
      <3>2. CASE ev.type = "update"
        <4>1. RowThere(r, es, i, i + 1)
          BY <1>0, <1>1, <1>3, <3>2
        <4>2. ~ \E l \in 1..Len(es) : i < l /\ l < i + 1
          OBVIOUS
        <4>3. k \in DOMAIN r.claim
          BY <1>0, <2>0, <4>1, <4>2 DEF RowThere
        <4> QED
          BY <2>1, <3>2, <4>3
      <3> QED
        BY <2>2, <3>1, <3>2
    <2>5. ev.type = "update" => k \in DOMAIN r.claim
      BY <2>1, <2>4
    <2>6. \A c \in DOMAIN q.claim : c # k => c \in DOMAIN r.claim /\ q.claim[c] = r.claim[c]
      BY <2>1
    <2>7. ASSUME NEW c \in DOMAIN cc, ~ ClaimAfter(es, i + 1, c)
          PROVE  RowMatches(q, c, cc[c])
      <3>1. CASE c = k
        <4>1. ev.current = cc[k].current /\ ev.history = cc[k].history
          BY <2>3, <2>7, <3>1
        <4>2. All(ev) = All(cc[k])
          BY <4>1 DEF All
        <4>3. q.claim[k].current = Pointer(cc[k].current)
          <5>1. CASE ev.current # None
            BY <2>1, <2>4, <4>1, <5>1
          <5>2. CASE ev.current = None /\ ev.type = "submit"
            BY <2>1, <2>4, <4>1, <5>2 DEF Pointer
          <5>3. CASE ev.current = None /\ ev.type = "update"
            <6>1. r.claim[k].current = None
              BY <1>3, <2>5, <4>1, <5>3
            <6> QED
              BY <2>1, <2>4, <4>1, <5>3, <6>1 DEF Pointer
          <5> QED
            BY <2>2, <5>1, <5>2, <5>3
        <4> QED
          BY <2>1, <2>4, <3>1, <4>2, <4>3 DEF RowMatches
      <3>2. CASE c # k
        <4>1. ~ AboutClaim(ev, c)
          BY <2>0, <3>2 DEF AboutClaim
        <4>2. RowMatches(r, c, cc[c])
          BY <1>3, <1>4, <2>7, <4>1
        <4>3. c \in DOMAIN r.claim /\ c \in DOMAIN q.claim /\ q.claim[c] = r.claim[c]
          BY <2>1, <3>2, <4>2 DEF RowMatches
        <4> QED
          BY <2>1, <4>2, <4>3 DEF RowMatches
      <3> QED
        BY <3>1, <3>2
    <2>8. ASSUME NEW x \in q.evaluation
          PROVE  x.claim \in DOMAIN cc /\ x \in All(cc[x.claim])
      <3>1. CASE x \in r.evaluation
        BY <1>3, <3>1
      <3>2. CASE x \in All(ev)
        <4>1. x \in All(cc[k])
          BY <2>3, <3>2
        <4>2. x.claim = k
          BY <2>3, <4>1 DEF ClaimsTold
        <4> QED
          BY <2>3, <4>1, <4>2
      <3> QED
        BY <2>1, <3>1, <3>2
    <2>9. ASSUME NEW c \in DOMAIN q.claim
          PROVE  c \in DOMAIN cc /\ (q.claim[c].current # None => cc[c].current # None)
      <3>1. CASE c = k
        <4>1. CASE ev.current # None
          BY <2>3, <3>1, <4>1
        <4>2. CASE ev.current = None /\ ev.type = "submit"
          BY <2>1, <2>3, <2>4, <3>1, <4>2
        <4>3. CASE ev.current = None /\ ev.type = "update"
          BY <1>3, <2>1, <2>3, <2>4, <2>5, <3>1, <4>3
        <4> QED
          BY <2>2, <4>1, <4>2, <4>3
      <3>2. CASE c # k
        BY <1>3, <2>6, <3>2
      <3> QED
        BY <3>1, <3>2
    <2>10. ASSUME NEW j \in 1..Len(es), j > i + 1, es[j].type = "update"
           PROVE  RowThere(q, es, i + 1, j)
      <3>1. RowThere(r, es, i, j)
        BY <1>3, <2>10
      <3>2. CASE es[j].claim \in DOMAIN r.claim
        BY <2>1, <3>2 DEF RowThere
      <3>3. CASE es[j].claim \notin DOMAIN r.claim
        <4>1. PICK l \in 1..Len(es) : i < l /\ l < j /\ es[l].type = "submit"
                                      /\ es[l].claim = es[j].claim
          BY <3>1, <3>3 DEF RowThere
        <4>2. CASE l = i + 1
          BY <1>0, <2>0, <2>4, <4>1, <4>2 DEF RowThere
        <4>3. CASE l > i + 1
          BY <4>1, <4>3 DEF RowThere
        <4> QED
          BY <1>2, <4>1, <4>2, <4>3
      <3> QED
        BY <3>2, <3>3
    <2> QED
      BY <2>7, <2>8, <2>9, <2>10 DEF ClaimsSeen
  <1>6. CASE ev \notin ClaimEvents
    <2>1. q.claim = r.claim /\ q.evaluation = r.evaluation
      BY <1>0, <1>6
    <2>2. ev.type \notin {"submit", "update"}
      BY <1>1, <1>6, ClaimEventIs
    <2>3. ASSUME NEW c \in DOMAIN cc, ~ ClaimAfter(es, i + 1, c)
          PROVE  RowMatches(q, c, cc[c])
      <3>1. RowMatches(r, c, cc[c])
        BY <1>3, <1>4, <2>2, <2>3 DEF AboutClaim
      <3> QED
        BY <2>1, <3>1 DEF RowMatches
    <2>4. ASSUME NEW j \in 1..Len(es), j > i + 1, es[j].type = "update"
          PROVE  RowThere(q, es, i + 1, j)
      <3>1. RowThere(r, es, i, j)
        BY <1>3, <2>4
      <3>2. \A l \in 1..Len(es) : i < l /\ es[l].type = "submit" => i + 1 < l
        BY <1>0, <1>2, <2>2
      <3> QED
        BY <2>1, <3>1, <3>2 DEF RowThere
    <2> QED
      BY <1>3, <2>1, <2>3, <2>4 DEF ClaimsSeen
  <1> QED
    BY <1>5, <1>6

\* Whether the chain, that emits e, may take its claims from cc to dc.
ClaimMoves(e, cc, dc) ==
    /\ \A c \in DOMAIN cc : c \in DOMAIN dc /\ (~ AboutClaim(e, c) => dc[c] = cc[c])
    /\ \A c \in DOMAIN dc : c \notin DOMAIN cc => AboutClaim(e, c)
    /\ \A c : AboutClaim(e, c) =>
        /\ c \in DOMAIN dc
        /\ e.current = dc[c].current /\ e.history = dc[c].history
        /\ \A x \in All(dc[c]) : x.claim = c
        /\ c \in DOMAIN cc =>
             /\ All(cc[c]) \subseteq All(dc[c])
             /\ cc[c].current # None => dc[c].current # None
        /\ e.type = "submit" => e.current = None /\ e.history = << >>
        /\ e.type = "update" => c \in DOMAIN cc

\* The chain emits a claim with what it has of it.
LEMMA ClaimsEmit ==
    ASSUME NEW es \in Seq(Events), NEW e \in Events, NEW cc, NEW dc, NEW r,
           ClaimMoves(e, cc, dc), ClaimsTold(es, cc), ClaimsSeen(r, es, cc, 0)
    PROVE  ClaimsTold(Append(es, e), dc) /\ ClaimsSeen(r, Append(es, e), dc, 0)
  <1>1. PICK fs : fs = Append(es, e)
    OBVIOUS
  <1>2. /\ Len(es) \in Nat /\ Len(fs) = Len(es) + 1 /\ fs[Len(es) + 1] = e
        /\ \A j \in 1..Len(es) : fs[j] = es[j]
    BY <1>1
  <1>3. \A j \in 1..Len(fs) : j > 0 /\ (j = Len(es) + 1 \/ j \in 1..Len(es))
    BY <1>2
  <1>4. \A j \in 1..Len(es) : j > 0 /\ j \in 1..Len(fs) /\ j < Len(es) + 1
    BY <1>2
  <1>5. Len(es) + 1 \in 1..Len(fs) /\ Len(es) + 1 > 0
    BY <1>2
  <1>6. ASSUME NEW c \in DOMAIN cc
        PROVE  /\ c \in DOMAIN dc
               /\ All(cc[c]) \subseteq All(dc[c])
               /\ cc[c].current # None => dc[c].current # None
    BY DEF ClaimMoves
  <1>7. ASSUME NEW j \in 1..Len(es), NEW c, ~ ClaimAfter(fs, j, c)
        PROVE  ~ ClaimAfter(es, j, c) /\ ~ AboutClaim(e, c)
    BY <1>2, <1>4, <1>5, <1>7 DEF ClaimAfter
  <1>8. ClaimsTold(fs, dc)
    <2>1. ASSUME NEW c \in DOMAIN dc, NEW x \in All(dc[c]) PROVE x.claim = c
      BY DEF ClaimMoves, ClaimsTold
    <2>2. ASSUME NEW j \in 1..Len(fs), NEW c \in Claims, AboutClaim(fs[j], c)
          PROVE  /\ c \in DOMAIN dc
                 /\ All(fs[j]) \subseteq All(dc[c])
                 /\ fs[j].current # None => dc[c].current # None
                 /\ fs[j].type = "submit" => fs[j].current = None /\ fs[j].history = << >>
                 /\ ~ ClaimAfter(fs, j, c) =>
                      fs[j].current = dc[c].current /\ fs[j].history = dc[c].history
      <3>1. CASE j = Len(es) + 1
        <4>1. fs[j] = e /\ AboutClaim(e, c)
          BY <1>2, <2>2, <3>1
        <4>2. All(e) = All(dc[c])
          BY <4>1 DEF ClaimMoves, All
        <4> QED
          BY <4>1, <4>2 DEF ClaimMoves
      <3>2. CASE j \in 1..Len(es)
        <4>1. fs[j] = es[j] /\ AboutClaim(es[j], c)
          BY <1>2, <2>2, <3>2
        <4>2. /\ c \in DOMAIN cc
              /\ All(es[j]) \subseteq All(cc[c])
              /\ es[j].current # None => cc[c].current # None
              /\ es[j].type = "submit" => es[j].current = None /\ es[j].history = << >>
              /\ ~ ClaimAfter(es, j, c) =>
                   es[j].current = cc[c].current /\ es[j].history = cc[c].history
          BY <3>2, <4>1 DEF ClaimsTold
        <4>3. ~ ClaimAfter(fs, j, c) => dc[c] = cc[c] /\ ~ ClaimAfter(es, j, c)
          BY <1>7, <3>2, <4>2 DEF ClaimMoves
        <4> QED
          BY <1>6, <4>1, <4>2, <4>3
      <3> QED
        BY <1>3, <3>1, <3>2
    <2> QED
      BY <2>1, <2>2 DEF ClaimsTold
  <1>9. ClaimsSeen(r, fs, dc, 0)
    <2>1. ASSUME NEW c \in DOMAIN dc, ~ ClaimAfter(fs, 0, c) PROVE RowMatches(r, c, dc[c])
      <3>1. ~ AboutClaim(e, c) /\ ~ ClaimAfter(es, 0, c)
        BY <1>2, <1>4, <1>5, <2>1 DEF ClaimAfter
      <3>2. c \in DOMAIN cc /\ dc[c] = cc[c]
        BY <3>1 DEF ClaimMoves
      <3> QED
        BY <3>1, <3>2 DEF ClaimsSeen
    <2>2. \A x \in r.evaluation : x.claim \in DOMAIN dc /\ x \in All(dc[x.claim])
      BY <1>6 DEF ClaimsSeen
    <2>3. \A c \in DOMAIN r.claim :
            c \in DOMAIN dc /\ (r.claim[c].current # None => dc[c].current # None)
      BY <1>6 DEF ClaimsSeen
    <2>4. ASSUME NEW j \in 1..Len(es), RowThere(r, es, 0, j)
          PROVE  RowThere(r, fs, 0, j)
      BY <1>2, <1>4, <2>4 DEF RowThere
    <2>5. ASSUME NEW j \in 1..Len(fs), fs[j].type = "update"
          PROVE  RowThere(r, fs, 0, j)
      <3>1. CASE j \in 1..Len(es)
        <4>1. RowThere(r, es, 0, j)
          BY <1>2, <1>4, <2>5, <3>1 DEF ClaimsSeen
        <4> QED
          BY <2>4, <3>1, <4>1
      <3>2. CASE j = Len(es) + 1
        <4>1. PICK c : c = e.claim
          OBVIOUS
        <4>2. fs[j] = e /\ AboutClaim(e, c)
          BY <1>2, <2>5, <3>2, <4>1 DEF AboutClaim
        <4>3. c \in DOMAIN cc
          BY <2>5, <4>2 DEF ClaimMoves
        <4>4. CASE c \in DOMAIN r.claim
          BY <4>1, <4>2, <4>4 DEF RowThere
        <4>5. CASE c \notin DOMAIN r.claim
          <5>1. ClaimAfter(es, 0, c)
            BY <4>3, <4>5 DEF ClaimsSeen, RowMatches
          <5>2. PICK l \in 1..Len(es) : AboutClaim(es[l], c)
            BY <5>1 DEF ClaimAfter
          <5>3. \E s \in 1..Len(es) : es[s].type = "submit" /\ es[s].claim = c
            <6>1. CASE es[l].type = "submit"
              BY <5>2, <6>1 DEF AboutClaim
            <6>2. CASE es[l].type = "update"
              <7>1. RowThere(r, es, 0, l)
                BY <1>4, <6>2 DEF ClaimsSeen
              <7> QED
                BY <4>5, <5>2, <7>1 DEF RowThere, AboutClaim
            <6> QED
              BY <5>2, <6>1, <6>2 DEF AboutClaim
          <5> QED
            BY <1>2, <1>4, <3>2, <4>1, <4>2, <5>3 DEF RowThere
        <4> QED
          BY <4>4, <4>5
      <3> QED
        BY <1>3, <3>1, <3>2
    <2> QED
      BY <2>1, <2>2, <2>3, <2>5 DEF ClaimsSeen
  <1> QED
    BY <1>1, <1>8, <1>9

\* Other events leave the claims alone.
LEMMA ClaimsQuiet ==
    ASSUME NEW es \in Seq(Events), NEW e \in Events, e \notin ClaimEvents, NEW cc, NEW r,
           ClaimsTold(es, cc), ClaimsSeen(r, es, cc, 0)
    PROVE  ClaimsTold(Append(es, e), cc) /\ ClaimsSeen(r, Append(es, e), cc, 0)
  <1>1. \A c : ~ AboutClaim(e, c)
    BY ClaimEventIs DEF AboutClaim
  <1>2. ClaimMoves(e, cc, cc)
    BY <1>1 DEF ClaimMoves
  <1> QED
    BY <1>2, ClaimsEmit

\* What was seen of all events holds for a block to be indexed again, ...
LEMMA ClaimsAgain ==
    ASSUME NEW es \in Seq(Events), NEW cc, NEW r, ClaimsTold(es, cc),
           ClaimsSeen(r, es, cc, Len(es))
    PROVE  ClaimsSeen(r, es, cc, 0)
  <1>1. \A c : ~ ClaimAfter(es, Len(es), c)
    BY DEF ClaimAfter
  <1>2. \A c \in DOMAIN cc : RowMatches(r, c, cc[c])
    BY <1>1 DEF ClaimsSeen
  <1>3. ASSUME NEW j \in 1..Len(es), es[j].type = "update" PROVE RowThere(r, es, 0, j)
    <2>1. es[j] \in ClaimEvents /\ es[j].claim \in Claims
      BY <1>3, ClaimEventIs
    <2>2. es[j].claim \in DOMAIN cc
      BY <1>3, <2>1 DEF ClaimsTold, AboutClaim
    <2> QED
      BY <1>2, <2>2 DEF RowThere, RowMatches
  <1> QED
    BY <1>2, <1>3 DEF ClaimsSeen

\* ... and for the next block.
LEMMA ClaimsBegin ==
    ASSUME NEW es \in Seq(Events), NEW cc, NEW r, ClaimsTold(es, cc),
           ClaimsSeen(r, es, cc, Len(es))
    PROVE  ClaimsTold(<< >>, cc) /\ ClaimsSeen(r, << >>, cc, 0)
  <1>1. \A c : ~ ClaimAfter(es, Len(es), c)
    BY DEF ClaimAfter
  <1>2. ClaimsTold(<< >>, cc)
    BY DEF ClaimsTold
  <1>3. ClaimsSeen(r, << >>, cc, 0)
    BY <1>1 DEF ClaimsSeen
  <1> QED
    BY <1>2, <1>3

\* Only the pointers of the rows and the evaluations count.
LEMMA ClaimsSame ==
    ASSUME NEW es, NEW cc, NEW r, NEW q, NEW i, ClaimsSeen(r, es, cc, i),
           DOMAIN q.claim = DOMAIN r.claim, q.evaluation = r.evaluation,
           \A c \in DOMAIN r.claim : q.claim[c].current = r.claim[c].current
    PROVE  ClaimsSeen(q, es, cc, i)
  <1>1. \A c \in DOMAIN cc : RowMatches(r, c, cc[c]) => RowMatches(q, c, cc[c])
    BY DEF RowMatches
  <1>2. \A j \in 1..Len(es) : RowThere(r, es, i, j) => RowThere(q, es, i, j)
    BY DEF RowThere
  <1> QED
    BY <1>1, <1>2 DEF ClaimsSeen

----------------------------------------------------------------------------
(* The three together: an event is handled, a block is.                     *)

\* A submitted claim has no evaluations.
LEMMA SoundEvents ==
    ASSUME NEW es \in Seq(Events), NEW cc, ClaimsTold(es, cc), NEW j \in 1..Len(es)
    PROVE  Sound(es[j])
  <1>1. CASE es[j].type = "submit"
    <2>1. es[j] \in ClaimEvents /\ es[j].claim \in Claims
      BY <1>1, ClaimEventIs
    <2> QED
      BY <1>1, <2>1 DEF ClaimsTold, AboutClaim, Sound
  <1>2. CASE es[j].type # "submit"
    BY <1>2 DEF Sound
  <1> QED
    BY <1>1, <1>2

\* One event, ...
LEMMA FollowsStep ==
    ASSUME NEW r, IsTables(r), NEW es \in Seq(Events), NEW ch \in ChainStates, NEW i \in Nat,
           i < Len(es), NEW h \in Nat, NEW n, NEW w \in BOOLEAN, w => h >= UpgradeHeight, NEW reps,
           NEW up, Follows(r, i, es, ch, h, n, w, reps, up)
    PROVE  /\ IsTables(Handle(r, es[i + 1]))
           /\ DOMAIN r.claim \subseteq DOMAIN Handle(r, es[i + 1]).claim
           /\ Follows(Handle(r, es[i + 1]), i + 1, es, ch, h, n, w, reps, up)
  <1>1. PICK ev, q : ev = es[i + 1] /\ q = Handle(r, ev)
    OBVIOUS
  <1>2. ev \in Events /\ i + 1 \in 1..Len(es)
    BY <1>1
  <1>3. Sound(ev)
    BY <1>1, <1>2, SoundEvents DEF Follows
  <1>4. /\ IsTables(q)
        /\ ev \in WholeEvents => WholeHandled(q, r, ev)
        /\ ev \in ClaimEvents => ClaimHandled(q, r, ev)
        /\ ev \in DisputeEvents => DisputeHandled(q, r)
        /\ ev \in StakeEvents => StakeHandled(q, r, ev.tx)
    BY <1>1, <1>2, <1>3, HandleFacts
  <1>5. q \in Tables /\ r \in Tables /\ r.tx \in SUBSET TxRows /\ ch.claim \in Maps(Claims, ClaimStates)
    BY <1>4 DEF IsTables, Tables, ChainStates
  <1>6. ev \in WholeEvents \/ ev \in ClaimEvents \/ ev \in DisputeEvents \/ ev \in StakeEvents
    BY <1>2 DEF Events
  <1>7. /\ ev \in WholeEvents => ev \notin ClaimEvents /\ ev \notin StakeEvents
        /\ ev \in ClaimEvents => ev \notin WholeEvents /\ ev \notin StakeEvents
        /\ ev \in DisputeEvents =>
             ev \notin WholeEvents /\ ev \notin ClaimEvents /\ ev \notin StakeEvents
        /\ ev \in StakeEvents => ev \notin WholeEvents /\ ev \notin ClaimEvents
    BY DEF WholeEvents, ClaimEvents, DisputeEvents, StakeEvents
  <1>8. MirrorSeen(q.mirror, es, ch.mirror, i + 1, w, up)
    <2>1. ev \in WholeEvents =>
            q.mirror = IF ev.type = "upsert" THEN Put(r.mirror, ev.key, ev.stamp)
                       ELSE Without(r.mirror, ev.key)
      BY <1>4 DEF WholeHandled
    <2>2. ev \notin WholeEvents => q.mirror = r.mirror
      BY <1>4, <1>6 DEF ClaimHandled, DisputeHandled, StakeHandled, SameBut
    <2>3. MirrorTold(es, ch.mirror) /\ MirrorSeen(r.mirror, es, ch.mirror, i, w, up)
      BY DEF Follows
    <2> QED
      BY <1>1, <2>1, <2>2, <2>3, MirrorStep
  <1>9. ClaimsSeen(q, es, ch.claim, i + 1)
    <2>1. ev \notin ClaimEvents => q.claim = r.claim /\ q.evaluation = r.evaluation
      BY <1>4, <1>6 DEF WholeHandled, DisputeHandled, StakeHandled, SameBut
    <2>2. ClaimsTold(es, ch.claim) /\ ClaimsSeen(r, es, ch.claim, i)
      BY DEF Follows
    <2> QED
      BY <1>1, <1>4, <1>5, <2>1, <2>2, ClaimsStep
  <1>10. StakesSeen(q.tx, es, ch.tx, i + 1, w, h, reps)
    <2>1. ev \in StakeEvents =>
            \E d \in Nat : q.tx = r.tx \cup {[id |-> d, no |-> ev.tx.no, at |-> ev.tx.at,
                                              pool |-> ev.tx.pool]}
      BY <1>4 DEF StakeHandled
    <2>2. ev \notin StakeEvents => q.tx = r.tx
      BY <1>4, <1>6 DEF WholeHandled, ClaimHandled, DisputeHandled, SameBut
    <2>3. StakesTold(es, ch.tx, h, n) /\ StakesSeen(r.tx, es, ch.tx, i, w, h, reps)
      BY DEF Follows
    <2> QED
      BY <1>1, <1>5, <2>1, <2>2, <2>3, StakesStep
  <1>11. Follows(q, i + 1, es, ch, h, n, w, reps, up)
    BY <1>8, <1>9, <1>10 DEF Follows
  <1>12. DOMAIN r.claim \subseteq DOMAIN q.claim
    <2>1. CASE ev \in ClaimEvents
      BY <1>4, <2>1 DEF ClaimHandled
    <2>2. CASE ev \notin ClaimEvents
      <3>1. q.claim = r.claim
        BY <1>4, <1>6, <2>2 DEF WholeHandled, DisputeHandled, StakeHandled, SameBut
      <3> QED
        BY <3>1
    <2> QED
      BY <2>1, <2>2
  <1> QED
    BY <1>1, <1>4, <1>11, <1>12

\* ... and all of a block.
LEMMA FollowsBlock ==
    ASSUME NEW r, IsTables(r), events \in Seq(Events), NEW ch \in ChainStates,
           NEW h \in Nat, NEW n, NEW w \in BOOLEAN, w => h >= UpgradeHeight, NEW reps,
           NEW up, Follows(r, 0, events, ch, h, n, w, reps, up)
    PROVE  /\ IsTables(Handled(r))
           /\ DOMAIN r.claim \subseteq DOMAIN Handled(r).claim
           /\ Follows(Handled(r), Len(events), events, ch, h, n, w, reps, up)
  <1>0. Len(events) \in Nat
    OBVIOUS
  <1>1. PICK f : /\ f[0] = r
                 /\ \A i \in 1..Len(events) : f[i] = Handle(f[i - 1], events[i])
                 /\ Handled(r) = f[Len(events)]
    BY <1>0, HandledSteps
  <1> DEFINE Good(i) == /\ IsTables(f[i])
                        /\ DOMAIN r.claim \subseteq DOMAIN f[i].claim
                        /\ Follows(f[i], i, events, ch, h, n, w, reps, up)
             G == {i \in Nat : i <= Len(events) => Good(i)}
  <1>2. 0 \in G
    BY <1>1
  <1>3. ASSUME NEW i \in G PROVE i + 1 \in G
    <2>0. i \in Nat /\ i + 1 \in Nat
      OBVIOUS
    <2> SUFFICES ASSUME i + 1 <= Len(events) PROVE Good(i + 1)
      BY <2>0
    <2>1. i <= Len(events) /\ i < Len(events) /\ i + 1 \in 1..Len(events) /\ (i + 1) - 1 = i
      BY <1>0, <2>0
    <2>2. Good(i)
      BY <2>1
    <2>3. f[i + 1] = Handle(f[i], events[i + 1])
      BY <1>1, <2>1
    <2>4. PICK p : p = f[i]
      OBVIOUS
    <2>5. /\ IsTables(p) /\ DOMAIN r.claim \subseteq DOMAIN p.claim
          /\ Follows(p, i, events, ch, h, n, w, reps, up)
      BY <2>2, <2>4
    <2>6. /\ IsTables(Handle(p, events[i + 1]))
          /\ DOMAIN p.claim \subseteq DOMAIN Handle(p, events[i + 1]).claim
          /\ Follows(Handle(p, events[i + 1]), i + 1, events, ch, h, n, w, reps, up)
      BY <2>0, <2>1, <2>5, FollowsStep
    <2> QED
      BY <2>3, <2>4, <2>5, <2>6
  <1>4. G = Nat
    <2> HIDE DEF G
    <2>1. G \in SUBSET Nat
      BY DEF G
    <2> QED
      BY <1>2, <1>3, <2>1, Induction
  <1> HIDE DEF Good
  <1>5. Good(Len(events))
    <2>1. Len(events) \in G
      BY <1>0, <1>4
    <2> QED
      BY <1>0, <2>1
  <1> QED
    BY <1>1, <1>5 DEF Good

\* A block may be indexed again.
LEMMA FollowsAgain ==
    ASSUME NEW r, NEW es \in Seq(Events), NEW ch, NEW h, NEW n, NEW w \in BOOLEAN, NEW reps,
           NEW up, Follows(r, Len(es), es, ch, h, n, w, reps, up)
    PROVE  Follows(r, 0, es, ch, h, n, w, reps \cup {h}, up)
  BY MirrorAgain, ClaimsAgain, StakesAgain DEF Follows

----------------------------------------------------------------------------
(* The chain emits an event.                                                *)

\* The keys of the chain's mirror.
LEMMA MirrorKeys ==
    ASSUME NEW ch \in ChainStates
    PROVE  /\ ch.mirror \in Maps(Keys, Versions) /\ DOMAIN ch.mirror \subseteq Keys
           /\ \A k \in DOMAIN ch.mirror : ch.mirror[k] \in Versions
  <1>1. ch.mirror \in Maps(Keys, Versions)
    BY DEF ChainStates, Mirrors
  <1> QED
    BY <1>1, MapFacts

\* One of a whole row, ...
LEMMA FollowsWhole ==
    ASSUME NEW r, NEW es \in Seq(Events), NEW ch \in ChainStates, NEW dh \in ChainStates,
           NEW h \in Nat, NEW n \in Nat, NEW w \in BOOLEAN, NEW reps, NEW e \in WholeEvents,
           dh.claim = ch.claim, dh.tx = ch.tx,
           \A k \in Keys : Agree(dh.mirror, ch.mirror, k) \/ Whole(e, k),
           \A k \in Keys : Whole(e, k) => Says(e, dh.mirror),
           Dated(e, ch.mirror, h), NEW up, up # << >> => h > UpgradeHeight,
           Follows(r, 0, es, ch, h, n, w, reps, up)
    PROVE  Follows(r, 0, Append(es, e), dh, h, n, w, reps, up)
  <1>1. e \in Events /\ e \notin ClaimEvents /\ e.type # "stake"
    BY DEF Events, WholeEvents, ClaimEvents
  <1>2. ch.tx \in SUBSET Txs
    BY DEF ChainStates
  <1>3. PICK fs : fs = Append(es, e)
    OBVIOUS
  <1>4. MirrorTold(fs, dh.mirror)
    BY <1>1, <1>3, MirrorTells DEF Follows
  <1>5. MirrorSeen(r.mirror, fs, dh.mirror, 0, w, up)
    BY <1>1, <1>3, MirrorWaits DEF Follows
  <1>6. ClaimsTold(fs, dh.claim) /\ ClaimsSeen(r, fs, dh.claim, 0)
    BY <1>1, <1>3, ClaimsQuiet DEF Follows
  <1>7. StakesTold(fs, dh.tx, h, n) /\ StakesSeen(r.tx, fs, dh.tx, 0, w, h, reps)
    BY <1>1, <1>2, <1>3, StakesQuiet DEF Follows
  <1>8. MirrorDated(fs, dh.mirror, h, up)
    <2>1. /\ DOMAIN ch.mirror \subseteq Keys /\ DOMAIN dh.mirror \subseteq Keys
          /\ MirrorDated(es, ch.mirror, h, up)
      BY MirrorKeys DEF Follows
    <2>2. \A k \in Keys : Whole(e, k) => Says(e, dh.mirror) /\ Dated(e, ch.mirror, h)
      OBVIOUS
    <2> QED
      BY <1>1, <1>3, <2>1, <2>2, DatedWrites
  <1> QED
    BY <1>3, <1>4, <1>5, <1>6, <1>7, <1>8 DEF Follows

\* Other events leave the mirror alone.
LEMMA MirrorQuiet ==
    ASSUME NEW es \in Seq(Events), NEW e \in Events, e \notin WholeEvents, NEW cm
    PROVE  /\ MirrorTold(es, cm) => MirrorTold(Append(es, e), cm)
           /\ \A m, up : \A w \in BOOLEAN :
                MirrorSeen(m, es, cm, 0, w, up) => MirrorSeen(m, Append(es, e), cm, 0, w, up)
           /\ \A h, up : MirrorDated(es, cm, h, up) => MirrorDated(Append(es, e), cm, h, up)
  <1>1. \A k \in Keys : ~ Whole(e, k) /\ Agree(cm, cm, k)
    BY DEF Whole, Agree, Events, WholeEvents, ClaimEvents, DisputeEvents, StakeEvents
  <1>2. ASSUME NEW k, WholeAfter(es, 0, k) PROVE WholeAfter(Append(es, e), 0, k)
    <2>1. PICK l \in 1..Len(es) : l > 0 /\ Whole(es[l], k)
      BY <1>2 DEF WholeAfter
    <2>2. PICK fs : fs = Append(es, e)
      OBVIOUS
    <2>3. l \in 1..Len(fs) /\ fs[l] = es[l]
      BY <2>2
    <2>4. WholeAfter(fs, 0, k)
      BY <2>1, <2>3 DEF WholeAfter
    <2> QED
      BY <2>2, <2>4
  <1>3. \A h, up : MirrorDated(es, cm, h, up) => MirrorDated(Append(es, e), cm, h, up)
    BY <1>2 DEF MirrorDated
  <1> QED
    BY <1>1, <1>3, MirrorTells, MirrorWaits

\* ... of a claim, ...
LEMMA FollowsClaim ==
    ASSUME NEW r, NEW es \in Seq(Events), NEW ch \in ChainStates, NEW dh \in ChainStates, NEW h,
           NEW n \in Nat, NEW w \in BOOLEAN, NEW reps, NEW up, NEW e \in ClaimEvents,
           dh.mirror = ch.mirror, dh.tx = ch.tx, ClaimMoves(e, ch.claim, dh.claim),
           Follows(r, 0, es, ch, h, n, w, reps, up)
    PROVE  Follows(r, 0, Append(es, e), dh, h, n, w, reps, up)
  <1>1. e \in Events /\ e \notin WholeEvents /\ e.type # "stake"
    BY DEF Events, WholeEvents, ClaimEvents
  <1>2. ch.tx \in SUBSET Txs
    BY DEF ChainStates
  <1>3. PICK fs : fs = Append(es, e)
    OBVIOUS
  <1>4. MirrorTold(fs, dh.mirror)
    BY <1>1, <1>3, MirrorQuiet DEF Follows
  <1>5. MirrorSeen(r.mirror, fs, dh.mirror, 0, w, up)
    BY <1>1, <1>3, MirrorQuiet DEF Follows
  <1>6. ClaimsTold(fs, dh.claim) /\ ClaimsSeen(r, fs, dh.claim, 0)
    BY <1>1, <1>3, ClaimsEmit DEF Follows
  <1>7. StakesTold(fs, dh.tx, h, n) /\ StakesSeen(r.tx, fs, dh.tx, 0, w, h, reps)
    BY <1>1, <1>2, <1>3, StakesQuiet DEF Follows
  <1>8. MirrorDated(fs, dh.mirror, h, up)
    BY <1>1, <1>3, MirrorQuiet DEF Follows
  <1> QED
    BY <1>3, <1>4, <1>5, <1>6, <1>7, <1>8 DEF Follows

\* ... of a dispute, ...
LEMMA FollowsDispute ==
    ASSUME NEW r, NEW es \in Seq(Events), NEW ch \in ChainStates, NEW dh \in ChainStates, NEW h,
           NEW n \in Nat, NEW w \in BOOLEAN, NEW reps, NEW up, NEW e \in DisputeEvents,
           dh.mirror = ch.mirror, dh.tx = ch.tx, dh.claim = ch.claim,
           Follows(r, 0, es, ch, h, n, w, reps, up)
    PROVE  Follows(r, 0, Append(es, e), dh, h, n, w, reps, up)
  <1>1. e \in Events /\ e \notin WholeEvents /\ e \notin ClaimEvents /\ e.type # "stake"
    BY DEF Events, WholeEvents, ClaimEvents, DisputeEvents
  <1>2. ch.tx \in SUBSET Txs
    BY DEF ChainStates
  <1>3. PICK fs : fs = Append(es, e)
    OBVIOUS
  <1>4. MirrorTold(fs, dh.mirror)
    BY <1>1, <1>3, MirrorQuiet DEF Follows
  <1>5. MirrorSeen(r.mirror, fs, dh.mirror, 0, w, up)
    BY <1>1, <1>3, MirrorQuiet DEF Follows
  <1>6. ClaimsTold(fs, dh.claim) /\ ClaimsSeen(r, fs, dh.claim, 0)
    BY <1>1, <1>3, ClaimsQuiet DEF Follows
  <1>7. StakesTold(fs, dh.tx, h, n) /\ StakesSeen(r.tx, fs, dh.tx, 0, w, h, reps)
    BY <1>1, <1>2, <1>3, StakesQuiet DEF Follows
  <1>8. MirrorDated(fs, dh.mirror, h, up)
    BY <1>1, <1>3, MirrorQuiet DEF Follows
  <1> QED
    BY <1>3, <1>4, <1>5, <1>6, <1>7, <1>8 DEF Follows

\* Only the number of messages grows.
LEMMA FollowsLater ==
    ASSUME NEW r, NEW i, NEW es, NEW ch \in ChainStates, NEW h, NEW n \in Nat, NEW w, NEW reps,
           NEW up, Follows(r, i, es, ch, h, n, w, reps, up)
    PROVE  Follows(r, i, es, ch, h, n + 1, w, reps, up)
  <1>1. ch.tx \in SUBSET Txs
    BY DEF ChainStates
  <1>2. StakesTold(es, ch.tx, h, n + 1)
    BY <1>1, StakesLater DEF Follows
  <1> QED
    BY <1>2 DEF Follows

\* ... of a transaction of liquid staking.
LEMMA FollowsStake ==
    ASSUME NEW r \in Tables, NEW es \in Seq(Events), NEW ch \in ChainStates, NEW dh \in ChainStates,
           NEW h \in Nat, NEW n \in Nat, NEW w \in BOOLEAN, NEW reps, NEW tx \in Txs,
           NEW up, NEW e, e = [type |-> "stake", tx |-> tx],
           tx.no = n + 1, tx.at = h, h < UpgradeHeight => tx.pool = NoPool,
           dh.mirror = ch.mirror, dh.claim = ch.claim, dh.tx = ch.tx \cup {tx},
           Follows(r, 0, es, ch, h, n, w, reps, up)
    PROVE  Follows(r, 0, Append(es, e), dh, h, n + 1, w, reps, up)
  <1>1. e \in Events /\ e \notin WholeEvents /\ e \notin ClaimEvents
    BY DEF Events, WholeEvents, ClaimEvents, StakeEvents
  <1>2. ch.tx \in SUBSET Txs /\ r.tx \in SUBSET TxRows
    BY DEF ChainStates, Tables
  <1>3. PICK fs : fs = Append(es, e)
    OBVIOUS
  <1>4. MirrorTold(fs, dh.mirror)
    BY <1>1, <1>3, MirrorQuiet DEF Follows
  <1>5. MirrorSeen(r.mirror, fs, dh.mirror, 0, w, up)
    BY <1>1, <1>3, MirrorQuiet DEF Follows
  <1>6. ClaimsTold(fs, dh.claim) /\ ClaimsSeen(r, fs, dh.claim, 0)
    BY <1>1, <1>3, ClaimsQuiet DEF Follows
  <1>7. StakesTold(fs, dh.tx, h, n + 1) /\ StakesSeen(r.tx, fs, dh.tx, 0, w, h, reps)
    <2>1. StakesTold(es, ch.tx, h, n) /\ StakesSeen(r.tx, es, ch.tx, 0, w, h, reps)
      BY DEF Follows
    <2>2. PICK ct, txs : ct = ch.tx /\ txs = r.tx
      OBVIOUS
    <2>3. /\ StakesTold(Append(es, e), ct \cup {tx}, h, n + 1)
          /\ StakesSeen(txs, Append(es, e), ct \cup {tx}, 0, w, h, reps)
      <3>1. /\ StakesTold(es, ct, h, n) /\ StakesSeen(txs, es, ct, 0, w, h, reps)
            /\ ct \in SUBSET Txs /\ txs \in SUBSET TxRows
        BY <1>2, <2>1, <2>2
      <3>2. StakesTold(Append(es, e), ct \cup {tx}, h, n + 1)
        BY <3>1, StakesEmit
      <3>3. \A t \in ct : t.no # tx.no
        BY <3>1 DEF StakesTold, Txs
      <3>4. StakesSeen(txs, Append(es, e), ct \cup {tx}, 0, w, h, reps)
        BY <3>1, <3>3, StakesWait
      <3> QED
        BY <3>2, <3>4
    <2> QED
      BY <1>3, <2>2, <2>3
  <1>8. MirrorDated(fs, dh.mirror, h, up)
    BY <1>1, <1>3, MirrorQuiet DEF Follows
  <1> QED
    BY <1>3, <1>4, <1>5, <1>6, <1>7, <1>8 DEF Follows

----------------------------------------------------------------------------
(* The invariant: the chain's actions.                                      *)

\* What the other leaves need of the types.
LEMMA TypesGive ==
    ASSUME Types
    PROVE  /\ chain \in [mirror : Mirrors, claim : Maps(Claims, ClaimStates),
                         dispute : SUBSET Disputes, tx : SUBSET Txs]
           /\ height \in Nat /\ messages \in Nat /\ MaxMessages \in Nat /\ MaxHeight \in Nat
           /\ UpgradeHeight \in Nat /\ UpgradeHeight >= 1 /\ KnownFrom \in Nat
           /\ height >= 1 /\ height <= MaxHeight
           /\ rows \in Tables
           /\ SnapshotWaits \in BOOLEAN /\ (SnapshotWaits => height >= UpgradeHeight)
  <1>1. /\ MaxMessages \in Nat /\ MaxHeight \in Nat
        /\ UpgradeHeight \in Nat /\ UpgradeHeight >= 1 /\ KnownFrom \in Nat
    BY ClaimsParameters
  <1>2. SnapshotWaits \in BOOLEAN /\ (SnapshotWaits => height >= UpgradeHeight)
    BY DEF SnapshotWaits, Upgraded
  <1> QED
    BY <1>1, <1>2 DEF Types, ChainStates, IsTables

\* What the chain emits is followed.
LEMMA Emission ==
    ASSUME IInv, phase = "open", messages < MaxMessages, messages' = messages + 1,
           UNCHANGED <<height, upgraded, phase, rows, migrated, fetching, replays>>,
           events' \in Seq(Events), chain' \in ChainStates,
           Follows(rows, 0, events', chain', height, messages + 1, SnapshotWaits, replays, upgraded)
    PROVE  IInv'
  <1>1. Types'
    BY TypesGive DEF IInv, Types
  <1>2. UpgradeSeen'
    BY DEF IInv, UpgradeSeen, Upgraded
  <1>3. SnapshotWaits' = SnapshotWaits /\ Seen' = 0
    BY DEF SnapshotWaits, Upgraded, Seen
  <1>4. Follows(rows, Seen, events, chain, height, messages, SnapshotWaits, replays, upgraded)'
    BY <1>3
  <1> QED
    BY <1>1, <1>2, <1>4 DEF IInv

\* In an open block nothing of it is handled yet.
LEMMA OpenFollows ==
    ASSUME IInv, phase = "open"
    PROVE  /\ Follows(rows, 0, events, chain, height, messages, SnapshotWaits, replays, upgraded)
           /\ chain \in ChainStates /\ events \in Seq(Events)
           /\ upgraded # << >> => height > UpgradeHeight
  <1>1. upgraded # << >> => height > UpgradeHeight
    BY TypesGive DEF IInv, UpgradeSeen
  <1> QED
    BY <1>1 DEF IInv, Seen, Types

\* An event of a whole row; Put and Without change no other key.
LEMMA WholeWrites ==
    ASSUME NEW cm, NEW k \in Keys, NEW s \in Versions, NEW e,
           e = [type |-> "upsert", key |-> k, stamp |-> s]
    PROVE  /\ e \in WholeEvents /\ e \in Events
           /\ \A x \in Keys : Agree(Put(cm, k, s), cm, x) \/ Whole(e, x)
           /\ \A x \in Keys : Whole(e, x) => Says(e, Put(cm, k, s))
  <1>1. e \in WholeEvents /\ e \in Events
    BY DEF WholeEvents, Events
  <1>2. PICK dm : dm = Put(cm, k, s)
    OBVIOUS
  <1>3. DOMAIN dm = DOMAIN cm \cup {k} /\ dm[k] = s /\ \A x \in DOMAIN cm : x # k => dm[x] = cm[x]
    BY <1>2 DEF Put
  <1>4. \A x \in Keys : Agree(dm, cm, x) \/ Whole(e, x)
    BY <1>3 DEF Agree, Whole
  <1>5. \A x \in Keys : Whole(e, x) => Says(e, dm)
    BY <1>3 DEF Says, Whole
  <1> QED
    BY <1>1, <1>2, <1>4, <1>5

\* A stamp is below the bound.
LEMMA StampTyped ==
    ASSUME Types, messages < MaxMessages
    PROVE  /\ Stamp \in 0..MaxMessages /\ Stamp \in 1..MaxMessages /\ Stamp = messages + 1
           /\ messages + 1 \in 0..MaxMessages
           /\ Written \in Versions /\ Written.at = height
  <1>1. /\ Stamp \in 0..MaxMessages /\ Stamp \in 1..MaxMessages /\ Stamp = messages + 1
        /\ messages + 1 \in 0..MaxMessages
    BY TypesGive DEF Stamp, Types
  <1>2. height \in 0..MaxHeight
    BY TypesGive
  <1> QED
    BY <1>1, <1>2 DEF Written, Versions

\* ChainWrites: a collection, budget, deposit, pool or the parameters.
LEMMA WritesKeep ==
    ASSUME IInv, NEW k \in Keys, ChainWrites(k)
    PROVE  IInv'
  <1>1. PICK e : e = [type |-> "upsert", key |-> k, stamp |-> Written]
    OBVIOUS
  <1>2. /\ phase = "open" /\ messages < MaxMessages /\ messages' = messages + 1
        /\ events' = events \o <<e>>
        /\ UNCHANGED <<height, upgraded, phase, rows, migrated, fetching, replays>>
        /\ chain' = [chain EXCEPT !.mirror = Put(@, k, Written)]
        /\ k = Zero => k \in DOMAIN chain.mirror
    BY <1>1 DEF ChainWrites, Emit, Upsert
  <1>3. /\ Written \in Versions /\ Written.at = height
        /\ chain \in ChainStates /\ events \in Seq(Events)
        /\ height \in Nat /\ messages \in Nat /\ SnapshotWaits \in BOOLEAN
    BY <1>2, StampTyped, TypesGive, OpenFollows DEF IInv
  <1>4. PICK dm : dm = Put(chain.mirror, k, Written)
    OBVIOUS
  <1>5. dm \in Mirrors
    BY <1>3, <1>4, PutType DEF ChainStates, Mirrors
  <1>6. PICK dh : dh = chain'
    OBVIOUS
  <1>7. dh \in ChainStates /\ dh.mirror = dm /\ dh.claim = chain.claim /\ dh.tx = chain.tx
    BY <1>2, <1>3, <1>4, <1>5, <1>6 DEF ChainStates
  <1>8. /\ e \in WholeEvents /\ e \in Events
        /\ \A x \in Keys : Agree(dm, chain.mirror, x) \/ Whole(e, x)
        /\ \A x \in Keys : Whole(e, x) => Says(e, dm)
        /\ Dated(e, chain.mirror, height)
    BY <1>1, <1>2, <1>3, <1>4, WholeWrites DEF Dated
  <1>9. Follows(rows, 0, Append(events, e), dh, height, messages, SnapshotWaits, replays, upgraded)
    BY <1>2, <1>3, <1>7, <1>8, OpenFollows, FollowsWhole
  <1>10. Follows(rows, 0, Append(events, e), dh, height, messages + 1,
                 SnapshotWaits, replays, upgraded)
    BY <1>3, <1>7, <1>9, FollowsLater
  <1>11. events' = Append(events, e) /\ events' \in Seq(Events)
    BY <1>2, <1>3, <1>8, AppendFacts
  <1> QED
    BY <1>2, <1>6, <1>7, <1>10, <1>11, Emission

\* ChainRemovesBudget.
LEMMA RemovesBudgetKeep ==
    ASSUME IInv, NEW k \in Keys, ChainRemovesBudget(k)
    PROVE  IInv'
  <1>1. PICK e : e = [type |-> "remove", key |-> k]
    OBVIOUS
  <1>2. /\ phase = "open" /\ messages < MaxMessages /\ messages' = messages + 1
        /\ events' = events \o <<e>>
        /\ UNCHANGED <<height, upgraded, phase, rows, migrated, fetching, replays>>
        /\ chain' = [chain EXCEPT !.mirror = Without(@, k)]
        /\ k \in Budgets
    BY <1>1 DEF ChainRemovesBudget, Emit
  <1>3. /\ chain \in ChainStates /\ events \in Seq(Events)
        /\ height \in Nat /\ messages \in Nat /\ SnapshotWaits \in BOOLEAN
    BY <1>2, TypesGive, OpenFollows DEF IInv
  <1>4. PICK dm : dm = Without(chain.mirror, k)
    OBVIOUS
  <1>5. dm \in Mirrors
    BY <1>3, <1>4, WithoutType DEF ChainStates, Mirrors
  <1>6. PICK dh : dh = chain'
    OBVIOUS
  <1>7. dh \in ChainStates /\ dh.mirror = dm /\ dh.claim = chain.claim /\ dh.tx = chain.tx
    BY <1>2, <1>3, <1>4, <1>5, <1>6 DEF ChainStates
  <1>8. e \in WholeEvents /\ e \in Events /\ Dated(e, chain.mirror, height)
    BY <1>1, <1>2 DEF WholeEvents, Events, Dated
  <1>9. /\ \A x \in Keys : Agree(dm, chain.mirror, x) \/ Whole(e, x)
        /\ \A x \in Keys : Whole(e, x) => Says(e, dm)
    <2>1. PICK cm : cm = chain.mirror
      OBVIOUS
    <2>2. DOMAIN dm = DOMAIN cm \ {k} /\ \A x \in DOMAIN cm : x # k => dm[x] = cm[x]
      BY <1>4, <2>1 DEF Without
    <2> QED
      BY <1>1, <2>1, <2>2 DEF Agree, Whole, Says
  <1>10. Follows(rows, 0, Append(events, e), dh, height, messages, SnapshotWaits, replays, upgraded)
    BY <1>2, <1>3, <1>7, <1>8, <1>9, OpenFollows, FollowsWhole
  <1>11. Follows(rows, 0, Append(events, e), dh, height, messages + 1,
                 SnapshotWaits, replays, upgraded)
    BY <1>3, <1>7, <1>10, FollowsLater
  <1>12. events' = Append(events, e) /\ events' \in Seq(Events)
    BY <1>2, <1>3, <1>8, AppendFacts
  <1> QED
    BY <1>2, <1>6, <1>7, <1>11, <1>12, Emission

\* A claim's event and the counters of its collection.
LEMMA ClaimKeeps ==
    ASSUME IInv, NEW c \in Claims, NEW dc \in Maps(Claims, ClaimStates), NEW e \in ClaimEvents,
           NEW u, u = Upsert(CollectionOf[c]),
           ClaimMoves(e, chain.claim, dc),
           phase = "open", messages < MaxMessages, messages' = messages + 1,
           events' = events \o <<e, u>>,
           UNCHANGED <<height, upgraded, phase, rows, migrated, fetching, replays>>,
           chain' = [chain EXCEPT !.mirror = Counted(c), !.claim = dc]
    PROVE  IInv'
  <1>1. PICK k : k = CollectionOf[c]
    OBVIOUS
  <1>2. k \in Keys /\ k # Zero
    BY <1>1, ClaimsParameters DEF Keys
  <1>3. /\ Written \in Versions /\ Written.at = height
        /\ chain \in ChainStates /\ events \in Seq(Events)
        /\ height \in Nat /\ messages \in Nat /\ SnapshotWaits \in BOOLEAN
    BY StampTyped, TypesGive, OpenFollows DEF IInv
  <1>4. PICK dm : dm = Put(chain.mirror, k, Written)
    OBVIOUS
  <1>5. dm \in Mirrors
    BY <1>2, <1>3, <1>4, PutType DEF ChainStates, Mirrors
  <1>6. PICK dh, mh : dh = chain' /\ mh = [chain EXCEPT !.claim = dc]
    OBVIOUS
  <1>7. /\ dh \in ChainStates /\ dh.mirror = dm /\ dh.claim = dc /\ dh.tx = chain.tx
        /\ mh \in ChainStates /\ mh.mirror = chain.mirror /\ mh.claim = dc /\ mh.tx = chain.tx
    <2>1. dh = [chain EXCEPT !.mirror = dm, !.claim = dc]
      BY <1>1, <1>4, <1>6 DEF Counted
    <2> QED
      BY <1>3, <1>5, <1>6, <2>1 DEF ChainStates
  <1>8. /\ u \in WholeEvents /\ u \in Events
        /\ \A x \in Keys : Agree(dm, chain.mirror, x) \/ Whole(u, x)
        /\ \A x \in Keys : Whole(u, x) => Says(u, dm)
        /\ Dated(u, chain.mirror, height)
    <2>1. u = [type |-> "upsert", key |-> k, stamp |-> Written]
      BY <1>1 DEF Upsert
    <2>2. u.type = "upsert" /\ u.key = k /\ u.stamp = Written
      BY <2>1
    <2>3. Dated(u, chain.mirror, height)
      BY <1>2, <1>3, <2>2 DEF Dated
    <2> QED
      BY <1>2, <1>3, <1>4, <2>1, <2>3, WholeWrites
  <1>9. e \in Events
    BY DEF Events
  <1>10. PICK es : es = Append(events, e)
    OBVIOUS
  <1>11. es \in Seq(Events)
    BY <1>3, <1>9, <1>10, AppendFacts
  <1>12. Follows(rows, 0, es, mh, height, messages, SnapshotWaits, replays, upgraded)
    BY <1>3, <1>7, <1>10, OpenFollows, FollowsClaim
  <1>13. Follows(rows, 0, Append(es, u), dh, height, messages, SnapshotWaits, replays, upgraded)
    BY <1>3, <1>7, <1>8, <1>11, <1>12, OpenFollows, FollowsWhole
  <1>14. Follows(rows, 0, Append(es, u), dh, height, messages + 1, SnapshotWaits, replays, upgraded)
    BY <1>3, <1>7, <1>13, FollowsLater
  <1>15. events' = Append(es, u) /\ events' \in Seq(Events)
    <2>1. events \o <<e, u>> = Append(Append(events, e), u)
      BY <1>3, <1>8, <1>9, AppendTwo
    <2> QED
      BY <1>8, <1>10, <1>11, <2>1, AppendFacts
  <1> QED
    BY <1>6, <1>7, <1>14, <1>15, Emission

\* ChainSubmits.
LEMMA SubmitsKeep ==
    ASSUME IInv, NEW c \in Claims, ChainSubmits(c)
    PROVE  IInv'
  <1>1. PICK claim : claim = [current |-> None, history |-> << >>]
    OBVIOUS
  <1>2. PICK e, u : /\ e = [type |-> "submit", claim |-> c, current |-> claim.current,
                            history |-> claim.history]
                    /\ u = Upsert(CollectionOf[c])
    OBVIOUS
  <1>3. PICK dc : dc = Put(chain.claim, c, claim)
    OBVIOUS
  <1>4. /\ c \notin DOMAIN chain.claim
        /\ phase = "open" /\ messages < MaxMessages /\ messages' = messages + 1
        /\ events' = events \o <<e, u>>
        /\ UNCHANGED <<height, upgraded, phase, rows, migrated, fetching, replays>>
        /\ chain' = [chain EXCEPT !.mirror = Counted(c), !.claim = dc]
    BY <1>1, <1>2, <1>3 DEF ChainSubmits, Emit, ClaimEvent
  <1>5. claim \in ClaimStates /\ claim.current = None /\ claim.history = << >>
    BY <1>1 DEF ClaimStates, Currents
  <1>6. e \in ClaimEvents /\ e.type = "submit" /\ e.claim = c /\ e.current = None /\ e.history = << >>
    BY <1>2, <1>5 DEF ClaimEvents, ClaimStates
  <1>7. chain.claim \in Maps(Claims, ClaimStates)
    BY TypesGive DEF IInv
  <1>8. dc \in Maps(Claims, ClaimStates)
    BY <1>3, <1>5, <1>7, PutType
  <1>9. DOMAIN dc = DOMAIN chain.claim \cup {c} /\ dc[c] = claim
        /\ \A x \in DOMAIN chain.claim : x # c => dc[x] = chain.claim[x]
    BY <1>3 DEF Put
  <1>10. All(claim) = {}
    BY <1>5, AllOne DEF All, None
  <1>11. ClaimMoves(e, chain.claim, dc)
    BY <1>4, <1>5, <1>6, <1>9, <1>10 DEF ClaimMoves, AboutClaim
  <1> QED
    BY <1>2, <1>4, <1>6, <1>8, <1>11, ClaimKeeps

\* ChainEvaluates.
LEMMA EvaluatesKeep ==
    ASSUME IInv, NEW c \in Claims, NEW a \in Agents, NEW status \in {"flagged", "final"},
           ChainEvaluates(c, a, status)
    PROVE  IInv'
  <1>1. PICK old, ev : /\ old = chain.claim[c]
                       /\ ev = [claim |-> c, agent |-> a, date |-> height, status |-> status]
    OBVIOUS
  <1>2. PICK claim : claim = [current |-> <<ev>>, history |-> old.history \o old.current]
    OBVIOUS
  <1>3. PICK e, u : /\ e = [type |-> "update", claim |-> c, current |-> claim.current,
                            history |-> claim.history]
                    /\ u = Upsert(CollectionOf[c])
    OBVIOUS
  <1>4. PICK cc, dc : cc = chain.claim /\ dc = [cc EXCEPT ![c] = claim]
    OBVIOUS
  <1>5. /\ c \in DOMAIN cc
        /\ phase = "open" /\ messages < MaxMessages /\ messages' = messages + 1
        /\ events' = events \o <<e, u>>
        /\ UNCHANGED <<height, upgraded, phase, rows, migrated, fetching, replays>>
        /\ chain' = [chain EXCEPT !.mirror = Counted(c), !.claim = dc]
    BY <1>1, <1>2, <1>3, <1>4 DEF ChainEvaluates, Emit, ClaimEvent
  <1>6. cc \in Maps(Claims, ClaimStates)
    BY <1>4, TypesGive DEF IInv
  <1>7. /\ DOMAIN cc \subseteq Claims /\ \A x \in DOMAIN cc : cc[x] \in ClaimStates
        /\ cc = [x \in DOMAIN cc |-> cc[x]]
    BY <1>6, MapFacts
  <1>8. old \in ClaimStates
    BY <1>1, <1>4, <1>5, <1>7
  <1>9. ev \in Evaluations /\ ev.claim = c
    BY <1>1, TypesGive DEF Evaluations, IInv
  <1>10. old.current \in Seq(Evaluations) /\ old.history \in Seq(Evaluations)
    <2>1. old.current = << >> \/ \E x \in Evaluations : old.current = <<x>>
      BY <1>8 DEF ClaimStates, Currents, None
    <2>2. << >> \in Seq(Evaluations) /\ \A x \in Evaluations : <<x>> \in Seq(Evaluations)
      OBVIOUS
    <2>3. old.history \in Seq(Evaluations)
      BY <1>8 DEF ClaimStates
    <2> QED
      BY <2>1, <2>2, <2>3
  <1>11. /\ claim \in ClaimStates /\ claim.current = <<ev>> /\ claim.current # None
         /\ claim.history = old.history \o old.current
    <2>1. old.history \o old.current \in Seq(Evaluations)
      BY <1>10
    <2>2. <<ev>> \in Currents /\ <<ev>> # None
      BY <1>9 DEF Currents, None
    <2> QED
      BY <1>2, <2>1, <2>2 DEF ClaimStates
  <1>12. All(claim) = All(old) \cup {ev}
    <2>1. PICK s, t : s = old.history /\ t = old.current
      OBVIOUS
    <2>2. s \in Seq(Evaluations) /\ t \in Seq(Evaluations)
      BY <1>10, <2>1
    <2>3. ToSet(s \o t) = ToSet(s) \cup ToSet(t)
      <3>1. ASSUME NEW i \in DOMAIN (s \o t) PROVE (s \o t)[i] \in ToSet(s) \cup ToSet(t)
        BY <2>2 DEF ToSet
      <3>2. ASSUME NEW i \in DOMAIN s PROVE s[i] \in ToSet(s \o t)
        <4>1. i \in DOMAIN (s \o t) /\ (s \o t)[i] = s[i]
          BY <2>2
        <4> QED
          BY <4>1 DEF ToSet
      <3>3. ASSUME NEW i \in DOMAIN t PROVE t[i] \in ToSet(s \o t)
        <4>1. Len(s) + i \in DOMAIN (s \o t) /\ (s \o t)[Len(s) + i] = t[i]
          BY <2>2
        <4> QED
          BY <4>1 DEF ToSet
      <3> QED
        BY <3>1, <3>2, <3>3 DEF ToSet
    <2>4. ToSet(<<ev>>) = {ev}
      BY AllOne
    <2> QED
      BY <1>11, <2>1, <2>3, <2>4 DEF All
  <1>13. /\ e \in ClaimEvents /\ e.type = "update" /\ e.claim = c
         /\ e.current = claim.current /\ e.history = claim.history
    BY <1>3, <1>11 DEF ClaimEvents, ClaimStates
  <1>14. /\ DOMAIN dc = DOMAIN cc /\ dc[c] = claim
         /\ \A x \in DOMAIN cc : x # c => dc[x] = cc[x]
    BY <1>4, <1>5
  <1>15. dc \in Maps(Claims, ClaimStates)
    <2>1. dc = [x \in DOMAIN dc |-> dc[x]]
      BY <1>4, <1>7
    <2>2. \A x \in DOMAIN dc : dc[x] \in ClaimStates
      BY <1>7, <1>11, <1>14
    <2> QED
      BY <1>7, <1>14, <2>1, <2>2, IsMap
  <1>16. \A x \in All(old) : x.claim = c
    BY <1>1, <1>4, <1>5 DEF IInv, Follows, ClaimsTold
  <1>17. ClaimMoves(e, cc, dc)
    <2>1. \A x : AboutClaim(e, x) => x = c
      BY <1>13 DEF AboutClaim
    <2>2. \A x \in All(dc[c]) : x.claim = c
      BY <1>9, <1>12, <1>14, <1>16
    <2>3. All(cc[c]) \subseteq All(dc[c]) /\ dc[c].current # None
      BY <1>1, <1>4, <1>11, <1>12, <1>14
    <2>4. \A x \in DOMAIN cc : ~ AboutClaim(e, x) => x # c
      BY <1>13 DEF AboutClaim
    <2> QED
      BY <1>5, <1>13, <1>14, <2>1, <2>2, <2>3, <2>4 DEF ClaimMoves
  <1> QED
    BY <1>3, <1>4, <1>5, <1>13, <1>15, <1>17, ClaimKeeps

\* ChainPays.
LEMMA PaysKeep ==
    ASSUME IInv, NEW c \in Claims, ChainPays(c)
    PROVE  IInv'
  <1>1. PICK claim : claim = chain.claim[c]
    OBVIOUS
  <1>2. PICK e : e = [type |-> "update", claim |-> c, current |-> claim.current,
                      history |-> claim.history]
    OBVIOUS
  <1>3. /\ c \in DOMAIN chain.claim
        /\ phase = "open" /\ messages < MaxMessages /\ messages' = messages + 1
        /\ events' = events \o <<e>>
        /\ UNCHANGED <<height, upgraded, phase, rows, migrated, fetching, replays>>
        /\ chain' = chain
    BY <1>1, <1>2 DEF ChainPays, Emit, ClaimEvent
  <1>4. /\ chain \in ChainStates /\ events \in Seq(Events)
        /\ height \in Nat /\ messages \in Nat /\ SnapshotWaits \in BOOLEAN
        /\ chain.claim \in Maps(Claims, ClaimStates)
    BY <1>3, TypesGive, OpenFollows DEF IInv
  <1>5. claim \in ClaimStates
    BY <1>1, <1>3, <1>4, MapFacts
  <1>6. /\ e \in ClaimEvents /\ e \in Events /\ e.type = "update" /\ e.claim = c
        /\ e.current = claim.current /\ e.history = claim.history
    BY <1>2, <1>5 DEF ClaimEvents, ClaimStates, Events
  <1>7. \A x \in All(claim) : x.claim = c
    BY <1>1, <1>3 DEF IInv, Follows, ClaimsTold
  <1>8. ClaimMoves(e, chain.claim, chain.claim)
    BY <1>1, <1>3, <1>6, <1>7 DEF ClaimMoves, AboutClaim
  <1>9. Follows(rows, 0, Append(events, e), chain, height, messages,
                SnapshotWaits, replays, upgraded)
    BY <1>3, <1>4, <1>6, <1>8, OpenFollows, FollowsClaim
  <1>10. Follows(rows, 0, Append(events, e), chain, height, messages + 1,
                 SnapshotWaits, replays, upgraded)
    BY <1>4, <1>9, FollowsLater
  <1>11. events' = Append(events, e) /\ events' \in Seq(Events)
    BY <1>3, <1>4, <1>6, AppendFacts
  <1> QED
    BY <1>3, <1>4, <1>10, <1>11, Emission

\* An event of a dispute.
LEMMA DisputeKeeps ==
    ASSUME IInv, NEW D \in SUBSET Disputes, NEW e \in DisputeEvents,
           phase = "open", messages < MaxMessages, messages' = messages + 1,
           events' = events \o <<e>>,
           UNCHANGED <<height, upgraded, phase, rows, migrated, fetching, replays>>,
           chain' = [chain EXCEPT !.dispute = D]
    PROVE  IInv'
  <1>1. /\ chain \in ChainStates /\ events \in Seq(Events)
        /\ height \in Nat /\ messages \in Nat /\ SnapshotWaits \in BOOLEAN
    BY TypesGive, OpenFollows DEF IInv
  <1>2. PICK dh : dh = chain'
    OBVIOUS
  <1>3. /\ dh \in ChainStates /\ dh.mirror = chain.mirror /\ dh.claim = chain.claim
        /\ dh.tx = chain.tx
    BY <1>1, <1>2 DEF ChainStates
  <1>4. e \in Events
    BY DEF Events
  <1>5. Follows(rows, 0, Append(events, e), dh, height, messages, SnapshotWaits, replays, upgraded)
    BY <1>1, <1>3, OpenFollows, FollowsDispute
  <1>6. Follows(rows, 0, Append(events, e), dh, height, messages + 1,
                SnapshotWaits, replays, upgraded)
    BY <1>1, <1>3, <1>5, FollowsLater
  <1>7. events' = Append(events, e) /\ events' \in Seq(Events)
    BY <1>1, <1>4, AppendFacts
  <1> QED
    BY <1>2, <1>3, <1>6, <1>7, Emission

\* ChainDisputes.
LEMMA DisputesKeep ==
    ASSUME IInv, NEW c \in Claims, NEW role \in Roles \cup {Legacy}, ChainDisputes(c, role)
    PROVE  IInv'
  <1>1. PICK d : d = [subject |-> c, role |-> role, no |-> Stamp, at |-> height,
                      status |-> "open", resolved |-> 0]
    OBVIOUS
  <1>2. PICK e : e = [type |-> "dispute", dispute |-> d]
    OBVIOUS
  <1>3. /\ phase = "open" /\ messages < MaxMessages /\ messages' = messages + 1
        /\ events' = events \o <<e>>
        /\ UNCHANGED <<height, upgraded, phase, rows, migrated, fetching, replays>>
        /\ chain' = [chain EXCEPT !.dispute = @ \cup {d}]
    BY <1>1, <1>2 DEF ChainDisputes, Emit
  <1>4. d \in Disputes
    <2>1. Stamp \in 1..MaxMessages /\ height \in 1..MaxHeight
      BY <1>3, StampTyped, TypesGive DEF IInv
    <2> QED
      BY <1>1, <2>1 DEF Disputes, DisputeStatus
  <1>5. e \in DisputeEvents
    BY <1>2, <1>4 DEF DisputeEvents
  <1>6. PICK D : D = chain.dispute \cup {d}
    OBVIOUS
  <1>7. D \in SUBSET Disputes /\ chain' = [chain EXCEPT !.dispute = D]
    BY <1>3, <1>4, <1>6, TypesGive DEF IInv
  <1> QED
    BY <1>3, <1>5, <1>7, DisputeKeeps

\* ChainResolves.
LEMMA ResolvesKeep ==
    ASSUME IInv, NEW d \in chain.dispute, NEW status \in {"awarded", "dismissed"},
           ChainResolves(d, status)
    PROVE  IInv'
  <1>1. PICK f : f = [d EXCEPT !.status = status, !.resolved = height]
    OBVIOUS
  <1>2. PICK e : e = [type |-> "resolve", dispute |-> f]
    OBVIOUS
  <1>3. /\ phase = "open" /\ messages < MaxMessages /\ messages' = messages + 1
        /\ events' = events \o <<e>>
        /\ UNCHANGED <<height, upgraded, phase, rows, migrated, fetching, replays>>
        /\ chain' = [chain EXCEPT !.dispute = (@ \ {d}) \cup {f}]
    BY <1>1, <1>2 DEF ChainResolves, Emit
  <1>4. f \in Disputes
    <2>1. d \in Disputes /\ height \in Nat
      BY TypesGive DEF IInv
    <2> QED
      BY <1>1, <2>1 DEF Disputes, DisputeStatus
  <1>5. e \in DisputeEvents
    BY <1>2, <1>4 DEF DisputeEvents
  <1>6. PICK D : D = (chain.dispute \ {d}) \cup {f}
    OBVIOUS
  <1>7. D \in SUBSET Disputes /\ chain' = [chain EXCEPT !.dispute = D]
    BY <1>3, <1>4, <1>6, TypesGive DEF IInv
  <1> QED
    BY <1>3, <1>5, <1>7, DisputeKeeps

\* ChainStakes.
LEMMA StakesKeep ==
    ASSUME IInv, NEW p \in Pools \cup {NoPool}, ChainStakes(p)
    PROVE  IInv'
  <1>1. PICK tx : tx = [no |-> Stamp, at |-> height, pool |-> p]
    OBVIOUS
  <1>2. PICK e : e = [type |-> "stake", tx |-> tx]
    OBVIOUS
  <1>3. /\ phase = "open" /\ messages < MaxMessages /\ messages' = messages + 1
        /\ events' = events \o <<e>>
        /\ UNCHANGED <<height, upgraded, phase, rows, migrated, fetching, replays>>
        /\ chain' = [chain EXCEPT !.tx = @ \cup {tx}]
        /\ IF Upgraded THEN p \in Pools \cap DOMAIN chain.mirror ELSE p = NoPool
    BY <1>1, <1>2 DEF ChainStakes, Emit
  <1>4. /\ chain \in ChainStates /\ events \in Seq(Events) /\ rows \in Tables
        /\ height \in Nat /\ messages \in Nat /\ SnapshotWaits \in BOOLEAN
        /\ UpgradeHeight \in Nat
    BY <1>3, TypesGive, OpenFollows DEF IInv
  <1>5. /\ tx \in Txs /\ tx.no = messages + 1 /\ tx.at = height
        /\ height < UpgradeHeight => tx.pool = NoPool
    <2>1. Stamp \in 1..MaxMessages /\ Stamp = messages + 1 /\ height \in 1..MaxHeight
      BY <1>3, StampTyped, TypesGive DEF IInv
    <2>2. height < UpgradeHeight => ~ Upgraded
      BY <1>4 DEF Upgraded
    <2> QED
      BY <1>1, <1>3, <2>1, <2>2 DEF Txs
  <1>6. PICK dh : dh = chain'
    OBVIOUS
  <1>7. /\ dh \in ChainStates /\ dh.mirror = chain.mirror /\ dh.claim = chain.claim
        /\ dh.tx = chain.tx \cup {tx}
    BY <1>3, <1>4, <1>5, <1>6 DEF ChainStates
  <1>8. e \in Events
    BY <1>2, <1>5 DEF Events, StakeEvents
  <1>9. Follows(rows, 0, Append(events, e), dh, height, messages + 1,
                SnapshotWaits, replays, upgraded)
    <2>1. Follows(rows, 0, events, chain, height, messages, SnapshotWaits, replays, upgraded)
      BY <1>3, OpenFollows
    <2> QED
      BY <1>2, <1>4, <1>5, <1>7, <2>1, FollowsStake
  <1>10. events' = Append(events, e) /\ events' \in Seq(Events)
    BY <1>3, <1>4, <1>8, AppendFacts
  <1> QED
    BY <1>2, <1>3, <1>6, <1>7, <1>9, <1>10, Emission

\* ChainEndsBlock.
LEMMA EndsBlockKeep ==
    ASSUME IInv, ChainEndsBlock
    PROVE  IInv'
  <1>0. height \in Nat /\ UpgradeHeight \in Nat /\ chain \in ChainStates /\ phase = "open"
    BY TypesGive DEF ChainEndsBlock, IInv, Types
  <1>1. Types'
    <2>1. upgraded' \in {<< >>} \cup {<<c>> : c \in ChainStates}
      BY DEF ChainEndsBlock, IInv, Types
    <2> QED
      BY <2>1 DEF ChainEndsBlock, IInv, Types
  <1>2. UpgradeSeen'
    <2>1. height > UpgradeHeight => height # UpgradeHeight
      BY <1>0
    <2>2. height < UpgradeHeight => height # UpgradeHeight
      BY <1>0
    <2> QED
      BY <2>1, <2>2 DEF ChainEndsBlock, IInv, UpgradeSeen, Upgraded
  <1>3. SnapshotWaits' = SnapshotWaits /\ Seen' = 0 /\ Seen = 0
    BY DEF ChainEndsBlock, SnapshotWaits, Upgraded, Seen
  <1>4. Follows(rows, Seen, events, chain, height, messages, SnapshotWaits, replays, upgraded)'
    <2>1. Follows(rows, 0, events, chain, height, messages, SnapshotWaits, replays, upgraded)
      BY <1>0, OpenFollows
    <2>2. CASE height = UpgradeHeight
      <3>1. upgraded = << >>
        BY <1>0, <2>2 DEF IInv, UpgradeSeen
      <3>2. PICK w, up : w = SnapshotWaits /\ up = <<chain>>
        OBVIOUS
      <3>3. Follows(rows, 0, events, chain, height, messages, w, replays, << >>)
        BY <2>1, <3>1, <3>2
      <3>4. MirrorSeen(rows.mirror, events, chain.mirror, 0, w, up)
        BY <3>3 DEF Follows, MirrorSeen, PutBack
      <3>5. MirrorDated(events, chain.mirror, height, up)
        <4>1. up[1] = chain
          BY <3>2
        <4> QED
          BY <3>3, <4>1 DEF Follows, MirrorDated
      <3>6. Follows(rows, 0, events, chain, height, messages, w, replays, up)
        BY <3>3, <3>4, <3>5 DEF Follows
      <3> QED
        BY <1>3, <2>2, <3>2, <3>6 DEF ChainEndsBlock
    <2>3. CASE height # UpgradeHeight
      BY <1>3, <2>1, <2>3 DEF ChainEndsBlock
    <2> QED
      BY <2>2, <2>3
  <1> QED
    BY <1>1, <1>2, <1>4 DEF IInv

\* What the upgrade makes of the chain.
LEMMA MigratedFacts ==
    ASSUME NEW ch \in ChainStates, NEW v, v = [no |-> 0, at |-> UpgradeHeight],
           UpgradeHeight <= MaxHeight
    PROVE  /\ Migrated(ch) \in ChainStates
           /\ Migrated(ch).claim = ch.claim
           /\ Migrated(ch).mirror = Put(ch.mirror, Zero, v)
           /\ Migrated(ch).tx = {[t EXCEPT !.pool = Zero] : t \in ch.tx}
  <1>1. Zero \in Pools /\ Zero \in Keys /\ v \in Versions
    BY ClaimsParameters DEF Keys, Versions
  <1>2. PICK m, D, T : /\ m = Put(ch.mirror, Zero, v)
                       /\ D = {IF d.status = "open" THEN [d EXCEPT !.status = "dismissed"] ELSE d
                                  : d \in ch.dispute}
                       /\ T = {[t EXCEPT !.pool = Zero] : t \in ch.tx}
    OBVIOUS
  <1>3. m \in Mirrors
    BY <1>1, <1>2, PutType DEF ChainStates, Mirrors
  <1>4. D \in SUBSET Disputes
    BY <1>2 DEF ChainStates, Disputes, DisputeStatus
  <1>5. T \in SUBSET Txs
    BY <1>1, <1>2 DEF ChainStates, Txs
  <1>6. Migrated(ch) = [ch EXCEPT !.mirror = m, !.dispute = D, !.tx = T]
    BY <1>2 DEF Migrated
  <1>7. PICK dh : dh = [ch EXCEPT !.mirror = m, !.dispute = D, !.tx = T]
    OBVIOUS
  <1>8. dh \in ChainStates /\ dh.claim = ch.claim /\ dh.mirror = m /\ dh.tx = T
    BY <1>3, <1>4, <1>5, <1>7 DEF ChainStates
  <1> QED
    BY <1>2, <1>6, <1>7, <1>8

\* The mirror when a block begins, ...
LEMMA MirrorBegin ==
    ASSUME NEW es, NEW cm, NEW m, NEW w \in BOOLEAN, NEW up,
           MirrorSeen(m, es, cm, Len(es), w, up)
    PROVE  MirrorSeen(m, << >>, cm, 0, w, up)
  <1>1. \A k \in Keys : ~ WholeAfter(es, Len(es), k)
    BY DEF WholeAfter
  <1> QED
    BY <1>1 DEF MirrorSeen

\* ... and when the block of the upgrade does.
LEMMA MirrorUpgrade ==
    ASSUME NEW es, NEW cm, NEW m, NEW v, MirrorSeen(m, es, cm, Len(es), FALSE, << >>)
    PROVE  MirrorSeen(m, << >>, Put(cm, Zero, v), 0, TRUE, << >>)
  <1>1. \A k \in Keys : ~ WholeAfter(es, Len(es), k)
    BY DEF WholeAfter
  <1>2. \A k \in Keys : Agree(m, cm, k)
    BY <1>1 DEF MirrorSeen, PutBack
  <1>3. PICK dm : dm = Put(cm, Zero, v)
    OBVIOUS
  <1>4. DOMAIN dm = DOMAIN cm \cup {Zero} /\ \A x \in DOMAIN cm : x # Zero => dm[x] = cm[x]
    BY <1>3 DEF Put
  <1>5. MirrorSeen(m, << >>, dm, 0, TRUE, << >>)
    BY <1>2, <1>4 DEF MirrorSeen, Agree
  <1> QED
    BY <1>3, <1>5

\* Nothing is written yet when a block begins.
LEMMA DatedBegin ==
    ASSUME NEW ch \in ChainStates, NEW es, NEW h \in Nat, NEW up,
           MirrorDated(es, ch.mirror, h, up)
    PROVE  MirrorDated(<< >>, ch.mirror, h + 1, up)
  <1>1. \A k \in DOMAIN ch.mirror : ch.mirror[k].at \in Nat
    BY MirrorKeys, ClaimsParameters DEF Versions
  <1>2. \A k \in DOMAIN ch.mirror : ch.mirror[k].at <= h + 1 /\ ch.mirror[k].at # h + 1
    BY <1>1 DEF MirrorDated
  <1> QED
    BY <1>2 DEF MirrorDated

\* ChainBeginsBlock, that of the upgrade included.
LEMMA BeginsBlockKeep ==
    ASSUME IInv, ChainBeginsBlock
    PROVE  IInv'
  <1>0. /\ chain \in ChainStates /\ events \in Seq(Events) /\ rows \in Tables
        /\ height \in Nat /\ messages \in Nat /\ MaxHeight \in Nat /\ UpgradeHeight \in Nat
        /\ KnownFrom \in Nat /\ chain.tx \in SUBSET Txs /\ rows.tx \in SUBSET TxRows
        /\ SnapshotWaits \in BOOLEAN
    BY TypesGive DEF IInv, Types, Tables
  <1>1. /\ phase = "done" /\ height < MaxHeight /\ phase' = "open" /\ height' = height + 1
        /\ events' = << >>
        /\ chain' = IF height + 1 = UpgradeHeight THEN Migrated(chain) ELSE chain
        /\ UNCHANGED <<messages, upgraded, rows, migrated, fetching, replays>>
    BY DEF ChainBeginsBlock
  <1>2. chain' \in ChainStates
    <2>1. CASE height + 1 = UpgradeHeight
      <3>1. UpgradeHeight <= MaxHeight
        BY <1>0, <1>1, <2>1
      <3> QED
        BY <1>0, <1>1, <2>1, <3>1, MigratedFacts
    <2>2. CASE height + 1 # UpgradeHeight
      BY <1>0, <1>1, <2>2
    <2> QED
      BY <2>1, <2>2
  <1>3. Types'
    <2>1. height' \in 1..MaxHeight
      BY <1>0, <1>1
    <2>2. events' \in Seq(Events)
      BY <1>1
    <2>3. replays' \in SUBSET (1..height') /\ (height' \in replays' => phase' = "done")
      <3>1. replays \in SUBSET (1..height)
        BY DEF IInv, Types
      <3>2. 1..height \subseteq 1..(height + 1) /\ height + 1 \notin 1..height
        BY <1>0
      <3> QED
        BY <1>1, <3>1, <3>2
    <2> QED
      BY <1>1, <1>2, <2>1, <2>2, <2>3 DEF IInv, Types
  <1>4. UpgradeSeen'
    <2>1. height > UpgradeHeight => upgraded # << >>
      BY DEF IInv, UpgradeSeen
    <2>2. height = UpgradeHeight => upgraded # << >>
      <3>1. <<chain>> # << >>
        OBVIOUS
      <3> QED
        BY <1>1, <3>1 DEF IInv, UpgradeSeen
    <2>3. height' > UpgradeHeight => upgraded' # << >>
      BY <1>0, <1>1, <2>1, <2>2
    <2>4. Upgraded' /\ ~ migrated' => height' = UpgradeHeight \/ height' <= KnownFrom
      BY <1>0, <1>1 DEF IInv, UpgradeSeen, Upgraded
    <2>5. migrated' => Upgraded'
      BY <1>0, <1>1 DEF IInv, UpgradeSeen, Upgraded
    <2>6. height' < UpgradeHeight \/ height' = UpgradeHeight => upgraded' = << >>
      <3>1. height' <= UpgradeHeight => height < UpgradeHeight
        BY <1>0, <1>1
      <3>2. height < UpgradeHeight => upgraded = << >>
        BY DEF IInv, UpgradeSeen
      <3> QED
        BY <1>0, <1>1, <3>1, <3>2
    <2>7. phase' = "open" /\ phase' # "done"
      BY <1>1
    <2> QED
      BY <2>3, <2>4, <2>5, <2>6, <2>7 DEF UpgradeSeen
  <1>5. Follows(rows, Len(events), events, chain, height, messages,
                SnapshotWaits, replays, upgraded)
    BY <1>1 DEF IInv, Seen
  <1>6. PICK dh, v, b, up : /\ up = upgraded /\ dh = chain' /\ b = height + 1
                            /\ v \in BOOLEAN /\ v = SnapshotWaits'
    BY DEF SnapshotWaits, Upgraded
  <1>7. Follows(rows, 0, << >>, dh, b, messages, v, replays, up)
    <2>1. CASE height + 1 = UpgradeHeight
      <3>1. ~ Upgraded /\ ~ migrated
        BY <1>0, <2>1 DEF IInv, UpgradeSeen, Upgraded
      <3>2. SnapshotWaits = FALSE /\ v = TRUE
        <4>1. SnapshotWaits = FALSE
          BY <3>1 DEF SnapshotWaits
        <4>2. height' >= UpgradeHeight
          BY <1>0, <1>1, <2>1
        <4>3. SnapshotWaits'
          BY <1>1, <3>1, <4>2 DEF SnapshotWaits, Upgraded
        <4> QED
          BY <1>6, <4>1, <4>3
      <3>3. PICK n : n = [no |-> 0, at |-> UpgradeHeight]
        OBVIOUS
      <3>4. /\ dh.claim = chain.claim /\ dh.mirror = Put(chain.mirror, Zero, n)
            /\ dh.tx = {[t EXCEPT !.pool = Zero] : t \in chain.tx}
        <4>1. UpgradeHeight <= MaxHeight
          BY <1>0, <1>1, <2>1
        <4> QED
          BY <1>0, <1>1, <1>6, <2>1, <3>3, <4>1, MigratedFacts
      <3>5. up = << >>
        <4>1. height < UpgradeHeight
          BY <1>0, <2>1
        <4> QED
          BY <1>6, <4>1 DEF IInv, UpgradeSeen
      <3>6. Follows(rows, Len(events), events, chain, height, messages, FALSE, replays, << >>)
        BY <1>5, <1>6, <3>2, <3>5
      <3>7. MirrorTold(<< >>, dh.mirror)
        BY DEF MirrorTold
      <3>8. MirrorSeen(rows.mirror, << >>, dh.mirror, 0, TRUE, << >>)
        <4>1. PICK cm, m : cm = chain.mirror /\ m = rows.mirror
          OBVIOUS
        <4>2. MirrorSeen(m, events, cm, Len(events), FALSE, << >>)
          BY <3>6, <4>1 DEF Follows
        <4>3. MirrorSeen(m, << >>, Put(cm, Zero, n), 0, TRUE, << >>)
          BY <4>2, MirrorUpgrade
        <4> QED
          BY <3>4, <4>1, <4>3
      <3>9. MirrorDated(<< >>, dh.mirror, b, << >>)
        <4>1. PICK cm, dm : cm = chain.mirror /\ dm = Put(cm, Zero, n)
          OBVIOUS
        <4>2. \A k \in DOMAIN cm : cm[k].at \in Nat /\ cm[k].at <= height
          <5>1. \A k \in DOMAIN cm : cm[k].at \in Nat
            BY <1>0, <4>1, MirrorKeys DEF Versions
          <5> QED
            BY <3>6, <4>1, <5>1 DEF Follows, MirrorDated
        <4>3. /\ DOMAIN dm = DOMAIN cm \cup {Zero} /\ dm[Zero] = n
              /\ \A x \in DOMAIN cm : x # Zero => dm[x] = cm[x]
          BY <4>1 DEF Put
        <4>4. n.at = UpgradeHeight /\ b = UpgradeHeight /\ ~ (b > UpgradeHeight)
          BY <1>0, <1>6, <2>1, <3>3
        <4>5. \A k \in DOMAIN dm : dm[k].at <= b
          BY <1>0, <1>6, <4>2, <4>3, <4>4
        <4>6. MirrorDated(<< >>, dm, b, << >>)
          BY <4>4, <4>5 DEF MirrorDated
        <4> QED
          BY <3>4, <4>1, <4>6
      <3>10. ClaimsTold(<< >>, dh.claim) /\ ClaimsSeen(rows, << >>, dh.claim, 0)
        BY <1>0, <3>4, <3>6, ClaimsBegin DEF Follows
      <3>11. StakesTold(<< >>, dh.tx, b, messages) /\ StakesSeen(rows.tx, << >>, dh.tx, 0, TRUE, b, replays)
        <4>1. PICK ct, dt : ct = chain.tx /\ dt = {[t EXCEPT !.pool = Zero] : t \in ct}
          OBVIOUS
        <4>2. /\ ct \in SUBSET Txs /\ dh.tx = dt
              /\ StakesTold(events, ct, height, messages)
              /\ StakesSeen(rows.tx, events, ct, Len(events), FALSE, height, replays)
          BY <1>0, <3>4, <3>6, <4>1 DEF Follows
        <4>3. /\ StakesTold(<< >>, dt, height + 1, messages)
              /\ StakesSeen(rows.tx, << >>, dt, 0, TRUE, height + 1, replays)
          BY <1>0, <2>1, <4>1, <4>2, StakesUpgrade
        <4> QED
          BY <1>6, <4>2, <4>3
      <3> QED
        BY <3>2, <3>7, <3>8, <3>10, <3>11, <3>5, <3>9 DEF Follows
    <2>2. CASE height + 1 # UpgradeHeight
      <3>1. dh = chain
        BY <1>1, <1>6, <2>2
      <3>2. v = SnapshotWaits
        <4>1. height + 1 >= UpgradeHeight <=> height >= UpgradeHeight
          BY <1>0, <2>2
        <4> QED
          BY <1>1, <1>6, <4>1 DEF SnapshotWaits, Upgraded
      <3>3. Follows(rows, Len(events), events, dh, height, messages, v, replays, up)
        BY <1>5, <1>6, <3>1, <3>2
      <3>4. MirrorDated(<< >>, dh.mirror, b, up)
        BY <1>0, <1>6, <3>1, <3>3, DatedBegin DEF Follows
      <3>5. MirrorTold(<< >>, dh.mirror)
        BY DEF MirrorTold
      <3>6. MirrorSeen(rows.mirror, << >>, dh.mirror, 0, v, up)
        BY <1>6, <3>3, MirrorBegin DEF Follows
      <3>7. ClaimsTold(<< >>, dh.claim) /\ ClaimsSeen(rows, << >>, dh.claim, 0)
        BY <1>0, <3>3, ClaimsBegin DEF Follows
      <3>8. StakesTold(<< >>, dh.tx, b, messages) /\ StakesSeen(rows.tx, << >>, dh.tx, 0, v, b, replays)
        <4>1. PICK ct : ct = dh.tx
          OBVIOUS
        <4>2. /\ ct \in SUBSET Txs
              /\ StakesTold(events, ct, height, messages)
              /\ StakesSeen(rows.tx, events, ct, Len(events), v, height, replays)
          BY <1>0, <3>1, <3>3, <4>1 DEF Follows
        <4>3. /\ StakesTold(<< >>, ct, height + 1, messages)
              /\ StakesSeen(rows.tx, << >>, ct, 0, v, height + 1, replays)
          BY <1>0, <2>2, <4>2, StakesBegin
        <4> QED
          BY <1>6, <4>1, <4>3
      <3> QED
        BY <3>4, <3>5, <3>6, <3>7, <3>8 DEF Follows
    <2> QED
      BY <2>1, <2>2
  <1>8. Follows(rows, Seen, events, chain, height, messages, SnapshotWaits, replays, upgraded)'
    <2>1. Seen' = 0
      BY <1>1 DEF Seen
    <2> QED
      BY <1>1, <1>6, <1>7, <2>1
  <1> QED
    BY <1>3, <1>4, <1>8 DEF IInv

----------------------------------------------------------------------------
(* The invariant: the snapshot, the sync loop and the cron.                 *)

\* The row of a collection or pool is the answer's.
PutOver(f, a, k) ==
    k \in Collections \cup Pools /\ k \in DOMAIN a /\ k \in DOMAIN f /\ f[k] = a[k]

\* Each row of the mirror is the answer's or stays; the new pool is there then.
LEMMA RefreshedFacts ==
    ASSUME NEW m \in Mirrors, NEW asked \in SUBSET Collections, NEW c \in ChainStates,
           upgraded = <<c>>
    PROVE  /\ Refreshed(m, asked) \in Mirrors
           /\ \A k \in Keys : \/ PutOver(Refreshed(m, asked), c.mirror, k)
                             \/ Agree(Refreshed(m, asked), m, k)
           /\ Zero \in DOMAIN c.mirror => PutOver(Refreshed(m, asked), c.mirror, Zero)
  <1>1. PICK a, written : a = c.mirror /\ written = DOMAIN a \cap (Pools \cup asked)
    OBVIOUS
  <1>2. upgraded[1].mirror = a
    BY <1>1
  <1>3. PICK f : f = Refreshed(m, asked)
    OBVIOUS
  <1>4. f = [k \in DOMAIN m \cup written |-> IF k \in written THEN a[k] ELSE m[k]]
    BY <1>1, <1>2, <1>3 DEF Refreshed
  <1>5. /\ DOMAIN m \subseteq Keys /\ \A k \in DOMAIN m : m[k] \in Versions
        /\ DOMAIN a \subseteq Keys /\ \A k \in DOMAIN a : a[k] \in Versions
    <2>1. m \in Maps(Keys, Versions) /\ a \in Maps(Keys, Versions)
      BY <1>1 DEF Mirrors, ChainStates
    <2> QED
      BY ONLY <2>1, MapFacts
  <1>6. /\ DOMAIN f = DOMAIN m \cup written /\ f = [k \in DOMAIN f |-> f[k]]
        /\ \A k \in DOMAIN f : f[k] = IF k \in written THEN a[k] ELSE m[k]
    BY <1>4
  <1>7. DOMAIN f \subseteq Keys /\ \A k \in DOMAIN f : f[k] \in Versions
    BY <1>1, <1>5, <1>6
  <1>8. f \in Mirrors
    BY <1>6, <1>7, IsMap DEF Mirrors
  <1>9. \A k \in Keys : PutOver(f, a, k) \/ Agree(f, m, k)
    BY <1>1, <1>6 DEF Agree, PutOver
  <1>10. Zero \in DOMAIN a => PutOver(f, a, Zero)
    BY <1>1, <1>6, ClaimsParameters DEF PutOver
  <1> QED
    BY <1>1, <1>3, <1>8, <1>9, <1>10

\* Dismissing keeps a row for each dispute.
LEMMA DismissFacts ==
    ASSUME NEW D \in SUBSET DisputeRows, IsFiniteSet(D)
    PROVE  /\ DismissLegacyDisputes(D) \in SUBSET DisputeRows
           /\ IsFiniteSet(DismissLegacyDisputes(D))
           /\ \A d \in D : \E x \in DismissLegacyDisputes(D) : x.id = d.id
  <1> DEFINE f(d) == IF d.status = "open" /\ d.role = Legacy THEN [d EXCEPT !.status = "dismissed"]
                     ELSE d
  <1>1. DismissLegacyDisputes(D) = {f(d) : d \in D}
    BY DEF DismissLegacyDisputes
  <1>2. \A d \in D : f(d) \in DisputeRows /\ f(d).id = d.id
    BY DEF DisputeRows, DisputeStatus
  <1>3. PICK g : g = [d \in D |-> f(d)]
    OBVIOUS
  <1> HIDE DEF f
  <1>4. \A d \in D : g[d] = f(d)
    BY <1>3
  <1>5. IsFiniteSet({f(d) : d \in D})
    <2>1. g \in Surjection(D, {f(d) : d \in D})
      BY <1>3, <1>4 DEF Surjection
    <2> QED
      BY <2>1, FS_Surjection
  <1> QED
    BY <1>1, <1>2, <1>5

\* Relinking keeps the types.
LEMMA RelinkFacts ==
    ASSUME NEW T \in SUBSET TxRows, IsFiniteSet(T)
    PROVE  RelinkLegacyTx(T) \in SUBSET TxRows /\ IsFiniteSet(RelinkLegacyTx(T))
  <1>1. RelinkLegacyTx(T) = {Relinked(t) : t \in T}
    BY RelinkIs
  <1>2. \A t \in T : Relinked(t) \in TxRows
    BY RelinkedFacts
  <1>3. PICK g : g = [t \in T |-> Relinked(t)]
    OBVIOUS
  <1>4. IsFiniteSet({Relinked(t) : t \in T})
    <2>1. g \in Surjection(T, {Relinked(t) : t \in T})
      BY <1>3 DEF Surjection
    <2> QED
      BY <2>1, FS_Surjection
  <1> QED
    BY <1>1, <1>2, <1>4

\* The snapshot puts back what events wrote between the upgrade and the block at
\* hand, which is the first one that knows the upgrade, and nothing else.
LEMMA MirrorRefresh ==
    ASSUME NEW es, NEW ch \in ChainStates, NEW m, NEW f, NEW h \in Nat, NEW c, NEW up, up = <<c>>,
           MirrorSeen(m, es, ch.mirror, 0, TRUE, up), MirrorDated(es, ch.mirror, h, up),
           h = UpgradeHeight \/ h <= KnownFrom,
           \A k \in Keys : PutOver(f, c.mirror, k) \/ Agree(f, m, k),
           Zero \in DOMAIN c.mirror => PutOver(f, c.mirror, Zero)
    PROVE  MirrorSeen(f, es, ch.mirror, 0, FALSE, up)
  <1>1. PICK cm, a : cm = ch.mirror /\ a = c.mirror
    OBVIOUS
  <1>2. up # << >> /\ up[1].mirror = a
    BY <1>1
  <1> SUFFICES ASSUME NEW k \in Keys, ~ WholeAfter(es, 0, k)
               PROVE  Agree(f, cm, k) \/ PutBack(f, cm, k, up)
    BY <1>1 DEF MirrorSeen
  <1>3. CASE PutOver(f, a, k)
    <2>1. /\ k \in Collections \cup Pools /\ k \in DOMAIN a /\ k \in DOMAIN f /\ f[k] = a[k]
          /\ k \in DOMAIN cm /\ (cm[k] = a[k] \/ cm[k].at > UpgradeHeight)
      BY <1>1, <1>2, <1>3 DEF PutOver, MirrorDated
    <2>2. CASE cm[k] = a[k]
      BY <2>1, <2>2 DEF Agree
    <2>3. CASE cm[k].at > UpgradeHeight
      <3>1. /\ cm[k].at \in Nat /\ cm[k].at <= h /\ UpgradeHeight \in Nat /\ KnownFrom \in Nat
            /\ h > UpgradeHeight => cm[k].at # h
        <4>1. cm[k].at \in Nat
          BY <1>1, <2>1, MirrorKeys, ClaimsParameters DEF Versions
        <4> QED
          BY <1>1, <2>1, <4>1, ClaimsParameters DEF MirrorDated
      <3>2. UpgradeHeight < cm[k].at /\ cm[k].at < KnownFrom
        BY <2>3, <3>1
      <3> QED
        BY <1>2, <2>1, <3>2 DEF PutBack
    <2> QED
      BY <2>1, <2>2, <2>3
  <1>4. CASE ~ PutOver(f, a, k)
    <2>1. Agree(f, m, k)
      BY <1>1, <1>4
    <2>2. ~ (k = Zero /\ k \in DOMAIN cm)
      BY <1>1, <1>2, <1>4 DEF MirrorDated
    <2>3. Agree(m, cm, k) \/ PutBack(m, cm, k, up)
      BY <1>1, <2>2 DEF MirrorSeen
    <2> QED
      BY <2>1, <2>3 DEF Agree, PutBack
  <1> QED
    BY <1>3, <1>4

\* TakeSnapshot.
LEMMA SnapshotKeep ==
    ASSUME IInv, TakeSnapshot
    PROVE  IInv'
  <1>0. /\ chain \in ChainStates /\ events \in Seq(Events) /\ rows \in Tables
        /\ height \in Nat /\ UpgradeHeight \in Nat /\ KnownFrom \in Nat
        /\ IsFiniteSet(rows.dispute) /\ IsFiniteSet(rows.tx) /\ Resolved(rows)
        /\ rows.mirror \in Mirrors /\ rows.dispute \in SUBSET DisputeRows
        /\ rows.tx \in SUBSET TxRows /\ rows.resolution \in SUBSET Nat
    BY TypesGive DEF IInv, Types, IsTables, Tables
  <1>1. PICK asked \in SUBSET Collections :
          rows' = [rows EXCEPT !.mirror = Refreshed(@, asked),
                               !.dispute = DismissLegacyDisputes(@),
                               !.tx = RelinkLegacyTx(@)]
    BY DEF TakeSnapshot
  <1>2. /\ phase = "due" /\ height >= UpgradeHeight /\ height >= KnownFrom /\ ~ migrated
        /\ migrated' /\ migrated' = TRUE
        /\ UNCHANGED <<height, events, messages, chain, upgraded, phase, fetching, replays>>
    BY DEF TakeSnapshot, SnapshotDue, chainVars
  <1>3. upgraded # << >> /\ (height = UpgradeHeight => upgraded = <<chain>>)
    <2>1. height = UpgradeHeight => upgraded = <<chain>>
      BY <1>2 DEF IInv, UpgradeSeen
    <2>2. height > UpgradeHeight => upgraded # << >>
      BY DEF IInv, UpgradeSeen
    <2>3. <<chain>> # << >>
      OBVIOUS
    <2>4. height = UpgradeHeight \/ height > UpgradeHeight
      BY <1>0, <1>2
    <2> QED
      BY <2>1, <2>2, <2>3, <2>4
  <1>4. PICK c \in ChainStates : upgraded = <<c>>
    BY <1>3 DEF IInv, Types
  <1>5. PICK m, D, T, q : /\ m = Refreshed(rows.mirror, asked)
                          /\ D = DismissLegacyDisputes(rows.dispute)
                          /\ T = RelinkLegacyTx(rows.tx)
                          /\ q = rows'
    OBVIOUS
  <1>6. /\ m \in Mirrors
        /\ \A k \in Keys : PutOver(m, c.mirror, k) \/ Agree(m, rows.mirror, k)
        /\ Zero \in DOMAIN c.mirror => PutOver(m, c.mirror, Zero)
    BY <1>0, <1>1, <1>4, <1>5, RefreshedFacts
  <1>7. /\ D \in SUBSET DisputeRows /\ IsFiniteSet(D)
        /\ \A d \in rows.dispute : \E x \in D : x.id = d.id
    BY <1>0, <1>5, DismissFacts
  <1>8. T \in SUBSET TxRows /\ IsFiniteSet(T)
    BY <1>0, <1>5, RelinkFacts
  <1>9. q = [rows EXCEPT !.mirror = m, !.dispute = D, !.tx = T]
    BY <1>1, <1>5
  <1>10. /\ q \in Tables /\ q.mirror = m /\ q.dispute = D /\ q.tx = T
         /\ q.claim = rows.claim /\ q.evaluation = rows.evaluation
         /\ q.resolution = rows.resolution
    BY <1>0, <1>6, <1>7, <1>8, <1>9 DEF Tables
  <1>11. Resolved(q)
    <2>1. \A d \in rows.dispute : d.id \in {x.id : x \in D}
      BY <1>7
    <2>2. rows.resolution \subseteq {d.id : d \in rows.dispute}
      BY <1>0 DEF Resolved
    <2>3. rows.resolution \subseteq {x.id : x \in D}
      BY <2>1, <2>2
    <2> QED
      BY <1>10, <2>3 DEF Resolved
  <1>12. IsTables(q)
    BY <1>7, <1>8, <1>10, <1>11 DEF IsTables
  <1>13. Types'
    <2>1. IsTables(rows') /\ fetching' \in SUBSET DOMAIN rows'.claim
      BY <1>2, <1>5, <1>10, <1>12 DEF IInv, Types
    <2> QED
      BY <1>2, <2>1 DEF IInv, Types
  <1>14. UpgradeSeen'
    <2>1. Upgraded /\ Upgraded'
      BY <1>2 DEF Upgraded
    <2> QED
      BY <1>2, <2>1 DEF IInv, UpgradeSeen
  <1>15. SnapshotWaits = TRUE /\ SnapshotWaits' = FALSE /\ Seen = 0 /\ Seen' = 0
    <2>1. Upgraded
      BY <1>2 DEF Upgraded
    <2>2. phase # "done" /\ phase' # "done"
      BY <1>2
    <2> QED
      BY <1>2, <2>1, <2>2 DEF SnapshotWaits, Seen
  <1>16. Follows(rows, 0, events, chain, height, messages, TRUE, replays, upgraded)
    BY <1>15 DEF IInv
  <1>17. MirrorSeen(q.mirror, events, chain.mirror, 0, FALSE, upgraded)
    <2>1. height = UpgradeHeight \/ height <= KnownFrom
      BY <1>2 DEF IInv, UpgradeSeen, Upgraded
    <2>2. PICK up, n : up = upgraded /\ n = rows.mirror
      OBVIOUS
    <2>3. /\ MirrorSeen(n, events, chain.mirror, 0, TRUE, up)
          /\ MirrorDated(events, chain.mirror, height, up)
      BY <1>16, <2>2 DEF Follows
    <2>4. /\ up = <<c>> /\ \A k \in Keys : PutOver(m, c.mirror, k) \/ Agree(m, n, k)
          /\ Zero \in DOMAIN c.mirror => PutOver(m, c.mirror, Zero)
      BY <1>4, <1>6, <2>2
    <2>5. MirrorSeen(m, events, chain.mirror, 0, FALSE, up)
      BY <1>0, <2>1, <2>3, <2>4, MirrorRefresh
    <2> QED
      BY <1>10, <2>2, <2>5
  <1>18. ClaimsSeen(q, events, chain.claim, 0)
    BY <1>10, <1>16, ClaimsSame DEF Follows
  <1>19. StakesSeen(q.tx, events, chain.tx, 0, FALSE, height, replays)
    BY <1>0, <1>5, <1>10, <1>16, StakesSettle DEF Follows
  <1>20. Follows(q, 0, events, chain, height, messages, FALSE, replays, upgraded)
    BY <1>16, <1>17, <1>18, <1>19 DEF Follows
  <1>21. Follows(rows, Seen, events, chain, height, messages, SnapshotWaits, replays, upgraded)'
    BY <1>2, <1>5, <1>15, <1>20
  <1> QED
    BY <1>13, <1>14, <1>21 DEF IInv

\* IndexBlock.
LEMMA IndexKeep ==
    ASSUME IInv, IndexBlock
    PROVE  IInv'
  <1>0. /\ chain \in ChainStates /\ events \in Seq(Events) /\ IsTables(rows)
        /\ height \in Nat /\ UpgradeHeight \in Nat /\ KnownFrom \in Nat
        /\ SnapshotWaits \in BOOLEAN /\ (SnapshotWaits => height >= UpgradeHeight)
    BY TypesGive DEF IInv, Types
  <1>1. /\ phase = "due" /\ ~ SnapshotDue /\ rows' = Handled(rows) /\ phase' = "done"
        /\ UNCHANGED <<height, events, messages, chain, upgraded, migrated, fetching, replays>>
    BY DEF IndexBlock, chainVars
  <1>2. Seen = 0 /\ Seen' = Len(events)
    BY <1>1 DEF Seen
  <1>3. Follows(rows, 0, events, chain, height, messages, SnapshotWaits, replays, upgraded)
    BY <1>2 DEF IInv
  <1>4. PICK q : q = Handled(rows)
    OBVIOUS
  <1>5. /\ IsTables(q) /\ DOMAIN rows.claim \subseteq DOMAIN q.claim
        /\ Follows(q, Len(events), events, chain, height, messages,
                   SnapshotWaits, replays, upgraded)
    BY <1>0, <1>3, <1>4, FollowsBlock
  <1>6. Types'
    <2>1. IsTables(rows') /\ fetching' \in SUBSET DOMAIN rows'.claim
      BY <1>1, <1>4, <1>5 DEF IInv, Types
    <2> QED
      BY <1>1, <2>1 DEF IInv, Types
  <1>7. UpgradeSeen'
    <2>1. Upgraded /\ ~ migrated => height < KnownFrom
      BY <1>0, <1>1 DEF SnapshotDue, Upgraded
    <2>2. height = UpgradeHeight => upgraded = <<chain>>
      BY <1>1 DEF IInv, UpgradeSeen
    <2>3. Upgraded' = Upgraded
      BY <1>1 DEF Upgraded
    <2> QED
      BY <1>1, <2>1, <2>2, <2>3 DEF IInv, UpgradeSeen
  <1>8. SnapshotWaits' = SnapshotWaits
    BY <1>1 DEF SnapshotWaits, Upgraded
  <1>9. Follows(rows, Seen, events, chain, height, messages, SnapshotWaits, replays, upgraded)'
    BY <1>1, <1>2, <1>4, <1>5, <1>8
  <1> QED
    BY <1>6, <1>7, <1>9 DEF IInv

\* Replay.
LEMMA ReplayKeep ==
    ASSUME IInv, Replay
    PROVE  IInv'
  <1>0. /\ chain \in ChainStates /\ events \in Seq(Events) /\ IsTables(rows)
        /\ height \in Nat /\ height >= 1 /\ UpgradeHeight \in Nat
        /\ SnapshotWaits \in BOOLEAN /\ (SnapshotWaits => height >= UpgradeHeight)
    BY TypesGive DEF IInv, Types
  <1>1. /\ phase = "done" /\ rows' = Handled(rows) /\ replays' = replays \cup {height}
        /\ UNCHANGED <<height, events, messages, chain, upgraded, phase, migrated, fetching>>
    BY DEF Replay, chainVars
  <1>2. Seen = Len(events) /\ Seen' = Len(events)
    BY <1>1 DEF Seen
  <1>3. Follows(rows, 0, events, chain, height, messages,
                SnapshotWaits, replays \cup {height}, upgraded)
    BY <1>0, <1>2, FollowsAgain DEF IInv
  <1>4. PICK q, reps : q = Handled(rows) /\ reps = replays \cup {height}
    OBVIOUS
  <1>5. /\ IsTables(q) /\ DOMAIN rows.claim \subseteq DOMAIN q.claim
        /\ Follows(q, Len(events), events, chain, height, messages, SnapshotWaits, reps, upgraded)
    BY <1>0, <1>3, <1>4, FollowsBlock
  <1>6. Types'
    <2>1. IsTables(rows') /\ fetching' \in SUBSET DOMAIN rows'.claim
      BY <1>1, <1>4, <1>5 DEF IInv, Types
    <2>2. replays' \in SUBSET (1..height')
      BY <1>0, <1>1 DEF IInv, Types
    <2> QED
      BY <1>1, <2>1, <2>2 DEF IInv, Types
  <1>7. UpgradeSeen'
    <2>1. Upgraded' = Upgraded
      BY <1>1 DEF Upgraded
    <2> QED
      BY <1>1, <2>1 DEF IInv, UpgradeSeen
  <1>8. SnapshotWaits' = SnapshotWaits
    BY <1>1 DEF SnapshotWaits, Upgraded
  <1>9. Follows(rows, Seen, events, chain, height, messages, SnapshotWaits, replays, upgraded)'
    BY <1>1, <1>2, <1>4, <1>5, <1>8
  <1> QED
    BY <1>6, <1>7, <1>9 DEF IInv

\* The cron asks or gets an error: only `fetching` changes.
LEMMA FetchingKeep ==
    ASSUME IInv, fetching' \in SUBSET DOMAIN rows.claim,
           UNCHANGED <<height, events, messages, chain, upgraded, phase, rows, migrated, replays>>
    PROVE  IInv'
  <1>1. Types'
    BY DEF IInv, Types
  <1>2. UpgradeSeen'
    BY DEF IInv, UpgradeSeen, Upgraded
  <1>3. SnapshotWaits' = SnapshotWaits /\ Seen' = Seen
    BY DEF SnapshotWaits, Upgraded, Seen
  <1>4. Follows(rows, Seen, events, chain, height, messages, SnapshotWaits, replays, upgraded)'
    BY <1>3 DEF IInv
  <1> QED
    BY <1>1, <1>2, <1>4 DEF IInv

\* CronFills: the pointer of the claim stays.
LEMMA FillsKeep ==
    ASSUME IInv, NEW c \in Claims, CronFills(c)
    PROVE  IInv'
  <1>0. IsTables(rows) /\ rows \in Tables /\ fetching \in SUBSET DOMAIN rows.claim
    BY DEF IInv, Types, IsTables
  <1>1. /\ c \in fetching /\ rows' = [rows EXCEPT !.claim[c].typed = TRUE]
        /\ fetching' = fetching \ {c}
        /\ UNCHANGED <<height, events, messages, chain, upgraded, phase, migrated, replays>>
    BY DEF CronFills, chainVars
  <1>2. PICK f, g, q : f = rows.claim /\ g = [f EXCEPT ![c].typed = TRUE] /\ q = rows'
    OBVIOUS
  <1>3. q = [rows EXCEPT !.claim = g]
    BY <1>0, <1>1, <1>2 DEF Tables
  <1>4. f \in Maps(Claims, ClaimRows)
    BY <1>0, <1>2 DEF Tables
  <1>5. /\ DOMAIN f \subseteq Claims /\ \A x \in DOMAIN f : f[x] \in ClaimRows
        /\ f = [x \in DOMAIN f |-> f[x]]
    BY <1>4, MapFacts
  <1>6. /\ DOMAIN g = DOMAIN f /\ g = [x \in DOMAIN g |-> g[x]]
        /\ \A x \in DOMAIN f : g[x] \in ClaimRows /\ g[x].current = f[x].current
    <2>1. DOMAIN g = DOMAIN f /\ g = [x \in DOMAIN g |-> g[x]]
      BY <1>2, <1>5
    <2>2. ASSUME NEW x \in DOMAIN f PROVE g[x] \in ClaimRows /\ g[x].current = f[x].current
      <3>1. CASE x = c
        BY <1>2, <1>5, <3>1 DEF ClaimRows
      <3>2. CASE x # c
        BY <1>2, <1>5, <3>2 DEF ClaimRows
      <3> QED
        BY <3>1, <3>2
    <2> QED
      BY <2>1, <2>2
  <1>7. g \in Maps(Claims, ClaimRows)
    BY <1>5, <1>6, IsMap
  <1>8. /\ q \in Tables /\ q.claim = g /\ q.evaluation = rows.evaluation
        /\ q.mirror = rows.mirror /\ q.tx = rows.tx /\ q.dispute = rows.dispute
        /\ q.resolution = rows.resolution
    BY <1>0, <1>3, <1>7 DEF Tables
  <1>9. IsTables(q)
    BY <1>0, <1>8 DEF IsTables, Resolved
  <1>10. Types'
    <2>1. IsTables(rows') /\ fetching' \in SUBSET DOMAIN rows'.claim
      BY <1>0, <1>1, <1>2, <1>6, <1>8, <1>9
    <2> QED
      BY <1>1, <2>1 DEF IInv, Types
  <1>11. UpgradeSeen'
    BY <1>1 DEF IInv, UpgradeSeen, Upgraded
  <1>12. SnapshotWaits' = SnapshotWaits /\ Seen' = Seen
    BY <1>1 DEF SnapshotWaits, Upgraded, Seen
  <1>13. Follows(q, Seen, events, chain, height, messages, SnapshotWaits, replays, upgraded)
    <2>1. ClaimsSeen(q, events, chain.claim, Seen)
      <3>1. ClaimsSeen(rows, events, chain.claim, Seen)
        BY DEF IInv, Follows
      <3>2. DOMAIN q.claim = DOMAIN rows.claim
            /\ \A x \in DOMAIN rows.claim : q.claim[x].current = rows.claim[x].current
        BY <1>2, <1>6, <1>8
      <3> QED
        BY <1>8, <3>1, <3>2, ClaimsSame
    <2> QED
      BY <1>8, <2>1 DEF IInv, Follows
  <1>14. Follows(rows, Seen, events, chain, height, messages, SnapshotWaits, replays, upgraded)'
    BY <1>1, <1>2, <1>12, <1>13
  <1> QED
    BY <1>10, <1>11, <1>14 DEF IInv

----------------------------------------------------------------------------

\* The initial state.
LEMMA InitIInv ==
    ASSUME Init
    PROVE  IInv
  <1>0. /\ MaxMessages \in Nat /\ MaxHeight \in Nat /\ MaxHeight >= 1
        /\ UpgradeHeight \in Nat /\ UpgradeHeight >= 1
    BY ClaimsParameters
  <1>1. PICK ch, r : ch = chain /\ r = rows
    OBVIOUS
  <1>2. /\ height = 1 /\ phase = "open" /\ events = << >> /\ messages = 0 /\ upgraded = << >>
        /\ migrated = FALSE /\ fetching = {} /\ replays = {}
        /\ ch = [mirror |-> Founded, claim |-> << >>, dispute |-> {}, tx |-> {}]
        /\ r = [mirror |-> Founded, claim |-> << >>, evaluation |-> {},
                dispute |-> {}, resolution |-> {}, tx |-> {}]
    BY <1>1 DEF Init
  <1>3. Founded \in Mirrors
    <2>1. DOMAIN Founded = Collections /\ Founded = [k \in DOMAIN Founded |-> Founded[k]]
          /\ \A k \in DOMAIN Founded : Founded[k] = [no |-> 0, at |-> 0]
      BY DEF Founded
    <2>2. Collections \subseteq Keys /\ [no |-> 0, at |-> 0] \in Versions
      BY <1>0 DEF Keys, Versions
    <2> HIDE DEF Founded
    <2> QED
      BY <2>1, <2>2, IsMap DEF Mirrors
  <1>4. PICK z : z = << >>
    OBVIOUS
  <1>5. DOMAIN z = {} /\ z = [x \in DOMAIN z |-> z[x]]
    BY <1>4
  <1>6. z \in Maps(Claims, ClaimStates) /\ z \in Maps(Claims, ClaimRows)
    BY <1>5, IsMap
  <1>7. ch \in ChainStates
    BY <1>2, <1>3, <1>4, <1>6 DEF ChainStates
  <1>8. IsTables(r)
    <2>1. r \in Tables
      BY <1>2, <1>3, <1>4, <1>6 DEF Tables
    <2>2. IsFiniteSet({})
      BY FS_EmptySet
    <2> QED
      BY <1>2, <2>1, <2>2 DEF IsTables, Resolved
  <1>9. Types
    <2>1. events \in Seq(Events)
      BY <1>2
    <2>2. height \in 1..MaxHeight /\ messages \in 0..MaxMessages /\ height \notin replays
      BY <1>0, <1>2
    <2>3. /\ phase \in {"open", "due", "done"} /\ migrated \in BOOLEAN
          /\ upgraded \in {<< >>} \cup {<<c>> : c \in ChainStates}
          /\ fetching \in SUBSET DOMAIN rows.claim /\ replays \in SUBSET (1..height)
      BY <1>2
    <2>4. chain \in ChainStates /\ IsTables(rows)
      BY <1>1, <1>7, <1>8
    <2> QED
      BY <2>1, <2>2, <2>3, <2>4 DEF Types
  <1>10. UpgradeSeen
    <2>1. height = UpgradeHeight /\ phase # "open" => FALSE
      BY <1>2
    <2>2. ~ (height > UpgradeHeight)
      BY <1>0, <1>2
    <2>3. Upgraded => height = UpgradeHeight /\ phase # "done"
      BY <1>0, <1>2 DEF Upgraded
    <2> QED
      BY <1>2, <2>1, <2>2, <2>3 DEF UpgradeSeen
  <1>11. Seen = 0 /\ SnapshotWaits \in BOOLEAN
    BY <1>2 DEF Seen, SnapshotWaits, Upgraded
  <1>12. ASSUME NEW w \in BOOLEAN PROVE Follows(r, 0, << >>, ch, 1, 0, w, {}, << >>)
    <2>1. MirrorTold(<< >>, ch.mirror)
      BY DEF MirrorTold
    <2>2. MirrorSeen(r.mirror, << >>, ch.mirror, 0, w, << >>)
      <3>1. r.mirror = ch.mirror
        BY <1>2
      <3> QED
        BY <3>1 DEF MirrorSeen, Agree
    <2>3. MirrorDated(<< >>, ch.mirror, 1, << >>)
      <3>1. ch.mirror = Founded /\ \A k \in DOMAIN Founded : Founded[k].at = 0
        BY <1>2 DEF Founded
      <3>2. ~ (1 > UpgradeHeight)
        BY <1>0
      <3> QED
        BY <3>1, <3>2 DEF MirrorDated
    <2>4. ch.claim = z /\ r.claim = z /\ r.evaluation = {} /\ ch.tx = {} /\ r.tx = {}
      BY <1>2, <1>4
    <2>5. ClaimsTold(<< >>, ch.claim)
      BY <1>5, <2>4 DEF ClaimsTold
    <2>6. ClaimsSeen(r, << >>, ch.claim, 0)
      BY <1>5, <2>4 DEF ClaimsSeen
    <2>7. StakesTold(<< >>, ch.tx, 1, 0)
      BY <2>4 DEF StakesTold
    <2>8. StakesSeen(r.tx, << >>, ch.tx, 0, w, 1, {})
      <3>1. Settled({}, w) = {}
        BY RelinkIs DEF Settled
      <3>2. Staked(<< >>, 0) = {}
        BY DEF Staked
      <3> QED
        BY <2>4, <3>1, <3>2 DEF StakesSeen
    <2> QED
      BY <2>1, <2>2, <2>5, <2>6, <2>7, <2>8, <2>3 DEF Follows
  <1>13. Follows(rows, Seen, events, chain, height, messages, SnapshotWaits, replays, upgraded)
    BY <1>1, <1>2, <1>11, <1>12
  <1> QED
    BY <1>9, <1>10, <1>13 DEF IInv

\* Every step.
LEMMA NextIInv ==
    ASSUME IInv, [Next]_vars
    PROVE  IInv'
  <1>1. CASE Chain
    <2>1. ASSUME NEW k \in Collections \cup Budgets \cup Pools, ChainWrites(k) \/ ChainRemovesBudget(k)
          PROVE  IInv'
      BY <2>1, WritesKeep, RemovesBudgetKeep DEF Keys
    <2>2. ASSUME NEW c \in Claims, ChainSubmits(c) \/ ChainPays(c) PROVE IInv'
      BY <2>2, SubmitsKeep, PaysKeep
    <2>3. ASSUME NEW c \in Claims, NEW a \in Agents, NEW status \in {"flagged", "final"},
                 ChainEvaluates(c, a, status)
          PROVE  IInv'
      BY <2>3, EvaluatesKeep
    <2>4. ASSUME NEW c \in Claims, NEW role \in Roles \cup {Legacy}, ChainDisputes(c, role)
          PROVE  IInv'
      BY <2>4, DisputesKeep
    <2>5. ASSUME NEW d \in chain.dispute, NEW status \in {"awarded", "dismissed"},
                 ChainResolves(d, status)
          PROVE  IInv'
      BY <2>5, ResolvesKeep
    <2>6. ASSUME NEW p \in Pools \cup {NoPool}, ChainStakes(p) PROVE IInv'
      BY <2>6, StakesKeep
    <2> QED
      BY <1>1, <2>1, <2>2, <2>3, <2>4, <2>5, <2>6, EndsBlockKeep, BeginsBlockKeep DEF Chain
  <1>2. CASE SyncLoop
    BY <1>2, SnapshotKeep, IndexKeep DEF SyncLoop
  <1>3. CASE Replay
    BY <1>3, ReplayKeep
  <1>4. CASE Cron
    <2>1. CASE CronAsks
      <3>1. PICK k \in Collections : \E S \in Batches(k) : fetching' = S
        BY <2>1 DEF CronAsks
      <3>2. PICK S \in Batches(k) : fetching' = S
        BY <3>1
      <3>3. S \in SUBSET DOMAIN rows.claim
        BY DEF Batches, Untyped
      <3> QED
        BY <2>1, <3>2, <3>3, FetchingKeep DEF CronAsks, chainVars
    <2>2. ASSUME NEW c \in Claims, CronFills(c) PROVE IInv'
      BY <2>2, FillsKeep
    <2>3. ASSUME NEW c \in Claims, CronGetsError(c) PROVE IInv'
      <3>1. fetching' \in SUBSET DOMAIN rows.claim
        BY <2>3 DEF CronGetsError, IInv, Types
      <3> QED
        BY <2>3, <3>1, FetchingKeep DEF CronGetsError, chainVars
    <2> QED
      BY <1>4, <2>1, <2>2, <2>3 DEF Cron
  <1>5. CASE UNCHANGED vars
    <2>1. fetching' \in SUBSET DOMAIN rows.claim
      BY <1>5 DEF vars, IInv, Types
    <2> QED
      BY <1>5, <2>1, FetchingKeep DEF vars, chainVars
  <1> QED
    BY <1>1, <1>2, <1>3, <1>4, <1>5 DEF Next

\* The rows follow the chain.
THEOREM Invariance == Spec => []IInv
  <1>1. Init => IInv
    BY InitIInv
  <1>2. IInv /\ [Next]_vars => IInv'
    BY NextIInv
  <1> QED
    BY <1>1, <1>2, PTL DEF Spec

----------------------------------------------------------------------------
(* Disputes: what the rows T and the resolutions R hold after i of the      *)
(* events es, when the chain has D at the height h; g is whether the        *)
(* snapshot is taken.                                                       *)

Same(x, y) == x.subject = y.subject /\ x.role = y.role

\* An event that opens d, resolves it, or is of its subject and role.
Opens(e, d) == e.type = "dispute" /\ e.dispute.no = d.no
Ends(e, d) == e.type = "resolve" /\ e.dispute.no = d.no
Concerns(e, d) == e.type \in {"dispute", "resolve"} /\ Same(e.dispute, d)

\* Such an event is still to come.
ToOpen(es, i, d) == \E j \in 1..Len(es) : j > i /\ Opens(es[j], d)
ToEnd(es, i, d) == \E j \in 1..Len(es) : j > i /\ Ends(es[j], d)
ToConcern(es, i, d) == \E j \in 1..Len(es) : j > i /\ Concerns(es[j], d)

\* Whether d is open on the chain after i events.
OpenAfter(es, i, d) == ~ ToOpen(es, i, d) /\ (d.status = "open" \/ ToEnd(es, i, d))

\* A dispute of the old kind is never resolved, but by the upgrade.
DisputeSound(d, h, n) ==
    /\ d.no <= n /\ d.at <= h
    /\ d.role = Legacy =>
         d.resolved = 0 /\ d.status = IF h < UpgradeHeight THEN "open" ELSE "dismissed"
    /\ d.role # Legacy => h >= UpgradeHeight /\ (d.resolved = 0 <=> d.status = "open")

\* An opening is of a dispute made in this block, in the order of their numbers, ...
OpeningTold(es, j, D, h) ==
    \E d \in D : /\ es[j].dispute.no = d.no /\ Same(es[j].dispute, d)
                 /\ es[j].dispute.status = "open"
                 /\ d.at = h
                 /\ OpenAfter(es, j, d)
                 /\ \A e \in D : e.no <= d.no => ~ ToOpen(es, j, e)

\* ... and a resolution of one that was opened before it.
EndTold(es, j, D, h) ==
    /\ es[j].dispute \in D
    /\ es[j].dispute.role # Legacy /\ es[j].dispute.resolved = h /\ es[j].dispute.status # "open"
    /\ ~ ToOpen(es, j, es[j].dispute) /\ ~ ToEnd(es, j, es[j].dispute)

\* At no time are two of a subject and role open.
OneOpen(es, i, D) ==
    \A d, e \in D :
        d.role # Legacy /\ Same(d, e) /\ OpenAfter(es, i, d) /\ OpenAfter(es, i, e) => d = e

\* What the events tell of the disputes.
DisputesTold(es, D, h, n) ==
    /\ \A d, e \in D : d.no = e.no => d = e
    /\ \A d \in D : DisputeSound(d, h, n)
    /\ \A j \in 1..Len(es) : es[j].type = "dispute" => OpeningTold(es, j, D, h)
    /\ \A j \in 1..Len(es) : es[j].type = "resolve" => EndTold(es, j, D, h)
    /\ \A i \in 0..Len(es) : OneOpen(es, i, D)

\* The rows have serial numbers.
Numbered(T) ==
    /\ \A x, y \in T : x.id = y.id => x = y
    /\ \A x \in T : x.id <= Cardinality(T)

RowsFor(T, d) == {x \in T : x.no = d.no}
OpenRows(T, d) == {x \in T : Same(x, d) /\ x.status = "open"}

\* No older dispute of the old kind has the subject of d.
First(d, D) == \A x \in D : x.subject = d.subject /\ x.role = Legacy => d.no <= x.no

\* The rows of disputes of the old kind, one for each subject, ...
LegacySeen(T, R, i, es, D, g) ==
    /\ \A x, y \in T : x.role = Legacy /\ Same(x, y) => x = y
    /\ \A x \in T : \A d \in D : x.role = Legacy /\ Same(x, d) /\ First(d, D) => x.no = d.no
    /\ \A x \in T : x.role = Legacy => x.id \notin R /\ x.status = IF g THEN "dismissed" ELSE "open"
    /\ \A d \in D : d.role = Legacy /\ First(d, D) => ToOpen(es, i, d) \/ RowsFor(T, d) # {}

\* ... and of the others: there is an open row just if there is an open dispute,
\* unless the block is indexed again, when no row is missing.
OpenThere(T, i, es, D, d) ==
    OpenRows(T, d) # {} <=> \E e \in D : Same(e, d) /\ OpenAfter(es, i, e)

AllThere(T, D, d) == \A e \in D : Same(e, d) => RowsFor(T, e) # {}

\* Blurred, of the disputes D and the blocks reps indexed twice.
Mixed(d, D, reps) ==
    \E x, y \in D : Same(x, d) /\ Same(y, d) /\ x.resolved = y.at /\ y.at \in reps

\* The one row of d and its resolution.
Shows(T, R, d, status, decided) ==
    \E x \in T : RowsFor(T, d) = {x} /\ x.status = status /\ (x.id \in R <=> decided)

Final(T, R, d) == Shows(T, R, d, d.status, d.resolved # 0)

\* How far the row of d is: as on the chain, missing, or open until its end.
RowSeen(T, R, i, es, h, reps, d) ==
    \/ Final(T, R, d) /\ (ToOpen(es, i, d) \/ ToEnd(es, i, d) => h \in reps)
    \/ ToOpen(es, i, d) /\ RowsFor(T, d) = {}
    \/ ~ ToOpen(es, i, d) /\ ToEnd(es, i, d) /\ Shows(T, R, d, "open", FALSE)

OthersSeen(T, R, i, es, D, h, reps) ==
    \A d \in D : d.role # Legacy =>
        /\ ToOpen(es, i, d) \/ RowsFor(T, d) # {}
        /\ OpenThere(T, i, es, D, d) \/ (h \in reps /\ ToConcern(es, i, d) /\ AllThere(T, D, d))
        /\ Mixed(d, D, reps) \/ RowSeen(T, R, i, es, h, reps, d)

DisputesSeen(T, R, i, es, D, h, g, reps) ==
    /\ Numbered(T)
    /\ \A x, y \in T : Same(x, y) /\ x.status = "open" /\ y.status = "open" => x = y
    /\ \A x \in T : \E d \in D : x.no = d.no /\ Same(x, d)
    /\ LegacySeen(T, R, i, es, D, g)
    /\ OthersSeen(T, R, i, es, D, h, reps)

DisputesFollow ==
    /\ DisputesTold(events, chain.dispute, height, messages)
    /\ DisputesSeen(rows.dispute, rows.resolution, Seen, events, chain.dispute, height, migrated,
                    replays)

----------------------------------------------------------------------------
(* Disputes: the events still to come, and the rows. *)

\* One event further.
LEMMA ComingStep ==
    ASSUME NEW es \in Seq(Events), NEW i \in Nat, i < Len(es), NEW d
    PROVE  /\ ToOpen(es, i, d) <=> Opens(es[i + 1], d) \/ ToOpen(es, i + 1, d)
           /\ ToEnd(es, i, d) <=> Ends(es[i + 1], d) \/ ToEnd(es, i + 1, d)
           /\ ToConcern(es, i, d) <=> Concerns(es[i + 1], d) \/ ToConcern(es, i + 1, d)
  <1>1. Len(es) \in Nat /\ i + 1 \in 1..Len(es) /\ i + 1 > i
    OBVIOUS
  <1>2. \A j \in 1..Len(es) : j > i <=> j = i + 1 \/ j > i + 1
    BY <1>1
  <1> QED
    BY <1>1, <1>2 DEF ToOpen, ToEnd, ToConcern

\* One event more.
LEMMA ComingMore ==
    ASSUME NEW es \in Seq(Events), NEW e \in Events, NEW i \in 0..Len(es), NEW d
    PROVE  /\ ToOpen(Append(es, e), i, d) <=> Opens(e, d) \/ ToOpen(es, i, d)
           /\ ToEnd(Append(es, e), i, d) <=> Ends(e, d) \/ ToEnd(es, i, d)
           /\ ToConcern(Append(es, e), i, d) <=> Concerns(e, d) \/ ToConcern(es, i, d)
  <1>1. PICK n \in Nat : n = Len(es)
    OBVIOUS
  <1>2. PICK fs : fs = Append(es, e)
    OBVIOUS
  <1>3. Len(fs) = n + 1 /\ fs[n + 1] = e /\ \A j \in 1..n : fs[j] = es[j]
    BY <1>1, <1>2, AppendFacts
  <1>4. n + 1 \in 1..n + 1 /\ n + 1 > i /\ \A j \in 1..n + 1 : j = n + 1 \/ j \in 1..n
    BY <1>1
  <1>5. \A j \in 1..n : j \in 1..n + 1
    BY <1>1
  <1>6. ToOpen(fs, i, d) <=> Opens(e, d) \/ ToOpen(es, i, d)
    BY <1>1, <1>3, <1>4, <1>5 DEF ToOpen
  <1>7. ToEnd(fs, i, d) <=> Ends(e, d) \/ ToEnd(es, i, d)
    BY <1>1, <1>3, <1>4, <1>5 DEF ToEnd
  <1>8. ToConcern(fs, i, d) <=> Concerns(e, d) \/ ToConcern(es, i, d)
    BY <1>1, <1>3, <1>4, <1>5 DEF ToConcern
  <1> QED
    BY <1>2, <1>6, <1>7, <1>8

\* After the last event.
LEMMA NothingComes ==
    ASSUME NEW es \in Seq(Events), NEW d
    PROVE  ~ ToOpen(es, Len(es), d) /\ ~ ToEnd(es, Len(es), d) /\ ~ ToConcern(es, Len(es), d)
  <1>1. \A j \in 1..Len(es) : ~ (j > Len(es))
    OBVIOUS
  <1> QED
    BY <1>1 DEF ToOpen, ToEnd, ToConcern

\* An event tells when a dispute is opened ...
LEMMA ToOpenFacts ==
    ASSUME NEW es \in Seq(Events), NEW D \in SUBSET Disputes, NEW h, NEW n, DisputesTold(es, D, h, n),
           NEW i, NEW d \in D, ToOpen(es, i, d)
    PROVE  d.at = h
  <1>1. PICK j \in 1..Len(es) : es[j].type = "dispute" /\ es[j].dispute.no = d.no
    BY DEF ToOpen, Opens
  <1>2. PICK e \in D : es[j].dispute.no = e.no /\ e.at = h
    <2>1. OpeningTold(es, j, D, h)
      BY <1>1 DEF DisputesTold
    <2> QED
      BY <2>1 DEF OpeningTold
  <1>3. e = d
    BY <1>1, <1>2 DEF DisputesTold
  <1> QED
    BY <1>2, <1>3

\* ... and resolved, which disputes of the old kind are not.
LEMMA ToEndFacts ==
    ASSUME NEW es \in Seq(Events), NEW D \in SUBSET Disputes, NEW h, NEW n, DisputesTold(es, D, h, n),
           NEW i, NEW d \in D, ToEnd(es, i, d)
    PROVE  d.role # Legacy /\ d.resolved = h /\ d.status # "open"
  <1>1. PICK j \in 1..Len(es) : es[j].type = "resolve" /\ es[j].dispute.no = d.no
    BY DEF ToEnd, Ends
  <1>2. EndTold(es, j, D, h)
    BY <1>1 DEF DisputesTold
  <1>3. es[j].dispute = d
    BY <1>1, <1>2 DEF DisputesTold, EndTold
  <1> QED
    BY <1>2, <1>3 DEF EndTold

\* The rows an opening adds to and a resolution changes.
AddsRow(T, U, d) ==
    \E x \in DisputeRows :
        /\ U = T \cup {x}
        /\ x.id = Cardinality(T) + 1 /\ x.no = d.no /\ Same(x, d) /\ x.status = "open"

FlipsRow(T, U, R, Q, d) ==
    \E y \in OpenRows(T, d) : \E z \in DisputeRows :
        /\ U = (T \ {y}) \cup {z}
        /\ Q = R \cup {y.id}
        /\ z.id = y.id /\ z.no = y.no /\ Same(z, y) /\ z.status = d.status

\* What CreateDispute does to the rows, ...
LEMMA CreateDisputeRows ==
    ASSUME NEW r, IsTables(r), NEW d \in Disputes, d.status = "open"
    PROVE  /\ CreateDispute(r, d).resolution = r.resolution
           /\ OpenRows(r.dispute, d) # {} => CreateDispute(r, d).dispute = r.dispute
           /\ OpenRows(r.dispute, d) = {} => AddsRow(r.dispute, CreateDispute(r, d).dispute, d)
  <1>1. PICK q : q = CreateDispute(r, d)
    OBVIOUS
  <1>2. r \in Tables /\ IsFiniteSet(r.dispute)
    BY DEF IsTables
  <1>3. Open(r, d.subject, d.role) = OpenRows(r.dispute, d)
    BY DEF Open, OpenRows, Same
  <1>4. CASE OpenRows(r.dispute, d) # {}
    <2>1. q = r
      BY <1>1, <1>3, <1>4 DEF CreateDispute
    <2> QED
      BY <1>1, <1>4, <2>1
  <1>5. CASE OpenRows(r.dispute, d) = {}
    <2>1. PICK row : row = [id |-> Cardinality(r.dispute) + 1, subject |-> d.subject,
                            role |-> d.role, no |-> d.no, status |-> d.status]
      OBVIOUS
    <2>2. Cardinality(r.dispute) + 1 \in Nat
      BY <1>2, FS_CardinalityType
    <2>3. row \in DisputeRows /\ row.id = Cardinality(r.dispute) + 1 /\ row.no = d.no
          /\ Same(row, d) /\ row.status = "open"
      BY <2>1, <2>2 DEF DisputeRows, Disputes, Same
    <2>4. q = [r EXCEPT !.dispute = @ \cup {row}]
      BY <1>1, <1>3, <1>5, <2>1 DEF CreateDispute
    <2>5. q.dispute = r.dispute \cup {row} /\ q.resolution = r.resolution
      BY <1>2, <2>4 DEF Tables
    <2>6. AddsRow(r.dispute, q.dispute, d)
      BY <2>3, <2>5 DEF AddsRow
    <2> QED
      BY <1>1, <1>5, <2>5, <2>6
  <1> QED
    BY <1>4, <1>5

\* ... and ResolveDispute.
LEMMA ResolveDisputeRows ==
    ASSUME NEW r, IsTables(r), NEW d \in Disputes
    PROVE  /\ OpenRows(r.dispute, d) = {} => /\ ResolveDispute(r, d).dispute = r.dispute
                                             /\ ResolveDispute(r, d).resolution = r.resolution
           /\ OpenRows(r.dispute, d) # {} =>
                FlipsRow(r.dispute, ResolveDispute(r, d).dispute,
                      r.resolution, ResolveDispute(r, d).resolution, d)
  <1>1. PICK q : q = ResolveDispute(r, d)
    OBVIOUS
  <1>2. r \in Tables
    BY DEF IsTables
  <1>3. PICK open : open = Open(r, d.subject, d.role)
    OBVIOUS
  <1>4. open = OpenRows(r.dispute, d)
    BY <1>3 DEF Open, OpenRows, Same
  <1>5. CASE open = {}
    <2>1. q = r
      BY <1>1, <1>3, <1>5 DEF ResolveDispute
    <2> QED
      BY <1>1, <1>4, <1>5, <2>1
  <1>6. CASE open # {}
    <2>1. PICK latest : latest = CHOOSE x \in open : \A y \in open : x.no >= y.no
      OBVIOUS
    <2>2. open \in SUBSET DisputeRows
      BY <1>2, <1>4 DEF OpenRows, Tables
    <2>3. latest \in open
      BY <1>6, <2>1, <2>2, Newest
    <2>4. PICK flipped : flipped = [latest EXCEPT !.status = d.status]
      OBVIOUS
    <2>5. flipped \in DisputeRows /\ flipped.id = latest.id /\ flipped.no = latest.no
          /\ Same(flipped, latest) /\ flipped.status = d.status
      BY <2>2, <2>3, <2>4 DEF DisputeRows, Disputes, Same
    <2>6. PICK D, R : /\ D = (r.dispute \ {latest}) \cup {flipped}
                      /\ R = r.resolution \cup {latest.id}
      OBVIOUS
    <2>7. q = [r EXCEPT !.dispute = D, !.resolution = R]
      BY <1>1, <1>3, <1>6, <2>1, <2>4, <2>6 DEF ResolveDispute
    <2>8. q.dispute = D /\ q.resolution = R
      BY <1>2, <2>7 DEF Tables
    <2>9. FlipsRow(r.dispute, q.dispute, r.resolution, q.resolution, d)
      BY <1>4, <2>3, <2>5, <2>6, <2>8 DEF FlipsRow
    <2> QED
      BY <1>1, <1>4, <1>6, <2>9
  <1> QED
    BY <1>5, <1>6

\* The rows stay numbered when one is added, ...
LEMMA NumberedAdds ==
    ASSUME NEW T \in SUBSET DisputeRows, IsFiniteSet(T), Numbered(T), NEW x \in DisputeRows,
           x.id = Cardinality(T) + 1
    PROVE  Numbered(T \cup {x}) /\ \A y \in T : y.id # x.id
  <1>1. PICK n \in Nat : n = Cardinality(T)
    BY FS_CardinalityType
  <1>2. \A y \in T : y.id <= n /\ y.id \in Nat
    BY <1>1 DEF Numbered, DisputeRows
  <1>3. \A y \in T : y.id # x.id
    BY <1>1, <1>2
  <1>4. x \notin T
    BY <1>3
  <1>5. Cardinality(T \cup {x}) = n + 1
    BY <1>1, <1>4, FS_AddElement
  <1>6. \A y \in T \cup {x} : y.id <= n + 1
    BY <1>1, <1>2
  <1> QED
    BY <1>3, <1>5, <1>6 DEF Numbered

\* ... when one of them is changed, too.
LEMMA NumberedFlips ==
    ASSUME NEW T \in SUBSET DisputeRows, IsFiniteSet(T), Numbered(T), NEW y \in T, NEW z \in DisputeRows,
           z.id = y.id
    PROVE  Numbered((T \ {y}) \cup {z})
  <1>1. PICK n \in Nat : n = Cardinality(T)
    BY FS_CardinalityType
  <1>2. PICK U : U = T \ {y}
    OBVIOUS
  <1>3. IsFiniteSet(U) /\ Cardinality(U) = n - 1
    BY <1>1, <1>2, FS_RemoveElement
  <1>4. \A x \in U : x.id # z.id
    BY <1>2 DEF Numbered
  <1>5. Cardinality(U \cup {z}) = n
    <2>1. z \notin U
      BY <1>4
    <2>2. Cardinality(U \cup {z}) = Cardinality(U) + 1
      BY <1>3, <2>1, FS_AddElement
    <2> QED
      BY <1>1, <1>3, <2>2
  <1>6. \A x \in U \cup {z} : x.id <= n
    BY <1>1, <1>2 DEF Numbered
  <1>7. \A x, w \in U \cup {z} : x.id = w.id => x = w
    BY <1>2, <1>4 DEF Numbered
  <1> QED
    BY <1>2, <1>5, <1>6, <1>7 DEF Numbered

\* What it means for disputes that the next event opens or resolves d.
NextOpens(es, i, D, d) ==
    /\ d \in D /\ OpenAfter(es, i + 1, d)
    /\ \A e \in D : /\ ToOpen(es, i, e) <=> e = d \/ ToOpen(es, i + 1, e)
                    /\ ToEnd(es, i, e) <=> ToEnd(es, i + 1, e)
                    /\ OpenAfter(es, i, e) <=> e # d /\ OpenAfter(es, i + 1, e)
                    /\ ToConcern(es, i, e) => Same(e, d) \/ ToConcern(es, i + 1, e)

NextEnds(es, i, D, d) ==
    /\ d \in D /\ OpenAfter(es, i, d) /\ ~ ToOpen(es, i, d) /\ ~ ToEnd(es, i + 1, d)
    /\ \A e \in D : /\ ToOpen(es, i, e) <=> ToOpen(es, i + 1, e)
                    /\ ToEnd(es, i, e) <=> e = d \/ ToEnd(es, i + 1, e)
                    /\ OpenAfter(es, i, e) <=> e = d \/ OpenAfter(es, i + 1, e)
                    /\ ToConcern(es, i, e) => Same(e, d) \/ ToConcern(es, i + 1, e)
    /\ ~ OpenAfter(es, i + 1, d)

\* The event is one of a dispute that is opened, ...
LEMMA OpeningNext ==
    ASSUME NEW es \in Seq(Events), NEW D \in SUBSET Disputes, NEW h, NEW n, DisputesTold(es, D, h, n),
           NEW i \in Nat, i < Len(es), es[i + 1].type = "dispute"
    PROVE  \E d \in D : /\ es[i + 1].dispute.no = d.no /\ Same(es[i + 1].dispute, d)
                        /\ es[i + 1].dispute.status = "open"
                        /\ d.at = h
                        /\ \A e \in D : e.no <= d.no => ~ ToOpen(es, i + 1, e)
                        /\ NextOpens(es, i, D, d)
  <1>1. PICK j : j = i + 1 /\ j \in 1..Len(es)
    OBVIOUS
  <1>2. PICK d \in D : /\ es[j].dispute.no = d.no /\ Same(es[j].dispute, d)
                       /\ es[j].dispute.status = "open"
                       /\ d.at = h
                       /\ OpenAfter(es, j, d)
                       /\ \A e \in D : e.no <= d.no => ~ ToOpen(es, j, e)
                       /\ \A e \in D : Opens(es[j], e) <=> e = d
    <2>1. j \in 1..Len(es) /\ es[j].type = "dispute"
      BY <1>1
    <2>2. OpeningTold(es, j, D, h) /\ \A d, e \in D : d.no = e.no => d = e
      BY <2>1 DEF DisputesTold
    <2> QED
      BY <2>1, <2>2 DEF OpeningTold, Opens
  <1>3. ASSUME NEW e \in D
        PROVE  /\ ToOpen(es, i, e) <=> e = d \/ ToOpen(es, j, e)
               /\ ToEnd(es, i, e) <=> ToEnd(es, j, e)
               /\ ToConcern(es, i, e) => Same(e, d) \/ ToConcern(es, j, e)
    <2>1. ~ Ends(es[j], e)
      BY <1>1 DEF Ends
    <2>2. Concerns(es[j], e) => Same(e, d)
      BY <1>2 DEF Concerns, Same
    <2> QED
      BY <1>1, <1>2, <2>1, <2>2, ComingStep
  <1>4. \A e \in D : OpenAfter(es, i, e) <=> e # d /\ OpenAfter(es, j, e)
    BY <1>3 DEF OpenAfter
  <1>5. NextOpens(es, i, D, d)
    BY <1>1, <1>2, <1>3, <1>4 DEF NextOpens
  <1> QED
    BY <1>1, <1>2, <1>5

\* ... or resolved.
LEMMA EndNext ==
    ASSUME NEW es \in Seq(Events), NEW D \in SUBSET Disputes, NEW h, NEW n, DisputesTold(es, D, h, n),
           NEW i \in Nat, i < Len(es), es[i + 1].type = "resolve"
    PROVE  /\ NextEnds(es, i, D, es[i + 1].dispute)
           /\ es[i + 1].dispute.role # Legacy /\ es[i + 1].dispute.resolved = h
           /\ es[i + 1].dispute.status # "open"
  <1>1. PICK j, d : j = i + 1 /\ j \in 1..Len(es) /\ d = es[j].dispute
    OBVIOUS
  <1>2. EndTold(es, j, D, h)
    BY <1>1 DEF DisputesTold
  <1>3. /\ d \in D /\ d.role # Legacy /\ d.resolved = h /\ d.status # "open"
        /\ ~ ToOpen(es, j, d) /\ ~ ToEnd(es, j, d)
    BY <1>1, <1>2 DEF EndTold
  <1>4. ASSUME NEW e \in D
        PROVE  /\ ToOpen(es, i, e) <=> ToOpen(es, j, e)
               /\ ToEnd(es, i, e) <=> e = d \/ ToEnd(es, j, e)
               /\ ToConcern(es, i, e) => Same(e, d) \/ ToConcern(es, j, e)
    <2>1. ~ Opens(es[j], e)
      BY <1>1 DEF Opens
    <2>2. Ends(es[j], e) <=> e = d
      BY <1>1, <1>3 DEF Ends, DisputesTold
    <2>3. Concerns(es[j], e) => Same(e, d)
      BY <1>1 DEF Concerns, Same
    <2> QED
      BY <1>1, <2>1, <2>2, <2>3, ComingStep
  <1>5. ~ OpenAfter(es, j, d) /\ OpenAfter(es, i, d) /\ ~ ToOpen(es, i, d)
    BY <1>3, <1>4 DEF OpenAfter
  <1>6. \A e \in D : OpenAfter(es, i, e) <=> e = d \/ OpenAfter(es, j, e)
    BY <1>4, <1>5 DEF OpenAfter
  <1>7. NextEnds(es, i, D, d)
    BY <1>1, <1>3, <1>4, <1>5, <1>6 DEF NextEnds
  <1> QED
    BY <1>1, <1>3, <1>7

\* What the row of a dispute shows does not depend on other rows, ...
LEMMA ShowsSame ==
    ASSUME NEW T, NEW U, NEW R, NEW Q, NEW d, NEW s, NEW b, RowsFor(U, d) = RowsFor(T, d),
           \A x \in RowsFor(T, d) : x.id \in Q <=> x.id \in R, Shows(T, R, d, s, b)
    PROVE  Shows(U, Q, d, s, b)
  <1>1. PICK x \in T : RowsFor(T, d) = {x} /\ x.status = s /\ (x.id \in R <=> b)
    BY DEF Shows
  <1>2. x \in U
    BY <1>1 DEF RowsFor
  <1> QED
    BY <1>1, <1>2 DEF Shows

\* ... and so is how far it is.
LEMMA RowSeenSame ==
    ASSUME NEW T, NEW U, NEW R, NEW Q, NEW d, RowsFor(U, d) = RowsFor(T, d),
           \A x \in RowsFor(T, d) : x.id \in Q <=> x.id \in R,
           NEW es, NEW i, NEW j, NEW h, NEW reps,
           ToOpen(es, i, d) <=> ToOpen(es, j, d), ToEnd(es, i, d) <=> ToEnd(es, j, d),
           RowSeen(T, R, i, es, h, reps, d)
    PROVE  RowSeen(U, Q, j, es, h, reps, d)
  <1>1. Final(T, R, d) => Final(U, Q, d)
    BY ShowsSame DEF Final
  <1>2. Shows(T, R, d, "open", FALSE) => Shows(U, Q, d, "open", FALSE)
    BY ShowsSame
  <1> QED
    BY <1>1, <1>2 DEF RowSeen

\* Before the snapshot the rows of disputes of the old kind are open, and in a
\* block that opens one it was not taken.
LEMMA LegacyOpen ==
    ASSUME NEW es \in Seq(Events), NEW D \in SUBSET Disputes, NEW h \in Nat, NEW n,
           DisputesTold(es, D, h, n), NEW j, NEW d \in D, OpenAfter(es, j, d), d.role = Legacy,
           NEW g \in BOOLEAN, g => h >= UpgradeHeight
    PROVE  ~ g
  <1>1. ~ ToEnd(es, j, d)
    BY ToEndFacts
  <1>2. d.status = "open"
    BY <1>1 DEF OpenAfter
  <1>3. DisputeSound(d, h, n)
    BY DEF DisputesTold
  <1>4. h < UpgradeHeight
    BY <1>2, <1>3 DEF DisputeSound
  <1>5. UpgradeHeight \in Nat
    BY ClaimsParameters
  <1> QED
    BY <1>4, <1>5

\* No older dispute is still to be opened; the snapshot is of the upgrade.
OldestFirst(es, i, D, d) == \A e \in D : e.no <= d.no => ~ ToOpen(es, i, e)

TakenSince(g, h) == g \in BOOLEAN /\ (g => h >= UpgradeHeight)

\* A dispute is opened.
LEMMA OpeningStep ==
    ASSUME NEW es \in Seq(Events), NEW D \in SUBSET Disputes, NEW h \in Nat, NEW n,
           DisputesTold(es, D, h, n), NEW i \in Nat, i < Len(es), NEW d, NextOpens(es, i, D, d),
           d.at = h, OldestFirst(es, i + 1, D, d),
           NEW T \in SUBSET DisputeRows, IsFiniteSet(T), NEW R, \A k \in R : \E x \in T : x.id = k, NEW U,
           OpenRows(T, d) # {} => U = T, OpenRows(T, d) = {} => AddsRow(T, U, d),
           NEW g, TakenSince(g, h), NEW reps,
           DisputesSeen(T, R, i, es, D, h, g, reps)
    PROVE  DisputesSeen(U, R, i + 1, es, D, h, g, reps)
  <1>0. PICK j : j = i + 1 /\ j \in 0..Len(es)
    OBVIOUS
  <1>1. /\ Numbered(T)
        /\ \A x, y \in T : Same(x, y) /\ x.status = "open" /\ y.status = "open" => x = y
        /\ \A x \in T : \E e \in D : x.no = e.no /\ Same(x, e)
        /\ LegacySeen(T, R, i, es, D, g)
        /\ OthersSeen(T, R, i, es, D, h, reps)
    BY DEF DisputesSeen
  <1>2. /\ d \in D /\ OpenAfter(es, j, d)
        /\ \A e \in D : /\ ToOpen(es, i, e) <=> e = d \/ ToOpen(es, j, e)
                        /\ ToEnd(es, i, e) <=> ToEnd(es, j, e)
                        /\ OpenAfter(es, i, e) <=> e # d /\ OpenAfter(es, j, e)
                        /\ ToConcern(es, i, e) => Same(e, d) \/ ToConcern(es, j, e)
    BY <1>0 DEF NextOpens
  <1>3. /\ \A e, f \in D : e.no = f.no => e = f
        /\ \A e \in D : DisputeSound(e, h, n)
        /\ OneOpen(es, j, D)
    BY <1>0 DEF DisputesTold
  <1>4. ~ ToOpen(es, j, d)
    BY <1>2 DEF OpenAfter
  <1>5. CASE OpenRows(T, d) # {}
    <2>1. U = T
      BY <1>5
    <2>2. LegacySeen(U, R, j, es, D, g)
      <3>1. ASSUME NEW e \in D, e.role = Legacy, First(e, D)
            PROVE  ToOpen(es, j, e) \/ RowsFor(T, e) # {}
        <4>1. CASE e # d
          BY <1>1, <1>2, <3>1, <4>1 DEF LegacySeen
        <4>2. CASE e = d
          <5>1. PICK y \in T : Same(y, d)
            BY <1>5 DEF OpenRows
          <5>2. y.role = Legacy
            BY <3>1, <4>2, <5>1 DEF Same
          <5>3. y.no = d.no
            BY <1>1, <3>1, <4>2, <5>1, <5>2 DEF LegacySeen
          <5> QED
            BY <4>2, <5>3 DEF RowsFor
        <4> QED
          BY <4>1, <4>2
      <3> QED
        BY <1>1, <2>1, <3>1 DEF LegacySeen
    <2>3. ASSUME NEW e \in D, e.role # Legacy
          PROVE  /\ ToOpen(es, j, e) \/ RowsFor(T, e) # {}
                 /\ \/ OpenThere(T, j, es, D, e)
                    \/ h \in reps /\ ToConcern(es, j, e) /\ AllThere(T, D, e)
                 /\ Mixed(e, D, reps) \/ RowSeen(T, R, j, es, h, reps, e)
      <3>0. /\ ToOpen(es, i, e) \/ RowsFor(T, e) # {}
            /\ \/ OpenThere(T, i, es, D, e)
               \/ h \in reps /\ ToConcern(es, i, e) /\ AllThere(T, D, e)
            /\ Mixed(e, D, reps) \/ RowSeen(T, R, i, es, h, reps, e)
        BY <1>1, <2>3 DEF OthersSeen
      <3>1. e = d => h \in reps /\ AllThere(T, D, d)
        <4> SUFFICES ASSUME e = d PROVE h \in reps /\ AllThere(T, D, d)
          OBVIOUS
        <4>1. ~ OpenThere(T, i, es, D, d)
          <5> SUFFICES ASSUME OpenThere(T, i, es, D, d) PROVE FALSE
            OBVIOUS
          <5>1. PICK f \in D : Same(f, d) /\ OpenAfter(es, i, f)
            BY <1>5 DEF OpenThere
          <5>2. f # d /\ OpenAfter(es, j, f) /\ Same(d, f)
            BY <1>2, <5>1 DEF Same
          <5> QED
            BY <1>2, <1>3, <2>3, <5>2 DEF OneOpen
        <4> QED
          BY <3>0, <4>1
      <3>2. e = d => RowsFor(T, d) # {}
        BY <1>2, <3>1 DEF AllThere, Same
      <3>3. OpenThere(T, j, es, D, e) \/ (h \in reps /\ ToConcern(es, j, e) /\ AllThere(T, D, e))
        <4>1. CASE Same(e, d)
          <5>1. OpenRows(T, e) # {}
            BY <1>5, <4>1 DEF OpenRows, Same
          <5> QED
            BY <1>2, <4>1, <5>1 DEF OpenThere, Same
        <4>2. CASE ~ Same(e, d)
          <5>1. \A f \in D : Same(f, e) => (OpenAfter(es, i, f) <=> OpenAfter(es, j, f))
            BY <1>2, <4>2 DEF Same
          <5>2. OpenThere(T, i, es, D, e) => OpenThere(T, j, es, D, e)
            BY <5>1 DEF OpenThere
          <5> QED
            BY <1>2, <3>0, <4>2, <5>2
        <4> QED
          BY <4>1, <4>2
      <3>4. Mixed(e, D, reps) \/ RowSeen(T, R, j, es, h, reps, e)
        <4> SUFFICES ASSUME ~ Mixed(e, D, reps) PROVE RowSeen(T, R, j, es, h, reps, e)
          OBVIOUS
        <4>1. CASE e = d
          <5>1. ToOpen(es, i, d)
            BY <1>2
          <5>2. Final(T, R, d) /\ h \in reps
            BY <3>0, <3>1, <3>2, <4>1, <5>1 DEF RowSeen
          <5> QED
            BY <4>1, <5>2 DEF RowSeen
        <4>2. CASE e # d
          BY <1>2, <3>0, <4>2 DEF RowSeen
        <4> QED
          BY <4>1, <4>2
      <3> QED
        BY <1>2, <3>0, <3>2, <3>3, <3>4
    <2>4. OthersSeen(U, R, j, es, D, h, reps)
      BY <2>1, <2>3 DEF OthersSeen
    <2> QED
      BY <1>0, <1>1, <2>1, <2>2, <2>4 DEF DisputesSeen
  <1>6. CASE OpenRows(T, d) = {}
    <2>1. PICK x \in DisputeRows : /\ U = T \cup {x} /\ x.id = Cardinality(T) + 1
                                   /\ x.no = d.no /\ Same(x, d) /\ x.status = "open"
      BY <1>6 DEF AddsRow
    <2>2. Numbered(U) /\ \A y \in T : y.id # x.id
      BY <1>1, <2>1, NumberedAdds
    <2>3. x.id \notin R
      BY <2>2
    <2>4. \A y \in T : ~ (Same(x, y) /\ y.status = "open")
      BY <1>6, <2>1 DEF OpenRows, Same
    <2>5. \A y, z \in U : Same(y, z) /\ y.status = "open" /\ z.status = "open" => y = z
      <3>1. \A y \in T : Same(y, x) => Same(x, y)
        BY DEF Same
      <3> QED
        BY <1>1, <2>1, <2>4, <3>1
    <2>6. \A y \in U : \E e \in D : y.no = e.no /\ Same(y, e)
      BY <1>1, <1>2, <2>1
    <2>7. \A e \in D : e # d => RowsFor(U, e) = RowsFor(T, e)
      BY <1>2, <1>3, <2>1 DEF RowsFor
    <2>8. RowsFor(U, d) # {}
      BY <2>1 DEF RowsFor
    <2>9. x.role = Legacy => ~ g
      <3>1. x.role = Legacy => d.role = Legacy
        BY <2>1 DEF Same
      <3> QED
        BY <1>2, <3>1, LegacyOpen DEF TakenSince
    <2>10. \A y \in T : y.role = Legacy => ~ Same(x, y)
      <3> SUFFICES ASSUME NEW y \in T, y.role = Legacy, Same(x, y) PROVE FALSE
        OBVIOUS
      <3>1. ~ g
        BY <2>9 DEF Same
      <3>2. y.status = "open"
        BY <1>1, <3>1 DEF LegacySeen
      <3> QED
        BY <2>4, <3>2
    <2>11. LegacySeen(U, R, j, es, D, g)
      <3>1. \A y, z \in U : y.role = Legacy /\ Same(y, z) => y = z
        <4>1. \A y \in U : Same(y, x) => Same(x, y) /\ y.role = x.role
          BY DEF Same
        <4>2. \A y \in U : Same(x, y) => y.role = x.role
          BY DEF Same
        <4>3. \A y, z \in T : y.role = Legacy /\ Same(y, z) => y = z
          BY <1>1 DEF LegacySeen
        <4> QED
          BY <2>1, <2>10, <4>1, <4>2, <4>3
      <3>2. \A y \in U : y.role = Legacy => y.id \notin R /\ y.status = IF g THEN "dismissed" ELSE "open"
        BY <1>1, <2>1, <2>3, <2>9 DEF LegacySeen
      <3>3. ASSUME NEW e \in D, x.role = Legacy, Same(x, e), First(e, D) PROVE x.no = e.no
        <4>1. e.role = Legacy /\ d.role = Legacy /\ d.subject = e.subject
          BY <2>1, <3>3 DEF Same
        <4>2. e.no <= d.no
          BY <1>2, <3>3, <4>1 DEF First
        <4>3. ~ ToOpen(es, j, e)
          BY <1>0, <4>2 DEF OldestFirst
        <4>4. CASE e = d
          BY <2>1, <4>4
        <4>5. CASE e # d
          <5>1. RowsFor(T, e) # {}
            BY <1>1, <1>2, <3>3, <4>1, <4>3, <4>5 DEF LegacySeen
          <5>2. PICK y \in T : y.no = e.no
            BY <5>1 DEF RowsFor
          <5>3. PICK f \in D : y.no = f.no /\ Same(y, f)
            BY <1>1
          <5>4. f = e
            BY <1>3, <5>2, <5>3
          <5>5. y.role = Legacy /\ Same(x, y)
            BY <3>3, <4>1, <5>3, <5>4 DEF Same
          <5> QED
            BY <2>10, <5>5
        <4> QED
          BY <4>4, <4>5
      <3>4. \A y \in U : \A e \in D : y.role = Legacy /\ Same(y, e) /\ First(e, D) => y.no = e.no
        BY <1>1, <2>1, <3>3 DEF LegacySeen
      <3>5. \A e \in D : e.role = Legacy /\ First(e, D) => ToOpen(es, j, e) \/ RowsFor(U, e) # {}
        BY <1>1, <1>2, <2>7, <2>8 DEF LegacySeen
      <3> QED
        BY <3>1, <3>2, <3>4, <3>5 DEF LegacySeen
    <2>12. ASSUME NEW e \in D, e.role # Legacy
           PROVE  /\ ToOpen(es, j, e) \/ RowsFor(U, e) # {}
                  /\ \/ OpenThere(U, j, es, D, e)
                     \/ h \in reps /\ ToConcern(es, j, e) /\ AllThere(U, D, e)
                  /\ Mixed(e, D, reps) \/ RowSeen(U, R, j, es, h, reps, e)
      <3>0. /\ ToOpen(es, i, e) \/ RowsFor(T, e) # {}
            /\ \/ OpenThere(T, i, es, D, e)
               \/ h \in reps /\ ToConcern(es, i, e) /\ AllThere(T, D, e)
            /\ Mixed(e, D, reps) \/ RowSeen(T, R, i, es, h, reps, e)
        BY <1>1, <2>12 DEF OthersSeen
      <3>1. ToOpen(es, j, e) \/ RowsFor(U, e) # {}
        BY <1>2, <2>7, <2>8, <3>0
      <3>2. OpenThere(U, j, es, D, e) \/ (h \in reps /\ ToConcern(es, j, e) /\ AllThere(U, D, e))
        <4>1. CASE Same(e, d)
          <5>1. OpenRows(U, e) # {}
            <6>1. x \in U /\ Same(x, e)
              BY <2>1, <4>1 DEF Same
            <6> QED
              BY <2>1, <6>1 DEF OpenRows
          <5>2. Same(d, e)
            BY <4>1 DEF Same
          <5> QED
            BY <1>2, <5>1, <5>2 DEF OpenThere
        <4>2. CASE ~ Same(e, d)
          <5>1. \A f \in D : Same(f, e) => (OpenAfter(es, i, f) <=> OpenAfter(es, j, f))
            BY <1>2, <4>2 DEF Same
          <5>2. ~ Same(x, e)
            BY <2>1, <4>2 DEF Same
          <5>3. OpenRows(U, e) = OpenRows(T, e)
            BY <2>1, <5>2 DEF OpenRows
          <5>4. OpenThere(T, i, es, D, e) => OpenThere(U, j, es, D, e)
            BY <5>1, <5>3 DEF OpenThere
          <5>5. AllThere(T, D, e) => AllThere(U, D, e)
            BY <2>7, <2>8 DEF AllThere
          <5> QED
            BY <1>2, <3>0, <4>2, <5>4, <5>5
        <4> QED
          BY <4>1, <4>2
      <3>3. Mixed(e, D, reps) \/ RowSeen(U, R, j, es, h, reps, e)
        <4> SUFFICES ASSUME ~ Mixed(e, D, reps) PROVE RowSeen(U, R, j, es, h, reps, e)
          OBVIOUS
        <4>1. CASE e # d
          <5>1. ToOpen(es, i, e) <=> ToOpen(es, j, e)
            BY <1>2, <4>1
          <5>2. ToEnd(es, i, e) <=> ToEnd(es, j, e)
            BY <1>2
          <5>3. RowSeen(T, R, i, es, h, reps, e) /\ RowsFor(U, e) = RowsFor(T, e)
            BY <2>7, <3>0, <4>1
          <5> QED
            BY <5>1, <5>2, <5>3, RowSeenSame
        <4>2. CASE e = d
          <5>1. ToOpen(es, i, d) /\ RowSeen(T, R, i, es, h, reps, d)
            BY <1>2, <3>0, <4>2
          <5>2. ~ (Final(T, R, d) /\ h \in reps)
            <6> SUFFICES ASSUME Final(T, R, d), h \in reps PROVE FALSE
              OBVIOUS
            <6>1. ~ ToEnd(es, j, d)
              <7>1. ToEnd(es, j, d) => d.resolved = h
                BY <1>2, ToEndFacts
              <7> QED
                BY <1>2, <4>2, <7>1 DEF Mixed, Same
            <6>2. d.status = "open"
              BY <1>2, <6>1 DEF OpenAfter
            <6>3. PICK y \in T : y.no = d.no /\ y.status = "open"
              BY <6>2 DEF Final, Shows, RowsFor
            <6>4. Same(y, d)
              BY <1>1, <1>2, <1>3, <6>3
            <6> QED
              BY <1>6, <6>3, <6>4 DEF OpenRows
          <5>3. RowsFor(T, d) = {}
            BY <5>1, <5>2 DEF RowSeen
          <5>4. RowsFor(U, d) = {x} /\ x \in U
            BY <2>1, <5>3 DEF RowsFor
          <5>5. CASE ToEnd(es, j, d)
            <6>1. Shows(U, R, d, "open", FALSE)
              BY <2>1, <2>3, <5>4 DEF Shows
            <6> QED
              BY <1>4, <4>2, <5>5, <6>1 DEF RowSeen
          <5>6. CASE ~ ToEnd(es, j, d)
            <6>1. d.status = "open"
              BY <1>2, <5>6 DEF OpenAfter
            <6>2. d.resolved = 0
              BY <1>2, <1>3, <2>12, <4>2, <6>1 DEF DisputeSound
            <6>3. Final(U, R, d)
              BY <2>1, <2>3, <5>4, <6>1, <6>2 DEF Final, Shows
            <6> QED
              BY <1>4, <4>2, <5>6, <6>3 DEF RowSeen
          <5> QED
            BY <5>5, <5>6
        <4> QED
          BY <4>1, <4>2
      <3> QED
        BY <3>1, <3>2, <3>3
    <2>13. OthersSeen(U, R, j, es, D, h, reps)
      BY <2>12 DEF OthersSeen
    <2> QED
      BY <1>0, <2>2, <2>5, <2>6, <2>11, <2>13 DEF DisputesSeen
  <1> QED
    BY <1>5, <1>6

\* When one is resolved, no other of its subject and role is open.
LEMMA EndedAlone ==
    ASSUME NEW es, NEW D, NEW i, OneOpen(es, i, D), NEW d, NextEnds(es, i, D, d), d.role # Legacy
    PROVE  \A e \in D : Same(e, d) => ~ OpenAfter(es, i + 1, e) /\ (e # d => ~ OpenAfter(es, i, e))
  <1> SUFFICES ASSUME NEW e \in D, Same(e, d)
               PROVE  ~ OpenAfter(es, i + 1, e) /\ (e # d => ~ OpenAfter(es, i, e))
    OBVIOUS
  <1>1. Same(d, e)
    BY DEF Same
  <1>2. e # d => ~ OpenAfter(es, i, e)
    BY <1>1 DEF OneOpen, NextEnds
  <1> QED
    BY <1>2 DEF NextEnds

\* A dispute is resolved: its row follows, and no other.
LEMMA EndStep ==
    ASSUME NEW es \in Seq(Events), NEW D \in SUBSET Disputes, NEW h \in Nat, NEW n,
           DisputesTold(es, D, h, n), NEW i \in Nat, i < Len(es), NEW d, NextEnds(es, i, D, d),
           d.role # Legacy, d.resolved = h, d.status # "open",
           NEW T \in SUBSET DisputeRows, IsFiniteSet(T), NEW R, NEW U, NEW Q,
           OpenRows(T, d) = {} => U = T /\ Q = R, OpenRows(T, d) # {} => FlipsRow(T, U, R, Q, d),
           NEW g, NEW reps, DisputesSeen(T, R, i, es, D, h, g, reps)
    PROVE  DisputesSeen(U, Q, i + 1, es, D, h, g, reps)
  <1>0. PICK j : j = i + 1 /\ j \in 0..Len(es) /\ i \in 0..Len(es)
    OBVIOUS
  <1>1. /\ Numbered(T)
        /\ \A x, y \in T : Same(x, y) /\ x.status = "open" /\ y.status = "open" => x = y
        /\ \A x \in T : \E e \in D : x.no = e.no /\ Same(x, e)
        /\ LegacySeen(T, R, i, es, D, g)
        /\ OthersSeen(T, R, i, es, D, h, reps)
    BY DEF DisputesSeen
  <1>2. /\ d \in D /\ OpenAfter(es, i, d) /\ ~ ToOpen(es, i, d)
        /\ ~ ToOpen(es, j, d) /\ ~ ToEnd(es, j, d)
        /\ \A e \in D : /\ ToOpen(es, i, e) <=> ToOpen(es, j, e)
                        /\ ToEnd(es, i, e) <=> e = d \/ ToEnd(es, j, e)
                        /\ OpenAfter(es, i, e) <=> e = d \/ OpenAfter(es, j, e)
                        /\ ToConcern(es, i, e) => Same(e, d) \/ ToConcern(es, j, e)
    BY <1>0 DEF NextEnds
  <1>3. /\ \A e, f \in D : e.no = f.no => e = f
        /\ \A e \in D : DisputeSound(e, h, n)
        /\ OneOpen(es, i, D)
    BY <1>0 DEF DisputesTold
  <1>4. \A e \in D : Same(e, d) => ~ OpenAfter(es, j, e) /\ (e # d => ~ OpenAfter(es, i, e))
    BY <1>0, <1>3, EndedAlone
  <1>5. \A e \in D : \A x \in T : x.no = e.no => Same(x, e)
    BY <1>1, <1>3
  <1>6. \A e \in D : ~ Same(e, d) =>
          \A f \in D : Same(f, e) => (OpenAfter(es, i, f) <=> OpenAfter(es, j, f))
    BY <1>2 DEF Same
  <1>7. CASE OpenRows(T, d) = {}
    <2>1. U = T /\ Q = R
      BY <1>7
    <2>2. LegacySeen(U, Q, j, es, D, g)
      BY <1>1, <1>2, <2>1 DEF LegacySeen
    <2>3. ASSUME NEW e \in D, e.role # Legacy
          PROVE  /\ ToOpen(es, j, e) \/ RowsFor(T, e) # {}
                 /\ \/ OpenThere(T, j, es, D, e)
                    \/ h \in reps /\ ToConcern(es, j, e) /\ AllThere(T, D, e)
                 /\ Mixed(e, D, reps) \/ RowSeen(T, R, j, es, h, reps, e)
      <3>0. /\ ToOpen(es, i, e) \/ RowsFor(T, e) # {}
            /\ \/ OpenThere(T, i, es, D, e)
               \/ h \in reps /\ ToConcern(es, i, e) /\ AllThere(T, D, e)
            /\ Mixed(e, D, reps) \/ RowSeen(T, R, i, es, h, reps, e)
        BY <1>1, <2>3 DEF OthersSeen
      <3>1. OpenThere(T, j, es, D, e) \/ (h \in reps /\ ToConcern(es, j, e) /\ AllThere(T, D, e))
        <4>1. CASE Same(e, d)
          <5>1. OpenRows(T, e) = {}
            BY <1>7, <4>1 DEF OpenRows, Same
          <5>2. \A f \in D : Same(f, e) => Same(f, d)
            BY <4>1 DEF Same
          <5> QED
            BY <1>4, <5>1, <5>2 DEF OpenThere
        <4>2. CASE ~ Same(e, d)
          <5>1. OpenThere(T, i, es, D, e) => OpenThere(T, j, es, D, e)
            BY <1>6, <4>2 DEF OpenThere
          <5> QED
            BY <1>2, <3>0, <4>2, <5>1
        <4> QED
          BY <4>1, <4>2
      <3>2. ~ Shows(T, R, d, "open", FALSE)
        <4> SUFFICES ASSUME Shows(T, R, d, "open", FALSE) PROVE FALSE
          OBVIOUS
        <4>1. PICK x \in T : x.no = d.no /\ x.status = "open"
          BY DEF Shows, RowsFor
        <4> QED
          BY <1>2, <1>5, <1>7, <4>1 DEF OpenRows
      <3>3. Mixed(e, D, reps) \/ RowSeen(T, R, j, es, h, reps, e)
        BY <1>2, <3>0, <3>2 DEF RowSeen
      <3> QED
        BY <1>2, <3>0, <3>1, <3>3
    <2>4. OthersSeen(U, Q, j, es, D, h, reps)
      BY <2>1, <2>3 DEF OthersSeen
    <2> QED
      BY <1>0, <1>1, <2>1, <2>2, <2>4 DEF DisputesSeen
  <1>8. CASE OpenRows(T, d) # {}
    <2>1. PICK y \in OpenRows(T, d) : \E z \in DisputeRows :
            /\ U = (T \ {y}) \cup {z}
            /\ Q = R \cup {y.id}
            /\ z.id = y.id /\ z.no = y.no /\ Same(z, y) /\ z.status = d.status
      BY <1>8 DEF FlipsRow
    <2>2. PICK z \in DisputeRows :
            /\ U = (T \ {y}) \cup {z}
            /\ Q = R \cup {y.id}
            /\ z.id = y.id /\ z.no = y.no /\ Same(z, y) /\ z.status = d.status
      BY <2>1
    <2>3. y \in T /\ Same(y, d) /\ y.status = "open" /\ Same(z, d) /\ y.role # Legacy /\ z.role # Legacy
      BY <2>2 DEF OpenRows, Same
    <2>4. Numbered(U)
      BY <1>1, <2>2, <2>3, NumberedFlips
    <2>5. \A x \in T : x # y => (x.id \in Q <=> x.id \in R)
      BY <1>1, <2>2, <2>3 DEF Numbered
    <2>6. \A x, w \in U : Same(x, w) /\ x.status = "open" /\ w.status = "open" => x = w
      BY <1>1, <2>2
    <2>7. \A x \in U : \E e \in D : x.no = e.no /\ Same(x, e)
      <3>1. PICK e \in D : y.no = e.no /\ Same(y, e)
        BY <1>1, <2>3
      <3>2. z.no = e.no /\ Same(z, e)
        BY <2>2, <3>1 DEF Same
      <3> QED
        BY <1>1, <2>2, <3>2
    <2>8. \A e : RowsFor(T, e) # {} => RowsFor(U, e) # {}
      BY <2>2, <2>3 DEF RowsFor
    <2>9. \A e : y.no # e.no => RowsFor(U, e) = RowsFor(T, e) /\ y \notin RowsFor(T, e)
      BY <2>2 DEF RowsFor
    <2>10. LegacySeen(U, Q, j, es, D, g)
      <3>1. \A x \in U : x.role = Legacy => x \in T /\ x # y
        BY <2>2, <2>3
      <3>2. \A x, w \in U : x.role = Legacy /\ Same(x, w) => w.role = Legacy
        BY DEF Same
      <3>3. \A x, w \in U : x.role = Legacy /\ Same(x, w) => x = w
        BY <1>1, <3>1, <3>2 DEF LegacySeen
      <3>4. \A x \in U : \A e \in D : x.role = Legacy /\ Same(x, e) /\ First(e, D) => x.no = e.no
        BY <1>1, <3>1 DEF LegacySeen
      <3>5. \A x \in U : x.role = Legacy => x.id \notin Q /\ x.status = IF g THEN "dismissed" ELSE "open"
        BY <1>1, <2>5, <3>1 DEF LegacySeen
      <3>6. \A e \in D : e.role = Legacy /\ First(e, D) => ToOpen(es, j, e) \/ RowsFor(U, e) # {}
        BY <1>1, <1>2, <2>8 DEF LegacySeen
      <3> QED
        BY <3>3, <3>4, <3>5, <3>6 DEF LegacySeen
    <2>11. ASSUME NEW e \in D, e.role # Legacy
           PROVE  /\ ToOpen(es, j, e) \/ RowsFor(U, e) # {}
                  /\ \/ OpenThere(U, j, es, D, e)
                     \/ h \in reps /\ ToConcern(es, j, e) /\ AllThere(U, D, e)
                  /\ Mixed(e, D, reps) \/ RowSeen(U, Q, j, es, h, reps, e)
      <3>0. /\ ToOpen(es, i, e) \/ RowsFor(T, e) # {}
            /\ \/ OpenThere(T, i, es, D, e)
               \/ h \in reps /\ ToConcern(es, i, e) /\ AllThere(T, D, e)
            /\ Mixed(e, D, reps) \/ RowSeen(T, R, i, es, h, reps, e)
        BY <1>1, <2>11 DEF OthersSeen
      <3>1. ToOpen(es, j, e) \/ RowsFor(U, e) # {}
        BY <1>2, <2>8, <3>0
      <3>2. OpenThere(U, j, es, D, e) \/ (h \in reps /\ ToConcern(es, j, e) /\ AllThere(U, D, e))
        <4>1. CASE Same(e, d)
          <5>1. \A x : Same(x, e) => Same(x, d)
            BY <4>1 DEF Same
          <5>2. \A x \in T : Same(x, d) /\ x.status = "open" => x = y
            <6>1. \A x \in T : Same(x, d) => Same(x, y)
              BY <2>3 DEF Same
            <6> QED
              BY <1>1, <2>3, <6>1
          <5>3. OpenRows(U, e) = {}
            BY <2>2, <5>1, <5>2 DEF OpenRows
          <5> QED
            BY <1>4, <5>1, <5>3 DEF OpenThere
        <4>2. CASE ~ Same(e, d)
          <5>1. ~ Same(y, e) /\ ~ Same(z, e)
            BY <2>3, <4>2 DEF Same
          <5>2. OpenRows(U, e) = OpenRows(T, e)
            BY <2>2, <5>1 DEF OpenRows
          <5>3. OpenThere(T, i, es, D, e) => OpenThere(U, j, es, D, e)
            BY <1>6, <4>2, <5>2 DEF OpenThere
          <5>4. AllThere(T, D, e) => AllThere(U, D, e)
            BY <2>8 DEF AllThere
          <5> QED
            BY <1>2, <3>0, <4>2, <5>3, <5>4
        <4> QED
          BY <4>1, <4>2
      <3>3. Mixed(e, D, reps) \/ RowSeen(U, Q, j, es, h, reps, e)
        <4> SUFFICES ASSUME ~ Mixed(e, D, reps) PROVE RowSeen(U, Q, j, es, h, reps, e)
          OBVIOUS
        <4>0. RowSeen(T, R, i, es, h, reps, e)
          BY <3>0
        <4>1. CASE y.no # e.no
          <5>1. RowsFor(U, e) = RowsFor(T, e) /\ \A x \in RowsFor(T, e) : x.id \in Q <=> x.id \in R
            BY <2>5, <2>9, <4>1 DEF RowsFor
          <5>2. CASE e # d
            <6>1. ToOpen(es, i, e) <=> ToOpen(es, j, e)
              BY <1>2
            <6>2. ToEnd(es, i, e) <=> ToEnd(es, j, e)
              BY <1>2, <5>2
            <6> QED
              BY <4>0, <5>1, <6>1, <6>2, RowSeenSame
          <5>3. CASE e = d
            <6>1. ~ Shows(T, R, d, "open", FALSE)
              <7> SUFFICES ASSUME Shows(T, R, d, "open", FALSE) PROVE FALSE
                OBVIOUS
              <7>1. PICK x \in T : x.no = d.no /\ x.status = "open"
                BY DEF Shows, RowsFor
              <7>2. Same(x, y)
                BY <1>2, <1>5, <2>3, <7>1 DEF Same
              <7> QED
                BY <1>1, <2>3, <4>1, <5>3, <7>1, <7>2
            <6>2. Final(T, R, e)
              BY <1>2, <4>0, <5>3, <6>1 DEF RowSeen
            <6>3. Final(U, Q, e)
              BY <5>1, <6>2, ShowsSame DEF Final
            <6> QED
              BY <1>2, <5>3, <6>3 DEF RowSeen
          <5> QED
            BY <5>2, <5>3
        <4>2. CASE y.no = e.no
          <5>1. y \in RowsFor(T, e) /\ Same(y, e)
            BY <1>5, <2>3, <4>2 DEF RowsFor
          <5>2. \A s, b : Shows(T, R, e, s, b) => s = "open" /\ RowsFor(T, e) = {y}
            BY <2>3, <5>1 DEF Shows
          <5>3. CASE e = d
            <6>1. Shows(T, R, e, "open", FALSE)
              BY <1>2, <4>0, <5>1, <5>2, <5>3 DEF RowSeen, Final
            <6>2. RowsFor(T, e) = {y}
              BY <5>2, <6>1
            <6>3. RowsFor(U, e) = {z} /\ z \in U /\ z.id \in Q
              BY <2>2, <4>2, <6>2 DEF RowsFor
            <6>4. d.resolved # 0
              BY <1>2, <1>3 DEF DisputeSound
            <6>5. Final(U, Q, e)
              BY <2>2, <5>3, <6>3, <6>4 DEF Final, Shows
            <6> QED
              BY <1>2, <5>3, <6>5 DEF RowSeen
          <5>4. CASE e # d
            <6>1. Same(e, d) /\ Same(d, e) /\ Same(e, e)
              BY <2>3, <5>1 DEF Same
            <6>2. ~ OpenAfter(es, i, e)
              BY <1>4, <5>4, <6>1
            <6>3. Final(T, R, e) /\ (ToOpen(es, i, e) \/ ToEnd(es, i, e) => h \in reps)
              BY <4>0, <5>1, <6>2 DEF RowSeen, OpenAfter
            <6>4. e.status = "open"
              BY <5>2, <6>3 DEF Final
            <6>5. ToOpen(es, i, e) /\ h \in reps
              BY <6>2, <6>3, <6>4 DEF OpenAfter
            <6>6. e.at = h
              BY <6>5, ToOpenFacts
            <6> QED
              BY <1>2, <6>1, <6>5, <6>6 DEF Mixed
          <5> QED
            BY <5>3, <5>4
        <4> QED
          BY <4>1, <4>2
      <3> QED
        BY <3>1, <3>2, <3>3
    <2>12. OthersSeen(U, Q, j, es, D, h, reps)
      BY <2>11 DEF OthersSeen
    <2> QED
      BY <1>0, <2>4, <2>6, <2>7, <2>10, <2>12 DEF DisputesSeen
  <1> QED
    BY <1>7, <1>8

\* An event that is not about disputes.
LEMMA DisputesPass ==
    ASSUME NEW es \in Seq(Events), NEW i \in Nat, i < Len(es), es[i + 1] \notin DisputeEvents,
           NEW T, NEW R, NEW D, NEW h, NEW g, NEW reps, DisputesSeen(T, R, i, es, D, h, g, reps)
    PROVE  DisputesSeen(T, R, i + 1, es, D, h, g, reps)
  <1>0. PICK j : j = i + 1 /\ j \in 1..Len(es)
    OBVIOUS
  <1>1. es[j].type # "dispute" /\ es[j].type # "resolve"
    BY <1>0 DEF Events, WholeEvents, ClaimEvents, DisputeEvents, StakeEvents
  <1>2. \A d : /\ ToOpen(es, i, d) <=> ToOpen(es, j, d)
               /\ ToEnd(es, i, d) <=> ToEnd(es, j, d)
               /\ ToConcern(es, i, d) <=> ToConcern(es, j, d)
    BY <1>0, <1>1, ComingStep DEF Opens, Ends, Concerns
  <1>3. LegacySeen(T, R, j, es, D, g)
    BY <1>2 DEF DisputesSeen, LegacySeen
  <1>4. \A d \in D : OpenThere(T, i, es, D, d) <=> OpenThere(T, j, es, D, d)
    BY <1>2 DEF OpenThere, OpenAfter
  <1>5. \A d \in D : RowSeen(T, R, i, es, h, reps, d) <=> RowSeen(T, R, j, es, h, reps, d)
    BY <1>2 DEF RowSeen
  <1>6. OthersSeen(T, R, j, es, D, h, reps)
    BY <1>2, <1>4, <1>5 DEF DisputesSeen, OthersSeen
  <1> QED
    BY <1>0, <1>3, <1>6 DEF DisputesSeen

\* An event is handled, ...
LEMMA DisputesStep ==
    ASSUME NEW es \in Seq(Events), NEW D \in SUBSET Disputes, NEW h \in Nat, NEW n,
           DisputesTold(es, D, h, n), NEW i \in Nat, i < Len(es), Sound(es[i + 1]),
           NEW r, IsTables(r), NEW g \in BOOLEAN, g => h >= UpgradeHeight, NEW reps,
           DisputesSeen(r.dispute, r.resolution, i, es, D, h, g, reps)
    PROVE  LET q == Handle(r, es[i + 1])
           IN  IsTables(q) /\ DisputesSeen(q.dispute, q.resolution, i + 1, es, D, h, g, reps)
  <1>1. PICK ev, q : ev = es[i + 1] /\ q = Handle(r, ev)
    OBVIOUS
  <1>2. ev \in Events /\ i + 1 \in 1..Len(es) /\ Sound(ev)
    BY <1>1
  <1>3. /\ IsTables(q)
        /\ ev \in WholeEvents => WholeHandled(q, r, ev)
        /\ ev \in ClaimEvents => ClaimHandled(q, r, ev)
        /\ ev \in StakeEvents => StakeHandled(q, r, ev.tx)
    BY <1>1, <1>2, HandleFacts
  <1>4. r.dispute \in SUBSET DisputeRows /\ IsFiniteSet(r.dispute)
        /\ r.resolution \subseteq {x.id : x \in r.dispute}
    BY DEF IsTables, Tables, Resolved
  <1>5. CASE ev \notin DisputeEvents
    <2>1. q.dispute = r.dispute /\ q.resolution = r.resolution
      BY <1>2, <1>3, <1>5 DEF Events, WholeHandled, ClaimHandled, StakeHandled, SameBut
    <2> QED
      BY <1>1, <1>3, <1>5, <2>1, DisputesPass
  <1>6. CASE ev \in DisputeEvents
    <2>1. q = HandleDispute(r, ev) /\ ev.dispute \in Disputes /\ ev.type \in {"dispute", "resolve"}
      BY <1>1, <1>2, <1>6, HandleIs DEF DisputeEvents
    <2>2. CASE ev.type = "dispute"
      <3>1. PICK d \in D : /\ ev.dispute.no = d.no /\ Same(ev.dispute, d)
                           /\ ev.dispute.status = "open"
                           /\ d.at = h
                           /\ \A e \in D : e.no <= d.no => ~ ToOpen(es, i + 1, e)
                           /\ NextOpens(es, i, D, d)
        BY <1>1, <2>2, OpeningNext
      <3>2. q = CreateDispute(r, ev.dispute)
        BY <2>1, <2>2 DEF HandleDispute
      <3>3. OpenRows(r.dispute, ev.dispute) = OpenRows(r.dispute, d)
        BY <3>1 DEF OpenRows, Same
      <3>4. \A U : AddsRow(r.dispute, U, ev.dispute) => AddsRow(r.dispute, U, d)
        BY <3>1 DEF AddsRow, Same
      <3>5. /\ q.resolution = r.resolution
            /\ OpenRows(r.dispute, d) # {} => q.dispute = r.dispute
            /\ OpenRows(r.dispute, d) = {} => AddsRow(r.dispute, q.dispute, d)
        BY <2>1, <3>1, <3>2, <3>3, <3>4, CreateDisputeRows
      <3>6. PICK U : U = q.dispute
        OBVIOUS
      <3>7. /\ OpenRows(r.dispute, d) # {} => U = r.dispute
            /\ OpenRows(r.dispute, d) = {} => AddsRow(r.dispute, U, d)
        BY <3>5, <3>6
      <3>8. PICK T, R : T = r.dispute /\ R = r.resolution
        OBVIOUS
      <3>9. DisputesSeen(U, R, i + 1, es, D, h, g, reps)
        <4>1. T \in SUBSET DisputeRows /\ IsFiniteSet(T) /\ \A k \in R : \E x \in T : x.id = k
          BY <1>4, <3>8
        <4>2. DisputesSeen(T, R, i, es, D, h, g, reps)
          BY <3>8
        <4>3. /\ OpenRows(T, d) # {} => U = T
              /\ OpenRows(T, d) = {} => AddsRow(T, U, d)
          BY <3>7, <3>8
        <4>4. OldestFirst(es, i + 1, D, d) /\ TakenSince(g, h)
          BY <3>1 DEF OldestFirst, TakenSince
        <4>5. NextOpens(es, i, D, d) /\ d.at = h
          BY <3>1
        <4> QED
          BY <4>1, <4>2, <4>3, <4>4, <4>5, OpeningStep
      <3> QED
        BY <1>1, <1>3, <3>5, <3>6, <3>8, <3>9
    <2>3. CASE ev.type = "resolve"
      <3>1. PICK d : d = ev.dispute
        OBVIOUS
      <3>2. /\ NextEnds(es, i, D, d)
            /\ d.role # Legacy /\ d.resolved = h
        BY <1>1, <2>3, <3>1, EndNext
      <3>3. d.status # "open"
        <4>1. EndTold(es, i + 1, D, h)
          BY <1>1, <1>2, <2>3 DEF DisputesTold
        <4> QED
          BY <1>1, <3>1, <4>1 DEF EndTold
      <3>4. q = ResolveDispute(r, d)
        BY <2>1, <2>3, <3>1 DEF HandleDispute
      <3>5. PICK U, Q : U = q.dispute /\ Q = q.resolution
        OBVIOUS
      <3>6. /\ OpenRows(r.dispute, d) = {} => U = r.dispute /\ Q = r.resolution
            /\ OpenRows(r.dispute, d) # {} => FlipsRow(r.dispute, U, r.resolution, Q, d)
        BY <2>1, <3>1, <3>4, <3>5, ResolveDisputeRows
      <3>7. DisputesSeen(U, Q, i + 1, es, D, h, g, reps)
        BY <1>4, <3>2, <3>3, <3>6, EndStep
      <3> QED
        BY <1>1, <1>3, <3>5, <3>7
    <2> QED
      BY <2>1, <2>2, <2>3
  <1> QED
    BY <1>5, <1>6

\* ... and all of a block.
LEMMA DisputesBlock ==
    ASSUME NEW r, IsTables(r), events \in Seq(Events), \A j \in 1..Len(events) : Sound(events[j]),
           NEW D \in SUBSET Disputes, NEW h \in Nat, NEW n, DisputesTold(events, D, h, n),
           NEW g \in BOOLEAN, g => h >= UpgradeHeight, NEW reps,
           DisputesSeen(r.dispute, r.resolution, 0, events, D, h, g, reps)
    PROVE  DisputesSeen(Handled(r).dispute, Handled(r).resolution, Len(events), events, D, h, g, reps)
  <1>0. Len(events) \in Nat
    OBVIOUS
  <1>1. PICK f : /\ f[0] = r
                 /\ \A i \in 1..Len(events) : f[i] = Handle(f[i - 1], events[i])
                 /\ Handled(r) = f[Len(events)]
    BY <1>0, HandledSteps
  <1> DEFINE Good(i) == /\ IsTables(f[i])
                        /\ DisputesSeen(f[i].dispute, f[i].resolution, i, events, D, h, g, reps)
             G == {i \in Nat : i <= Len(events) => Good(i)}
  <1>2. 0 \in G
    BY <1>1
  <1>3. ASSUME NEW i \in G PROVE i + 1 \in G
    <2>0. i \in Nat /\ i + 1 \in Nat
      OBVIOUS
    <2> SUFFICES ASSUME i + 1 <= Len(events) PROVE Good(i + 1)
      BY <2>0
    <2>1. i <= Len(events) /\ i < Len(events) /\ i + 1 \in 1..Len(events) /\ (i + 1) - 1 = i
      BY <1>0, <2>0
    <2>2. Good(i)
      BY <2>1
    <2>3. f[i + 1] = Handle(f[i], events[i + 1])
      BY <1>1, <2>1
    <2>4. PICK p : p = f[i]
      OBVIOUS
    <2>5. IsTables(p) /\ DisputesSeen(p.dispute, p.resolution, i, events, D, h, g, reps)
      BY <2>2, <2>4
    <2>6. Sound(events[i + 1])
      BY <2>1
    <2>7. PICK q : q = Handle(p, events[i + 1])
      OBVIOUS
    <2>8. IsTables(q) /\ DisputesSeen(q.dispute, q.resolution, i + 1, events, D, h, g, reps)
      BY <2>0, <2>1, <2>5, <2>6, <2>7, DisputesStep
    <2> QED
      BY <2>3, <2>4, <2>7, <2>8
  <1>4. G = Nat
    <2> HIDE DEF G
    <2>1. G \in SUBSET Nat
      BY DEF G
    <2> QED
      BY <1>2, <1>3, <2>1, Induction
  <1> HIDE DEF Good
  <1>5. Good(Len(events))
    <2>1. Len(events) \in G
      BY <1>0, <1>4
    <2> QED
      BY <1>0, <2>1
  <1> QED
    BY <1>1, <1>5 DEF Good

\* What is still to come of a dispute concerns it.
LEMMA ToConcernFacts ==
    ASSUME NEW es, NEW D, NEW h, NEW n, DisputesTold(es, D, h, n), NEW i, NEW e \in D,
           ToOpen(es, i, e) \/ ToEnd(es, i, e)
    PROVE  ToConcern(es, i, e)
  <1>1. CASE ToOpen(es, i, e)
    <2>1. PICK j \in 1..Len(es) : j > i /\ es[j].type = "dispute" /\ es[j].dispute.no = e.no
      BY <1>1 DEF ToOpen, Opens
    <2>2. OpeningTold(es, j, D, h)
      BY <2>1 DEF DisputesTold
    <2>3. Same(es[j].dispute, e)
      BY <2>1, <2>2 DEF OpeningTold, DisputesTold
    <2> QED
      BY <2>1, <2>3 DEF ToConcern, Concerns
  <1>2. CASE ToEnd(es, i, e)
    <2>1. PICK j \in 1..Len(es) : j > i /\ es[j].type = "resolve" /\ es[j].dispute.no = e.no
      BY <1>2 DEF ToEnd, Ends
    <2>2. EndTold(es, j, D, h)
      BY <2>1 DEF DisputesTold
    <2>3. es[j].dispute = e
      BY <2>1, <2>2 DEF EndTold, DisputesTold
    <2> QED
      BY <2>1, <2>3 DEF ToConcern, Concerns, Same
  <1> QED
    BY <1>1, <1>2

\* A block may be indexed again.
LEMMA DisputesAgain ==
    ASSUME NEW es \in Seq(Events), NEW D \in SUBSET Disputes, NEW h, NEW n, DisputesTold(es, D, h, n),
           NEW T, NEW R, NEW g, NEW reps, DisputesSeen(T, R, Len(es), es, D, h, g, reps)
    PROVE  DisputesSeen(T, R, 0, es, D, h, g, reps \cup {h})
  <1>0. PICK l, all : l = Len(es) /\ all = reps \cup {h}
    OBVIOUS
  <1>1. \A d : ~ ToOpen(es, l, d) /\ ~ ToEnd(es, l, d) /\ ~ ToConcern(es, l, d)
    BY <1>0, NothingComes
  <1>2. LegacySeen(T, R, l, es, D, g) /\ OthersSeen(T, R, l, es, D, h, reps)
    BY <1>0 DEF DisputesSeen
  <1>3. LegacySeen(T, R, 0, es, D, g)
    BY <1>1, <1>2 DEF LegacySeen
  <1>4. ASSUME NEW d \in D, d.role # Legacy
        PROVE  /\ RowsFor(T, d) # {}
               /\ OpenThere(T, 0, es, D, d) \/ (ToConcern(es, 0, d) /\ AllThere(T, D, d))
               /\ Mixed(d, D, all) \/ RowSeen(T, R, 0, es, h, all, d)
    <2>1. /\ RowsFor(T, d) # {}
          /\ OpenThere(T, l, es, D, d)
          /\ Mixed(d, D, reps) \/ RowSeen(T, R, l, es, h, reps, d)
      BY <1>1, <1>2, <1>4 DEF OthersSeen
    <2>2. OpenThere(T, 0, es, D, d) \/ (ToConcern(es, 0, d) /\ AllThere(T, D, d))
      <3>1. CASE ToConcern(es, 0, d)
        <4>1. \A e \in D : Same(e, d) => e.role # Legacy
          BY <1>4 DEF Same
        <4>2. AllThere(T, D, d)
          BY <1>1, <1>2, <4>1 DEF OthersSeen, AllThere
        <4> QED
          BY <3>1, <4>2
      <3>2. CASE ~ ToConcern(es, 0, d)
        <4>1. ASSUME NEW e \in D, Same(e, d) PROVE ~ ToOpen(es, 0, e) /\ ~ ToEnd(es, 0, e)
          <5>1. ToConcern(es, 0, e) => ToConcern(es, 0, d)
            BY <4>1 DEF ToConcern, Concerns, Same
          <5> QED
            BY <3>2, <5>1, ToConcernFacts
        <4>2. \A e \in D : Same(e, d) => (OpenAfter(es, 0, e) <=> OpenAfter(es, l, e))
          BY <1>1, <4>1 DEF OpenAfter
        <4>3. OpenThere(T, 0, es, D, d)
          BY <2>1, <4>2 DEF OpenThere
        <4> QED
          BY <4>3
      <3> QED
        BY <3>1, <3>2
    <2>3. Mixed(d, D, reps) => Mixed(d, D, all)
      BY <1>0 DEF Mixed
    <2>4. RowSeen(T, R, l, es, h, reps, d) => RowSeen(T, R, 0, es, h, all, d)
      BY <1>0, <1>1 DEF RowSeen
    <2> QED
      BY <2>1, <2>2, <2>3, <2>4
  <1>5. OthersSeen(T, R, 0, es, D, h, all)
    BY <1>0, <1>4 DEF OthersSeen
  <1> QED
    BY <1>0, <1>3, <1>5 DEF DisputesSeen

----------------------------------------------------------------------------
(* Disputes: the chain emits an event.                                      *)

\* The next event of a block: what is still to come, before and after it.
Longer(fs, es, e, m) ==
    /\ m = Len(es) /\ m \in Nat /\ Len(fs) = m + 1 /\ fs[m + 1] = e
    /\ \A j \in 1..m : fs[j] = es[j]
    /\ \A i \in 0..m : \A d :
         /\ ToOpen(fs, i, d) <=> Opens(e, d) \/ ToOpen(es, i, d)
         /\ ToEnd(fs, i, d) <=> Ends(e, d) \/ ToEnd(es, i, d)
         /\ ToConcern(fs, i, d) <=> Concerns(e, d) \/ ToConcern(es, i, d)
    /\ \A d : ~ ToOpen(es, m, d) /\ ~ ToEnd(es, m, d)
    /\ \A d : ~ ToOpen(fs, m + 1, d) /\ ~ ToEnd(fs, m + 1, d)

\* Appending the event makes the block one longer.
LEMMA LongerFacts ==
    ASSUME NEW es \in Seq(Events), NEW e \in Events
    PROVE  Longer(Append(es, e), es, e, Len(es))
  <1>1. PICK fs, m : fs = Append(es, e) /\ m = Len(es)
    OBVIOUS
  <1>2. /\ m \in Nat /\ fs \in Seq(Events) /\ Len(fs) = m + 1 /\ fs[m + 1] = e
        /\ \A j \in 1..m : fs[j] = es[j]
    BY <1>1, AppendFacts
  <1>3. \A i \in 0..m : \A d :
         /\ ToOpen(fs, i, d) <=> Opens(e, d) \/ ToOpen(es, i, d)
         /\ ToEnd(fs, i, d) <=> Ends(e, d) \/ ToEnd(es, i, d)
         /\ ToConcern(fs, i, d) <=> Concerns(e, d) \/ ToConcern(es, i, d)
    BY <1>1, ComingMore
  <1>4. \A d : ~ ToOpen(es, m, d) /\ ~ ToEnd(es, m, d)
    BY <1>1, NothingComes
  <1>5. \A d : ~ ToOpen(fs, m + 1, d) /\ ~ ToEnd(fs, m + 1, d)
    BY <1>2, NothingComes
  <1> QED
    BY <1>1, <1>2, <1>3, <1>4, <1>5 DEF Longer

\* One that is not about disputes.
LEMMA DisputesQuiet ==
    ASSUME NEW es \in Seq(Events), NEW e \in Events, e \notin DisputeEvents, NEW D, NEW h, NEW n,
           DisputesTold(es, D, h, n), NEW T, NEW R, NEW g, NEW reps,
           DisputesSeen(T, R, 0, es, D, h, g, reps)
    PROVE  /\ DisputesTold(Append(es, e), D, h, n)
           /\ DisputesSeen(T, R, 0, Append(es, e), D, h, g, reps)
  <1>1. PICK fs, m : fs = Append(es, e) /\ Longer(fs, es, e, m)
    BY LongerFacts
  <1>2. \A d : ~ Opens(e, d) /\ ~ Ends(e, d) /\ ~ Concerns(e, d)
    BY DEF Events, WholeEvents, ClaimEvents, DisputeEvents, StakeEvents, Opens, Ends, Concerns
  <1>3. e.type # "dispute" /\ e.type # "resolve"
    BY DEF Events, WholeEvents, ClaimEvents, DisputeEvents, StakeEvents
  <1>4. /\ m \in Nat /\ m = Len(es) /\ Len(fs) = m + 1 /\ fs[m + 1] = e
        /\ \A j \in 1..m : fs[j] = es[j]
    BY <1>1 DEF Longer
  <1>5. \A i \in 0..m : \A d :
         /\ ToOpen(fs, i, d) <=> ToOpen(es, i, d)
         /\ ToEnd(fs, i, d) <=> ToEnd(es, i, d)
         /\ ToConcern(fs, i, d) <=> ToConcern(es, i, d)
    BY <1>1, <1>2 DEF Longer
  <1>6. \A i \in 0..m : \A d : OpenAfter(fs, i, d) <=> OpenAfter(es, i, d)
    BY <1>5 DEF OpenAfter
  <1>7. \A d : OpenAfter(fs, m + 1, d) <=> OpenAfter(es, m, d)
    BY <1>1 DEF Longer, OpenAfter
  <1>8. \A j \in 1..m + 1 : fs[j].type \in {"dispute", "resolve"} => j \in 1..m /\ j \in 0..m
    BY <1>3, <1>4
  <1>9. ASSUME NEW j \in 1..m + 1, fs[j].type = "dispute" PROVE OpeningTold(fs, j, D, h)
    <2>1. j \in 1..m /\ j \in 0..m /\ fs[j] = es[j] /\ OpeningTold(es, j, D, h)
      BY <1>4, <1>8, <1>9 DEF DisputesTold
    <2> QED
      BY <1>5, <1>6, <2>1 DEF OpeningTold
  <1>10. ASSUME NEW j \in 1..m + 1, fs[j].type = "resolve" PROVE EndTold(fs, j, D, h)
    <2>1. j \in 1..m /\ j \in 0..m /\ fs[j] = es[j] /\ EndTold(es, j, D, h)
      BY <1>4, <1>8, <1>10 DEF DisputesTold
    <2> QED
      BY <1>5, <2>1 DEF EndTold
  <1>11. ASSUME NEW i \in 0..m + 1 PROVE OneOpen(fs, i, D)
    <2>1. CASE i \in 0..m
      <3>1. OneOpen(es, i, D)
        BY <1>4, <2>1 DEF DisputesTold
      <3> QED
        BY <1>6, <2>1, <3>1 DEF OneOpen
    <2>2. CASE i = m + 1
      <3>1. m \in 0..m
        BY <1>4
      <3>2. OneOpen(es, m, D)
        BY <1>4, <3>1 DEF DisputesTold
      <3> QED
        BY <1>7, <2>2, <3>2 DEF OneOpen
    <2> QED
      BY <1>4, <2>1, <2>2
  <1>12. DisputesTold(fs, D, h, n)
    BY <1>4, <1>9, <1>10, <1>11 DEF DisputesTold
  <1>13. 0 \in 0..m
    BY <1>4
  <1>14. LegacySeen(T, R, 0, fs, D, g)
    BY <1>5, <1>13 DEF DisputesSeen, LegacySeen
  <1>15. \A d : OpenThere(T, 0, es, D, d) <=> OpenThere(T, 0, fs, D, d)
    BY <1>6, <1>13 DEF OpenThere
  <1>16. \A d : RowSeen(T, R, 0, es, h, reps, d) <=> RowSeen(T, R, 0, fs, h, reps, d)
    BY <1>5, <1>13 DEF RowSeen
  <1>17. OthersSeen(T, R, 0, fs, D, h, reps)
    BY <1>5, <1>13, <1>15, <1>16 DEF DisputesSeen, OthersSeen
  <1> QED
    BY <1>1, <1>12, <1>14, <1>17 DEF DisputesSeen

\* Only the number of messages grows.
LEMMA DisputesLater ==
    ASSUME NEW es, NEW D \in SUBSET Disputes, NEW h, NEW n \in Nat, DisputesTold(es, D, h, n)
    PROVE  DisputesTold(es, D, h, n + 1)
  <1>1. \A d \in D : DisputeSound(d, h, n + 1)
    <2>1. \A d \in D : d.no \in Nat
      BY DEF Disputes
    <2> QED
      BY <2>1 DEF DisputesTold, DisputeSound
  <1> QED
    BY <1>1 DEF DisputesTold

\* A dispute is opened.
LEMMA DisputesOpened ==
    ASSUME NEW es \in Seq(Events), NEW D \in SUBSET Disputes, NEW h \in Nat, NEW n \in Nat,
           DisputesTold(es, D, h, n), NEW d \in Disputes, d.no = n + 1, d.at = h,
           d.status = "open", d.resolved = 0, d.role = Legacy <=> h < UpgradeHeight,
           d.role # Legacy => \A x \in D : ~ (Same(x, d) /\ x.status = "open"),
           NEW T \in SUBSET DisputeRows, NEW R, NEW g, NEW reps, h \notin reps,
           DisputesSeen(T, R, 0, es, D, h, g, reps)
    PROVE  LET fs == Append(es, [type |-> "dispute", dispute |-> d])
           IN  /\ DisputesTold(fs, D \cup {d}, h, n + 1)
               /\ DisputesSeen(T, R, 0, fs, D \cup {d}, h, g, reps)
  <1>1. PICK e : e = [type |-> "dispute", dispute |-> d]
    OBVIOUS
  <1>2. e \in Events
    BY <1>1 DEF Events, DisputeEvents
  <1>3. PICK fs, m : fs = Append(es, e) /\ Longer(fs, es, e, m)
    BY <1>2, LongerFacts
  <1>4. PICK C : C = D \cup {d}
    OBVIOUS
  <1>5. /\ m \in Nat /\ m = Len(es) /\ Len(fs) = m + 1 /\ fs[m + 1] = e
        /\ \A j \in 1..m : fs[j] = es[j]
    BY <1>3 DEF Longer
  <1>6. /\ \A x, y \in D : x.no = y.no => x = y
        /\ \A x \in D : DisputeSound(x, h, n)
        /\ \A j \in 1..m : es[j].type = "dispute" => OpeningTold(es, j, D, h)
        /\ \A j \in 1..m : es[j].type = "resolve" => EndTold(es, j, D, h)
        /\ \A i \in 0..m : OneOpen(es, i, D)
    BY <1>5 DEF DisputesTold
  <1>7. \A x \in D : x.no \in Nat /\ x.no <= n /\ x.no < d.no /\ x.no # d.no /\ x # d
    BY <1>6 DEF DisputeSound, Disputes
  <1>8. \A i \in 0..m : \A x \in D :
         /\ ToOpen(fs, i, x) <=> ToOpen(es, i, x)
         /\ ToEnd(fs, i, x) <=> ToEnd(es, i, x)
         /\ ToConcern(es, i, x) => ToConcern(fs, i, x)
    BY <1>1, <1>3, <1>7 DEF Longer, Opens, Ends
  <1>9. \A i \in 0..m : ToOpen(fs, i, d) /\ ~ OpenAfter(fs, i, d)
    BY <1>1, <1>3 DEF Longer, Opens, OpenAfter
  <1>10. \A i \in 0..m : \A x \in D : OpenAfter(fs, i, x) <=> OpenAfter(es, i, x)
    BY <1>8 DEF OpenAfter
  <1>11. \A x : OpenAfter(fs, m + 1, x) <=> OpenAfter(es, m, x)
    BY <1>3 DEF Longer, OpenAfter
  <1>12. \A x : OpenAfter(es, m, x) <=> x.status = "open"
    BY <1>3 DEF Longer, OpenAfter
  <1>13. \A x \in D : DisputeSound(x, h, n + 1)
    BY <1>6, <1>7 DEF DisputeSound
  <1>14. DisputeSound(d, h, n + 1)
    <2>1. UpgradeHeight \in Nat
      BY ClaimsParameters
    <2> QED
      BY <2>1 DEF DisputeSound
  <1>15. ASSUME NEW j \in 1..m + 1, fs[j].type = "dispute" PROVE OpeningTold(fs, j, C, h)
    <2>1. CASE j = m + 1
      <3>1. \A x : ~ ToOpen(fs, j, x)
        BY <1>3, <2>1 DEF Longer
      <3>2. OpenAfter(fs, j, d)
        BY <1>11, <1>12, <2>1
      <3>3. fs[j].dispute = d
        BY <1>1, <1>5, <2>1
      <3> QED
        BY <1>4, <3>1, <3>2, <3>3 DEF OpeningTold, Same
    <2>2. CASE j \in 1..m
      <3>1. j \in 0..m /\ fs[j] = es[j] /\ OpeningTold(es, j, D, h)
        BY <1>5, <1>6, <1>15, <2>2
      <3>2. PICK x \in D : /\ es[j].dispute.no = x.no /\ Same(es[j].dispute, x)
                           /\ es[j].dispute.status = "open"
                           /\ x.at = h
                           /\ OpenAfter(es, j, x)
                           /\ \A y \in D : y.no <= x.no => ~ ToOpen(es, j, y)
        BY <3>1 DEF OpeningTold
      <3>3. \A y \in C : y.no <= x.no => ~ ToOpen(fs, j, y)
        <4>1. ~ (d.no <= x.no)
          BY <1>7
        <4> QED
          BY <1>4, <1>8, <3>1, <3>2, <4>1
      <3>4. OpenAfter(fs, j, x) /\ x \in C
        BY <1>4, <1>10, <3>1, <3>2
      <3> QED
        BY <3>1, <3>2, <3>3, <3>4 DEF OpeningTold
    <2> QED
      BY <1>5, <2>1, <2>2
  <1>16. ASSUME NEW j \in 1..m + 1, fs[j].type = "resolve" PROVE EndTold(fs, j, C, h)
    <2>1. j \in 1..m /\ j \in 0..m
      BY <1>1, <1>5, <1>16
    <2>2. fs[j] = es[j] /\ EndTold(es, j, D, h)
      BY <1>5, <1>6, <1>16, <2>1
    <2> QED
      BY <1>4, <1>8, <2>1, <2>2 DEF EndTold
  <1>17. ASSUME NEW i \in 0..m + 1 PROVE OneOpen(fs, i, C)
    <2>1. CASE i \in 0..m
      BY <1>4, <1>6, <1>9, <1>10, <2>1 DEF OneOpen
    <2>2. CASE i = m + 1
      <3>1. m \in 0..m
        BY <1>5
      <3>2. \A x, y \in D :
              x.role # Legacy /\ Same(x, y) /\ x.status = "open" /\ y.status = "open" => x = y
        BY <1>6, <1>12, <3>1 DEF OneOpen
      <3>3. \A x \in D : d.role # Legacy => ~ (Same(d, x) /\ x.status = "open")
        BY DEF Same
      <3>4. \A x \in D : x.role # Legacy => ~ (Same(x, d) /\ x.status = "open")
        BY DEF Same
      <3>5. \A x : OpenAfter(fs, i, x) <=> x.status = "open"
        BY <1>11, <1>12, <2>2
      <3> QED
        BY <1>4, <3>2, <3>3, <3>4, <3>5 DEF OneOpen
    <2> QED
      BY <1>5, <2>1, <2>2
  <1>18. DisputesTold(fs, C, h, n + 1)
    <2>1. \A x, y \in C : x.no = y.no => x = y
      BY <1>4, <1>6, <1>7
    <2>2. \A x \in C : DisputeSound(x, h, n + 1)
      BY <1>4, <1>13, <1>14
    <2> QED
      BY <1>5, <1>15, <1>16, <1>17, <2>1, <2>2 DEF DisputesTold
  <1>19. 0 \in 0..m
    BY <1>5
  <1>20. /\ Numbered(T)
         /\ \A x, y \in T : Same(x, y) /\ x.status = "open" /\ y.status = "open" => x = y
         /\ \A x \in T : \E y \in D : x.no = y.no /\ Same(x, y)
         /\ LegacySeen(T, R, 0, es, D, g)
         /\ OthersSeen(T, R, 0, es, D, h, reps)
    BY DEF DisputesSeen
  <1>21. LegacySeen(T, R, 0, fs, C, g)
    <2>1. \A x \in D : First(x, C) => First(x, D)
      BY <1>4 DEF First
    <2>2. ASSUME NEW x \in T, x.role = Legacy, Same(x, d), First(d, C) PROVE FALSE
      <3>1. PICK y \in D : x.no = y.no /\ Same(x, y)
        BY <1>20
      <3>2. d.no <= y.no
        BY <1>4, <2>2, <3>1 DEF First, Same
      <3> QED
        BY <1>7, <3>2
    <2>3. \A x \in T : \A y \in C : x.role = Legacy /\ Same(x, y) /\ First(y, C) => x.no = y.no
      <3>1. \A x \in T : \A y \in D : x.role = Legacy /\ Same(x, y) /\ First(y, D) => x.no = y.no
        BY <1>20 DEF LegacySeen
      <3> QED
        BY <1>4, <2>1, <2>2, <3>1
    <2>4. \A x \in C : x.role = Legacy /\ First(x, C) => ToOpen(fs, 0, x) \/ RowsFor(T, x) # {}
      BY <1>4, <1>8, <1>9, <1>19, <1>20, <2>1 DEF LegacySeen
    <2> QED
      BY <1>20, <2>3, <2>4 DEF LegacySeen
  <1>22. ASSUME NEW x \in D, x.role # Legacy
         PROVE  /\ ToOpen(fs, 0, x) \/ RowsFor(T, x) # {}
                /\ OpenThere(T, 0, fs, C, x)
                /\ Mixed(x, C, reps) \/ RowSeen(T, R, 0, fs, h, reps, x)
    <2>1. /\ ToOpen(es, 0, x) \/ RowsFor(T, x) # {}
          /\ OpenThere(T, 0, es, D, x)
          /\ Mixed(x, D, reps) \/ RowSeen(T, R, 0, es, h, reps, x)
      BY <1>20, <1>22 DEF OthersSeen
    <2>2. OpenThere(T, 0, fs, C, x)
      BY <1>4, <1>9, <1>10, <1>19, <2>1 DEF OpenThere
    <2>3. Mixed(x, D, reps) => Mixed(x, C, reps)
      BY <1>4 DEF Mixed
    <2>4. RowSeen(T, R, 0, es, h, reps, x) => RowSeen(T, R, 0, fs, h, reps, x)
      BY <1>8, <1>19 DEF RowSeen
    <2> QED
      BY <1>8, <1>19, <2>1, <2>2, <2>3, <2>4
  <1>23. OpenThere(T, 0, fs, C, d) \/ d.role = Legacy
    <2> SUFFICES ASSUME d.role # Legacy PROVE OpenThere(T, 0, fs, C, d)
      OBVIOUS
    <2>1. CASE \E x \in D : Same(x, d)
      <3>1. PICK x \in D : Same(x, d)
        BY <2>1
      <3>2. x.role # Legacy /\ \A y : Same(y, x) <=> Same(y, d)
        BY <3>1 DEF Same
      <3>3. OpenThere(T, 0, fs, C, x)
        BY <1>22, <3>2
      <3> QED
        BY <3>2, <3>3 DEF OpenThere, OpenRows
    <2>2. CASE ~ \E x \in D : Same(x, d)
      <3>1. \A x \in T : ~ Same(x, d)
        <4> SUFFICES ASSUME NEW x \in T, Same(x, d) PROVE FALSE
          OBVIOUS
        <4>1. PICK y \in D : Same(x, y)
          BY <1>20
        <4>2. Same(y, d)
          BY <4>1 DEF Same
        <4> QED
          BY <2>2, <4>2
      <3> QED
        BY <1>4, <1>9, <1>19, <2>2, <3>1 DEF OpenThere, OpenRows
    <2> QED
      BY <2>1, <2>2
  <1>24. RowSeen(T, R, 0, fs, h, reps, d)
    <2>1. RowsFor(T, d) = {}
      <3> SUFFICES ASSUME NEW x \in T, x.no = d.no PROVE FALSE
        BY DEF RowsFor
      <3>1. PICK y \in D : x.no = y.no
        BY <1>20
      <3> QED
        BY <1>7, <3>1
    <2> QED
      BY <1>9, <1>19, <2>1 DEF RowSeen
  <1>25. OthersSeen(T, R, 0, fs, C, h, reps)
    BY <1>4, <1>9, <1>19, <1>22, <1>23, <1>24 DEF OthersSeen
  <1>26. \A x \in T : \E y \in C : x.no = y.no /\ Same(x, y)
    BY <1>4, <1>20
  <1>27. DisputesSeen(T, R, 0, fs, C, h, g, reps)
    BY <1>20, <1>21, <1>25, <1>26 DEF DisputesSeen
  <1> QED
    BY <1>1, <1>3, <1>4, <1>18, <1>27

\* A dispute is resolved.
LEMMA DisputesResolved ==
    ASSUME NEW es \in Seq(Events), NEW D \in SUBSET Disputes, NEW h \in Nat \ {0}, NEW n \in Nat,
           DisputesTold(es, D, h, n), NEW d \in D, d.status = "open", d.role # Legacy,
           NEW f \in Disputes, f.no = d.no, f.at = d.at, Same(f, d), f.resolved = h, f.status # "open",
           NEW T \in SUBSET DisputeRows, NEW R, NEW g, NEW reps, reps \subseteq Nat \ {0}, h \notin reps,
           DisputesSeen(T, R, 0, es, D, h, g, reps)
    PROVE  LET fs == Append(es, [type |-> "resolve", dispute |-> f])
           IN  /\ DisputesTold(fs, (D \ {d}) \cup {f}, h, n)
               /\ DisputesSeen(T, R, 0, fs, (D \ {d}) \cup {f}, h, g, reps)
  <1>1. PICK e : e = [type |-> "resolve", dispute |-> f]
    OBVIOUS
  <1>2. e \in Events
    BY <1>1 DEF Events, DisputeEvents
  <1>3. PICK fs, m : fs = Append(es, e) /\ Longer(fs, es, e, m)
    BY <1>2, LongerFacts
  <1>4. PICK C : C = (D \ {d}) \cup {f}
    OBVIOUS
  <1>5. /\ m \in Nat /\ m = Len(es) /\ Len(fs) = m + 1 /\ fs[m + 1] = e
        /\ \A j \in 1..m : fs[j] = es[j]
    BY <1>3 DEF Longer
  <1>6. /\ \A x, y \in D : x.no = y.no => x = y
        /\ \A x \in D : DisputeSound(x, h, n)
        /\ \A j \in 1..m : es[j].type = "dispute" => OpeningTold(es, j, D, h)
        /\ \A j \in 1..m : es[j].type = "resolve" => EndTold(es, j, D, h)
        /\ \A i \in 0..m : OneOpen(es, i, D)
    BY <1>5 DEF DisputesTold
  <1>7. /\ \A x \in D : x # d => x.no # f.no
        /\ f.role = d.role /\ f.role # Legacy /\ f.subject = d.subject
    BY <1>6 DEF Same
  <1>8. \A i \in 0..m : \A x \in D : x # d =>
         /\ ToOpen(fs, i, x) <=> ToOpen(es, i, x)
         /\ ToEnd(fs, i, x) <=> ToEnd(es, i, x)
    BY <1>1, <1>3, <1>7 DEF Longer, Opens, Ends
  <1>9. \A i \in 0..m : ToEnd(fs, i, f) /\ (ToOpen(fs, i, f) <=> ToOpen(es, i, d))
    <2>1. \A i : ToOpen(es, i, f) <=> ToOpen(es, i, d)
      BY DEF ToOpen, Opens
    <2> QED
      BY <1>1, <1>3, <2>1 DEF Longer, Opens, Ends
  <1>10. \A i \in 0..m : OpenAfter(fs, i, f) <=> OpenAfter(es, i, d)
    BY <1>9 DEF OpenAfter
  <1>11. \A i \in 0..m : \A x \in D : x # d => (OpenAfter(fs, i, x) <=> OpenAfter(es, i, x))
    BY <1>8 DEF OpenAfter
  <1>12. \A x : /\ ~ ToOpen(fs, m + 1, x) /\ ~ ToEnd(fs, m + 1, x)
                /\ OpenAfter(fs, m + 1, x) <=> x.status = "open"
    BY <1>3 DEF Longer, OpenAfter
  <1>13. \A x : OpenAfter(es, m, x) <=> x.status = "open"
    BY <1>3 DEF Longer, OpenAfter
  <1>14. \A x \in C : DisputeSound(x, h, n)
    <2>1. DisputeSound(d, h, n)
      BY <1>6
    <2>2. DisputeSound(f, h, n)
      BY <1>7, <2>1 DEF DisputeSound
    <2> QED
      BY <1>4, <1>6, <2>2
  <1>15. ASSUME NEW j \in 1..m + 1, fs[j].type = "dispute" PROVE OpeningTold(fs, j, C, h)
    <2>1. j \in 1..m /\ j \in 0..m
      BY <1>1, <1>5, <1>15
    <2>2. fs[j] = es[j] /\ OpeningTold(es, j, D, h)
      BY <1>5, <1>6, <1>15, <2>1
    <2>3. PICK x \in D : /\ es[j].dispute.no = x.no /\ Same(es[j].dispute, x)
                         /\ es[j].dispute.status = "open"
                         /\ x.at = h
                         /\ OpenAfter(es, j, x)
                         /\ \A y \in D : y.no <= x.no => ~ ToOpen(es, j, y)
      BY <2>2 DEF OpeningTold
    <2>4. \A y \in C : y.no <= x.no => ~ ToOpen(fs, j, y)
      BY <1>4, <1>8, <1>9, <2>1, <2>3
    <2>5. CASE x = d
      <3>1. OpenAfter(fs, j, f) /\ f \in C
        BY <1>4, <1>10, <2>1, <2>3, <2>5
      <3>2. Same(es[j].dispute, f)
        BY <1>7, <2>3, <2>5 DEF Same
      <3> QED
        BY <2>2, <2>3, <2>4, <2>5, <3>1, <3>2 DEF OpeningTold
    <2>6. CASE x # d
      <3>1. OpenAfter(fs, j, x) /\ x \in C
        BY <1>4, <1>11, <2>1, <2>3, <2>6
      <3> QED
        BY <2>2, <2>3, <2>4, <3>1 DEF OpeningTold
    <2> QED
      BY <2>5, <2>6
  <1>16. ASSUME NEW j \in 1..m + 1, fs[j].type = "resolve" PROVE EndTold(fs, j, C, h)
    <2>1. CASE j = m + 1
      <3>1. fs[j].dispute = f
        BY <1>1, <1>5, <2>1
      <3> QED
        BY <1>4, <1>7, <1>12, <2>1, <3>1 DEF EndTold
    <2>2. CASE j \in 1..m
      <3>1. j \in 0..m /\ fs[j] = es[j] /\ EndTold(es, j, D, h)
        BY <1>5, <1>6, <1>16, <2>2
      <3>2. es[j].dispute # d
        BY <3>1 DEF EndTold
      <3> QED
        BY <1>4, <1>8, <3>1, <3>2 DEF EndTold
    <2> QED
      BY <1>5, <2>1, <2>2
  <1>17. ASSUME NEW i \in 0..m + 1 PROVE OneOpen(fs, i, C)
    <2>1. \A x : Same(f, x) <=> Same(d, x)
      BY <1>7 DEF Same
    <2>2. \A x : Same(x, f) <=> Same(x, d)
      BY <1>7 DEF Same
    <2>3. CASE i \in 0..m
      <3>1. \A x, y \in D :
              x.role # Legacy /\ Same(x, y) /\ OpenAfter(es, i, x) /\ OpenAfter(es, i, y) => x = y
        BY <1>6, <2>3 DEF OneOpen
      <3>2. \A x, y \in C :
              x.role # Legacy /\ Same(x, y) /\ OpenAfter(fs, i, x) /\ OpenAfter(fs, i, y) => x = y
        BY <1>4, <1>7, <1>10, <1>11, <2>1, <2>2, <2>3, <3>1
      <3> QED
        BY <3>2 DEF OneOpen
    <2>4. CASE i = m + 1
      <3>1. m \in 0..m
        BY <1>5
      <3>2. \A x, y \in D :
              x.role # Legacy /\ Same(x, y) /\ x.status = "open" /\ y.status = "open" => x = y
        BY <1>6, <1>13, <3>1 DEF OneOpen
      <3> QED
        BY <1>4, <1>12, <2>4, <3>2 DEF OneOpen
    <2> QED
      BY <1>5, <2>3, <2>4
  <1>18. DisputesTold(fs, C, h, n)
    <2>1. \A x, y \in C : x.no = y.no => x = y
      BY <1>4, <1>6, <1>7
    <2> QED
      BY <1>5, <1>14, <1>15, <1>16, <1>17, <2>1 DEF DisputesTold
  <1>19. 0 \in 0..m
    BY <1>5
  <1>20. /\ Numbered(T)
         /\ \A x, y \in T : Same(x, y) /\ x.status = "open" /\ y.status = "open" => x = y
         /\ \A x \in T : \E y \in D : x.no = y.no /\ Same(x, y)
         /\ LegacySeen(T, R, 0, es, D, g)
         /\ OthersSeen(T, R, 0, es, D, h, reps)
    BY DEF DisputesSeen
  <1>21. \A x : /\ Same(x, f) <=> Same(x, d)
                /\ RowsFor(T, f) = RowsFor(T, d)
                /\ OpenRows(T, f) = OpenRows(T, d)
    BY <1>7 DEF Same, RowsFor, OpenRows
  <1>22. LegacySeen(T, R, 0, fs, C, g)
    <2>1. \A x \in C : x.role = Legacy => x \in D /\ x # d
      BY <1>4, <1>7
    <2>2. \A x \in C : First(x, C) => First(x, D)
      BY <1>4 DEF First
    <2>3. \A x \in T : \A y \in C : x.role = Legacy /\ Same(x, y) /\ First(y, C) => x.no = y.no
      <3>1. \A x \in T : \A y \in C : x.role = Legacy /\ Same(x, y) => y.role = Legacy
        BY DEF Same
      <3> QED
        BY <1>20, <2>1, <2>2, <3>1 DEF LegacySeen
    <2>4. \A x \in C : x.role = Legacy /\ First(x, C) => ToOpen(fs, 0, x) \/ RowsFor(T, x) # {}
      BY <1>8, <1>19, <1>20, <2>1, <2>2 DEF LegacySeen
    <2> QED
      BY <1>20, <2>3, <2>4 DEF LegacySeen
  <1>23. \A x \in D : OpenThere(T, 0, es, D, x) => OpenThere(T, 0, fs, C, x)
    <2> SUFFICES ASSUME NEW x \in D PROVE OpenThere(T, 0, es, D, x) => OpenThere(T, 0, fs, C, x)
      OBVIOUS
    <2>1. Same(f, x) <=> Same(d, x)
      BY <1>7 DEF Same
    <2>2. (\E y \in D : Same(y, x) /\ OpenAfter(es, 0, y))
          <=> \E y \in C : Same(y, x) /\ OpenAfter(fs, 0, y)
      BY <1>4, <1>10, <1>11, <1>19, <2>1
    <2> QED
      BY <2>2 DEF OpenThere
  <1>24. \A x : Mixed(x, D, reps) => Mixed(x, C, reps)
    <2> SUFFICES ASSUME NEW x, Mixed(x, D, reps) PROVE Mixed(x, C, reps)
      OBVIOUS
    <2>1. PICK a \in D, b \in D : Same(a, x) /\ Same(b, x) /\ a.resolved = b.at /\ b.at \in reps
      BY DEF Mixed
    <2>2. a # d
      <3>1. d.resolved = 0
        BY <1>6 DEF DisputeSound
      <3> QED
        BY <2>1, <3>1
    <2>3. \E c \in C : Same(c, x) /\ c.at = b.at
      <3>1. Same(f, x) <=> Same(d, x)
        BY <1>7 DEF Same
      <3> QED
        BY <1>4, <2>1, <3>1
    <2> QED
      BY <1>4, <2>1, <2>2, <2>3 DEF Mixed
  <1>25. ASSUME NEW x \in D, x.role # Legacy, x # d
         PROVE  /\ ToOpen(fs, 0, x) \/ RowsFor(T, x) # {}
                /\ OpenThere(T, 0, fs, C, x)
                /\ Mixed(x, C, reps) \/ RowSeen(T, R, 0, fs, h, reps, x)
    <2>1. /\ ToOpen(es, 0, x) \/ RowsFor(T, x) # {}
          /\ OpenThere(T, 0, es, D, x)
          /\ Mixed(x, D, reps) \/ RowSeen(T, R, 0, es, h, reps, x)
      BY <1>20, <1>25 DEF OthersSeen
    <2>2. RowSeen(T, R, 0, es, h, reps, x) => RowSeen(T, R, 0, fs, h, reps, x)
      BY <1>8, <1>19, <1>25 DEF RowSeen
    <2> QED
      BY <1>8, <1>19, <1>23, <1>24, <1>25, <2>1, <2>2
  <1>26. /\ ToOpen(fs, 0, f) \/ RowsFor(T, f) # {}
         /\ OpenThere(T, 0, fs, C, f)
         /\ Mixed(f, C, reps) \/ RowSeen(T, R, 0, fs, h, reps, f)
    <2>1. /\ ToOpen(es, 0, d) \/ RowsFor(T, d) # {}
          /\ OpenThere(T, 0, es, D, d)
          /\ Mixed(d, D, reps) \/ RowSeen(T, R, 0, es, h, reps, d)
      BY <1>20 DEF OthersSeen
    <2>2. ToOpen(fs, 0, f) \/ RowsFor(T, f) # {}
      BY <1>9, <1>19, <1>21, <2>1
    <2>3. OpenThere(T, 0, fs, C, f)
      <3>1. OpenThere(T, 0, fs, C, d)
        BY <1>23, <2>1
      <3> QED
        BY <1>21, <3>1 DEF OpenThere
    <2>4. Mixed(d, D, reps) => Mixed(f, C, reps)
      <3>1. Mixed(d, C, reps) => Mixed(f, C, reps)
        BY <1>21 DEF Mixed
      <3> QED
        BY <1>24, <3>1
    <2>5. RowSeen(T, R, 0, es, h, reps, d) => RowSeen(T, R, 0, fs, h, reps, f)
      <3>1. ~ ToEnd(es, 0, d)
        BY ToEndFacts
      <3>2. d.resolved = 0
        BY <1>6 DEF DisputeSound
      <3>3. Final(T, R, d) => Shows(T, R, f, "open", FALSE)
        BY <1>21, <3>2 DEF Final, Shows
      <3> QED
        BY <1>9, <1>19, <1>21, <3>1, <3>3 DEF RowSeen
    <2> QED
      BY <2>1, <2>2, <2>3, <2>4, <2>5
  <1>27. OthersSeen(T, R, 0, fs, C, h, reps)
    BY <1>4, <1>25, <1>26 DEF OthersSeen
  <1>28. \A x \in T : \E y \in C : x.no = y.no /\ Same(x, y)
    BY <1>4, <1>20, <1>21
  <1>29. DisputesSeen(T, R, 0, fs, C, h, g, reps)
    BY <1>20, <1>22, <1>27, <1>28 DEF DisputesSeen
  <1> QED
    BY <1>1, <1>3, <1>4, <1>18, <1>29

----------------------------------------------------------------------------
(* Disputes: a block begins, the upgrade and the snapshot.                  *)

\* A block begins, ...
LEMMA DisputesBegin ==
    ASSUME NEW es \in Seq(Events), NEW D \in SUBSET Disputes, NEW h \in Nat, NEW n,
           DisputesTold(es, D, h, n), h + 1 # UpgradeHeight,
           NEW T, NEW R, NEW g, NEW reps, DisputesSeen(T, R, Len(es), es, D, h, g, reps)
    PROVE  /\ DisputesTold(<< >>, D, h + 1, n)
           /\ DisputesSeen(T, R, 0, << >>, D, h + 1, g, reps)
  <1>0. PICK l : l = Len(es)
    OBVIOUS
  <1>1. \A d : ~ ToOpen(es, l, d) /\ ~ ToEnd(es, l, d) /\ ~ ToConcern(es, l, d)
    BY <1>0, NothingComes
  <1>2. \A d : ~ ToOpen(<< >>, 0, d) /\ ~ ToEnd(<< >>, 0, d)
    BY DEF ToOpen, ToEnd
  <1>3. \A d : OpenAfter(<< >>, 0, d) <=> OpenAfter(es, l, d)
    BY <1>1, <1>2 DEF OpenAfter
  <1>4. \A d \in D : DisputeSound(d, h + 1, n)
    <2>1. UpgradeHeight \in Nat /\ (h < UpgradeHeight <=> h + 1 < UpgradeHeight)
          /\ (h >= UpgradeHeight => h + 1 >= UpgradeHeight)
      BY ClaimsParameters
    <2>2. \A d \in D : d.at \in Nat /\ (d.at <= h => d.at <= h + 1)
      BY DEF Disputes
    <2>3. \A d \in D : DisputeSound(d, h, n)
      BY DEF DisputesTold
    <2> QED
      BY <2>1, <2>2, <2>3 DEF DisputeSound
  <1>5. OneOpen(<< >>, 0, D)
    <2>1. OneOpen(es, l, D)
      <3>1. l \in 0..Len(es)
        BY <1>0
      <3> QED
        BY <3>1 DEF DisputesTold
    <2> QED
      BY <1>3, <2>1 DEF OneOpen
  <1>6. DisputesTold(<< >>, D, h + 1, n)
    <2>1. \A i \in 0..Len(<< >>) : i = 0
      OBVIOUS
    <2>2. \A j \in 1..Len(<< >>) : FALSE
      OBVIOUS
    <2>3. \A d, e \in D : d.no = e.no => d = e
      BY DEF DisputesTold
    <2> QED
      BY <1>4, <1>5, <2>1, <2>2, <2>3 DEF DisputesTold
  <1>7. LegacySeen(T, R, l, es, D, g) /\ OthersSeen(T, R, l, es, D, h, reps)
    BY <1>0 DEF DisputesSeen
  <1>8. LegacySeen(T, R, 0, << >>, D, g)
    BY <1>1, <1>7 DEF LegacySeen
  <1>9. \A d \in D : OpenThere(T, l, es, D, d) => OpenThere(T, 0, << >>, D, d)
    BY <1>3 DEF OpenThere
  <1>10. \A d \in D : RowSeen(T, R, l, es, h, reps, d) => RowSeen(T, R, 0, << >>, h + 1, reps, d)
    BY <1>1, <1>2 DEF RowSeen
  <1>11. OthersSeen(T, R, 0, << >>, D, h + 1, reps)
    BY <1>1, <1>7, <1>9, <1>10 DEF OthersSeen
  <1> QED
    BY <1>0, <1>6, <1>8, <1>11 DEF DisputesSeen

\* ... and that of the upgrade does, which dismisses all disputes there are:
\* they are open and of the old kind.
LEMMA DisputesUpgrade ==
    ASSUME NEW es \in Seq(Events), NEW D \in SUBSET Disputes, NEW h \in Nat, NEW n,
           DisputesTold(es, D, h, n), h + 1 = UpgradeHeight,
           NEW C, C = {IF d.status = "open" THEN [d EXCEPT !.status = "dismissed"] ELSE d : d \in D},
           NEW T, NEW R, NEW reps, DisputesSeen(T, R, Len(es), es, D, h, FALSE, reps)
    PROVE  /\ DisputesTold(<< >>, C, h + 1, n)
           /\ DisputesSeen(T, R, 0, << >>, C, h + 1, FALSE, reps)
  <1>0. PICK l : l = Len(es)
    OBVIOUS
  <1>1. \A d : ~ ToOpen(es, l, d)
    BY <1>0, NothingComes
  <1>2. h < UpgradeHeight /\ ~ (h >= UpgradeHeight) /\ ~ (h + 1 < UpgradeHeight)
    OBVIOUS
  <1>3. \A d \in D : DisputeSound(d, h, n) /\ d.role = Legacy /\ d.status = "open" /\ d.resolved = 0
    BY <1>2 DEF DisputesTold, DisputeSound
  <1> DEFINE Fallen(d) == [d EXCEPT !.status = "dismissed"]
  <1>4. C = {Fallen(d) : d \in D}
    BY <1>3
  <1>5. \A d \in D : /\ Fallen(d).no = d.no /\ Fallen(d).subject = d.subject /\ Fallen(d).role = d.role
                     /\ Fallen(d).at = d.at /\ Fallen(d).resolved = d.resolved
                     /\ Fallen(d).status = "dismissed"
    BY DEF Disputes
  <1> HIDE DEF Fallen
  <1>6. \A c \in C : \E d \in D : /\ c = Fallen(d)
                                  /\ c.no = d.no /\ c.subject = d.subject /\ c.role = Legacy
                                  /\ c.at = d.at /\ c.resolved = 0 /\ c.status = "dismissed"
    BY <1>3, <1>4, <1>5
  <1>7. \A d \in D : \E c \in C : c.no = d.no /\ c.subject = d.subject /\ c.role = Legacy
    BY <1>3, <1>4, <1>5
  <1>8. \A c \in C : DisputeSound(c, h + 1, n)
    <2> SUFFICES ASSUME NEW c \in C PROVE DisputeSound(c, h + 1, n)
      OBVIOUS
    <2>1. PICK d \in D : /\ c.no = d.no /\ c.role = Legacy /\ c.at = d.at /\ c.resolved = 0
                         /\ c.status = "dismissed"
      BY <1>6
    <2>2. d.no <= n /\ d.at <= h
      BY <1>3 DEF DisputeSound
    <2>3. d.at \in Nat
      BY DEF Disputes
    <2>4. c.at <= h + 1
      BY <2>1, <2>2, <2>3
    <2> QED
      BY <1>2, <2>1, <2>2, <2>4 DEF DisputeSound
  <1>9. DisputesTold(<< >>, C, h + 1, n)
    <2>1. \A i \in 0..Len(<< >>) : OneOpen(<< >>, i, C)
      <3>1. \A c \in C : c.role = Legacy
        BY <1>6
      <3> QED
        BY <3>1 DEF OneOpen
    <2>2. \A j \in 1..Len(<< >>) : FALSE
      OBVIOUS
    <2>3. \A c, e \in C : c.no = e.no => c = e
      BY <1>6 DEF DisputesTold
    <2> QED
      BY <1>8, <2>1, <2>2, <2>3 DEF DisputesTold
  <1>10. LegacySeen(T, R, l, es, D, FALSE)
    BY <1>0 DEF DisputesSeen
  <1>11. \A c \in C : First(c, C) => \E d \in D : /\ First(d, D) /\ d.no = c.no
                                                 /\ d.role = c.role /\ d.subject = c.subject
    <2> SUFFICES ASSUME NEW c \in C, First(c, C)
                 PROVE  \E d \in D : /\ First(d, D) /\ d.no = c.no
                                     /\ d.role = c.role /\ d.subject = c.subject
      OBVIOUS
    <2>1. PICK d \in D : d.no = c.no /\ d.subject = c.subject
      BY <1>6
    <2>2. c.role = Legacy /\ d.role = Legacy
      BY <1>3, <1>6
    <2>3. First(d, D)
      <3> SUFFICES ASSUME NEW x \in D, x.subject = d.subject PROVE d.no <= x.no
        BY DEF First
      <3>1. PICK y \in C : y.no = x.no /\ y.subject = x.subject /\ y.role = Legacy
        BY <1>7
      <3>2. c.no <= y.no
        BY <2>1, <3>1 DEF First
      <3> QED
        BY <2>1, <3>1, <3>2
    <2> QED
      BY <2>1, <2>2, <2>3
  <1>12. LegacySeen(T, R, 0, << >>, C, FALSE)
    <2>1. \A x \in T : \A c \in C : x.role = Legacy /\ Same(x, c) /\ First(c, C) => x.no = c.no
      <3> SUFFICES ASSUME NEW x \in T, NEW c \in C, x.role = Legacy, Same(x, c), First(c, C)
                   PROVE  x.no = c.no
        OBVIOUS
      <3>1. PICK d \in D : First(d, D) /\ d.no = c.no /\ d.role = c.role /\ d.subject = c.subject
        BY <1>11
      <3>2. Same(x, d)
        BY <3>1 DEF Same
      <3> QED
        BY <1>10, <3>1, <3>2 DEF LegacySeen
    <2>2. \A c \in C : First(c, C) => RowsFor(T, c) # {}
      <3> SUFFICES ASSUME NEW c \in C, First(c, C) PROVE RowsFor(T, c) # {}
        OBVIOUS
      <3>1. PICK d \in D : First(d, D) /\ d.no = c.no
        BY <1>11
      <3>2. RowsFor(T, d) # {}
        BY <1>1, <1>3, <1>10, <3>1 DEF LegacySeen
      <3> QED
        BY <3>1, <3>2 DEF RowsFor
    <2> QED
      BY <1>10, <2>1, <2>2 DEF LegacySeen
  <1>13. OthersSeen(T, R, 0, << >>, C, h + 1, reps)
    BY <1>6 DEF OthersSeen
  <1>14. \A x \in T : \E c \in C : x.no = c.no /\ Same(x, c)
    <2> SUFFICES ASSUME NEW x \in T PROVE \E c \in C : x.no = c.no /\ Same(x, c)
      OBVIOUS
    <2>1. PICK d \in D : x.no = d.no /\ Same(x, d)
      BY DEF DisputesSeen
    <2>2. PICK c \in C : c.no = d.no /\ c.subject = d.subject /\ c.role = Legacy
      BY <1>7
    <2> QED
      BY <1>3, <2>1, <2>2 DEF Same
  <1> QED
    BY <1>9, <1>12, <1>13, <1>14 DEF DisputesSeen

\* What the snapshot makes of a row.
Dismissed(x) ==
    IF x.status = "open" /\ x.role = Legacy THEN [x EXCEPT !.status = "dismissed"] ELSE x

\* It stays the row of the same dispute.
LEMMA DismissedFacts ==
    ASSUME NEW x \in DisputeRows
    PROVE  /\ Dismissed(x).id = x.id /\ Dismissed(x).no = x.no /\ Same(Dismissed(x), x)
           /\ Dismissed(x).role = x.role
           /\ x.role # Legacy => Dismissed(x) = x
           /\ x.role = Legacy => Dismissed(x).status # "open"
  BY DEF Dismissed, DisputeRows, Same

\* Dismissed rows keep their numbers.
LEMMA NumberedDismissed ==
    ASSUME NEW T \in SUBSET DisputeRows, IsFiniteSet(T), Numbered(T),
           NEW U, U = {Dismissed(x) : x \in T}
    PROVE  Numbered(U)
  <1>1. PICK f : f = [x \in T |-> Dismissed(x)]
    OBVIOUS
  <1>2. \A x \in T : f[x] = Dismissed(x) /\ f[x].id = x.id
    BY <1>1, DismissedFacts
  <1>3. f \in Bijection(T, U)
    <2>1. f \in [T -> U] /\ \A u \in U : \E x \in T : f[x] = u
      BY <1>1
    <2>2. \A x, y \in T : f[x] = f[y] => x = y
      BY <1>2 DEF Numbered
    <2> QED
      BY <2>1, <2>2 DEF Bijection, Injection, Surjection, IsInjective
  <1>4. Cardinality(U) = Cardinality(T)
    BY <1>3, FS_Bijection DEF ExistsBijection
  <1>5. \A u \in U : \E x \in T : u = Dismissed(x) /\ u.id = x.id
    BY <1>2
  <1> QED
    BY <1>4, <1>5 DEF Numbered

\* The snapshot.
LEMMA DisputesSettle ==
    ASSUME NEW es, NEW D \in SUBSET Disputes, NEW h, NEW n, DisputesTold(es, D, h, n), NEW i,
           NEW T \in SUBSET DisputeRows, IsFiniteSet(T), NEW R, NEW reps,
           DisputesSeen(T, R, i, es, D, h, FALSE, reps)
    PROVE  DisputesSeen(DismissLegacyDisputes(T), R, i, es, D, h, TRUE, reps)
  <1>1. PICK U : U = DismissLegacyDisputes(T)
    OBVIOUS
  <1>2. U = {Dismissed(x) : x \in T}
    BY <1>1 DEF DismissLegacyDisputes, Dismissed
  <1>3. /\ Numbered(T)
        /\ \A x, y \in T : Same(x, y) /\ x.status = "open" /\ y.status = "open" => x = y
        /\ \A x \in T : \E y \in D : x.no = y.no /\ Same(x, y)
        /\ LegacySeen(T, R, i, es, D, FALSE)
        /\ OthersSeen(T, R, i, es, D, h, reps)
    BY DEF DisputesSeen
  <1>4. \A u \in U : \E x \in T : /\ u = Dismissed(x) /\ u.id = x.id /\ u.no = x.no /\ Same(u, x)
                                  /\ u.role = x.role
                                  /\ (x.role # Legacy => u = x) /\ (x.role = Legacy => u.status # "open")
    BY <1>2, DismissedFacts
  <1>5. \A x \in T : \E u \in U : u.no = x.no /\ (x.role # Legacy => u = x)
    BY <1>2, DismissedFacts
  <1>6. \A u \in U : u.role # Legacy => u \in T
    BY <1>4
  <1>7. \A u \in U : u.status = "open" => u.role # Legacy
    BY <1>4
  <1>8. Numbered(U)
    BY <1>2, <1>3, NumberedDismissed
  <1>9. \A x, y \in U : Same(x, y) /\ x.status = "open" /\ y.status = "open" => x = y
    BY <1>3, <1>6, <1>7
  <1>10. \A u \in U : \E y \in D : u.no = y.no /\ Same(u, y)
    BY <1>3, <1>4 DEF Same
  <1>11. LegacySeen(U, R, i, es, D, TRUE)
    <2>1. \A u, v \in U : u.role = Legacy /\ Same(u, v) => u = v
      <3> SUFFICES ASSUME NEW u \in U, NEW v \in U, u.role = Legacy, Same(u, v) PROVE u = v
        OBVIOUS
      <3>1. PICK x \in T : u = Dismissed(x) /\ x.role = Legacy /\ Same(u, x)
        BY <1>4
      <3>2. PICK y \in T : v = Dismissed(y) /\ Same(v, y)
        BY <1>4
      <3>3. Same(x, y)
        BY <3>1, <3>2 DEF Same
      <3>4. x = y
        BY <1>3, <3>1, <3>3 DEF LegacySeen
      <3> QED
        BY <3>1, <3>2, <3>4
    <2>2. \A u \in U : \A d \in D : u.role = Legacy /\ Same(u, d) /\ First(d, D) => u.no = d.no
      <3> SUFFICES ASSUME NEW u \in U, NEW d \in D, u.role = Legacy, Same(u, d), First(d, D)
                   PROVE  u.no = d.no
        OBVIOUS
      <3>1. PICK x \in T : u.no = x.no /\ x.role = Legacy /\ Same(u, x)
        BY <1>4
      <3>2. Same(x, d)
        BY <3>1 DEF Same
      <3> QED
        BY <1>3, <3>1, <3>2 DEF LegacySeen
    <2>3. \A u \in U : u.role = Legacy => u.id \notin R /\ u.status = "dismissed"
      <3> SUFFICES ASSUME NEW u \in U, u.role = Legacy PROVE u.id \notin R /\ u.status = "dismissed"
        OBVIOUS
      <3>1. PICK x \in T : u = Dismissed(x) /\ u.id = x.id /\ x.role = Legacy
        BY <1>4
      <3>2. x.id \notin R /\ x.status = "open"
        BY <1>3, <3>1 DEF LegacySeen
      <3>3. Dismissed(x).status = "dismissed"
        BY <3>1, <3>2 DEF Dismissed, DisputeRows
      <3> QED
        BY <3>1, <3>2, <3>3
    <2>4. \A d \in D : RowsFor(T, d) # {} => RowsFor(U, d) # {}
      BY <1>5 DEF RowsFor
    <2>5. \A d \in D : d.role = Legacy /\ First(d, D) => ToOpen(es, i, d) \/ RowsFor(U, d) # {}
      BY <1>3, <2>4 DEF LegacySeen
    <2> QED
      BY <2>1, <2>2, <2>3, <2>5 DEF LegacySeen
  <1>12. ASSUME NEW d \in D, d.role # Legacy
         PROVE  OpenRows(U, d) = OpenRows(T, d) /\ RowsFor(U, d) = RowsFor(T, d)
    <2>1. \A x \in T : x.no = d.no => Same(x, d)
      BY <1>3 DEF DisputesTold
    <2>2. \A u \in U : u.no = d.no \/ Same(u, d) => u.role # Legacy
      <3>1. \A u \in U : u.no = d.no => Same(u, d)
        <4>1. \A u, x : Same(u, x) /\ Same(x, d) => Same(u, d)
          BY DEF Same
        <4> QED
          BY <1>4, <2>1, <4>1
      <3> QED
        BY <1>12, <3>1 DEF Same
    <2>3. \A x \in T : x.no = d.no \/ Same(x, d) => x.role # Legacy
      BY <1>12, <2>1 DEF Same
    <2>4. \A u \in U : u.no = d.no \/ Same(u, d) => u \in T
      BY <1>6, <2>2
    <2>5. \A x \in T : x.no = d.no \/ Same(x, d) => x \in U
      BY <1>5, <2>3
    <2> QED
      BY <2>4, <2>5 DEF OpenRows, RowsFor
  <1>13. OthersSeen(U, R, i, es, D, h, reps)
    <2> SUFFICES ASSUME NEW d \in D, d.role # Legacy
                 PROVE  /\ ToOpen(es, i, d) \/ RowsFor(U, d) # {}
                        /\ \/ OpenThere(U, i, es, D, d)
                           \/ h \in reps /\ ToConcern(es, i, d) /\ AllThere(U, D, d)
                        /\ Mixed(d, D, reps) \/ RowSeen(U, R, i, es, h, reps, d)
      BY DEF OthersSeen
    <2>1. /\ ToOpen(es, i, d) \/ RowsFor(T, d) # {}
          /\ \/ OpenThere(T, i, es, D, d)
             \/ h \in reps /\ ToConcern(es, i, d) /\ AllThere(T, D, d)
          /\ Mixed(d, D, reps) \/ RowSeen(T, R, i, es, h, reps, d)
      BY <1>3 DEF OthersSeen
    <2>2. OpenThere(T, i, es, D, d) => OpenThere(U, i, es, D, d)
      BY <1>12 DEF OpenThere
    <2>3. AllThere(T, D, d) => AllThere(U, D, d)
      BY <1>12 DEF AllThere, Same
    <2>4. RowSeen(T, R, i, es, h, reps, d) => RowSeen(U, R, i, es, h, reps, d)
      BY <1>12, RowSeenSame
    <2> QED
      BY <1>12, <2>1, <2>2, <2>3, <2>4
  <1> QED
    BY <1>1, <1>8, <1>9, <1>10, <1>11, <1>13 DEF DisputesSeen

----------------------------------------------------------------------------
(* Disputes: every step keeps the invariant.                                *)

\* What the other leaves need of the first invariant.
LEMMA DisputeTypes ==
    ASSUME IInv
    PROVE  /\ chain \in ChainStates /\ chain.dispute \in SUBSET Disputes
           /\ events \in Seq(Events) /\ IsTables(rows)
           /\ height \in Nat /\ height \in Nat \ {0} /\ messages \in Nat
           /\ rows \in Tables /\ rows.dispute \in SUBSET DisputeRows /\ IsFiniteSet(rows.dispute)
           /\ migrated \in BOOLEAN /\ (migrated => height >= UpgradeHeight)
           /\ replays \subseteq Nat \ {0} /\ (phase = "open" => height \notin replays)
           /\ \A j \in 1..Len(events) : Sound(events[j])
  <1>1. /\ chain \in ChainStates /\ events \in Seq(Events) /\ IsTables(rows)
        /\ height \in Nat /\ height \in Nat \ {0} /\ messages \in Nat /\ migrated \in BOOLEAN
        /\ replays \in SUBSET (1..height) /\ (height \in replays => phase = "done")
    BY TypesGive DEF IInv, Types
  <1>2. replays \subseteq Nat \ {0}
    BY <1>1
  <1>3. migrated => height >= UpgradeHeight
    BY DEF IInv, UpgradeSeen, Upgraded
  <1>4. \A j \in 1..Len(events) : Sound(events[j])
    BY <1>1, SoundEvents DEF IInv, Follows
  <1>5. rows \in Tables /\ rows.dispute \in SUBSET DisputeRows /\ IsFiniteSet(rows.dispute)
    BY <1>1 DEF IsTables, Tables
  <1>6. chain.dispute \in SUBSET Disputes
    BY <1>1 DEF ChainStates
  <1> QED
    BY <1>1, <1>2, <1>3, <1>4, <1>5, <1>6

\* Nothing of disputes changes.
LEMMA DisputesSame ==
    ASSUME DisputesFollow, UNCHANGED <<height, events, messages, migrated, replays>>, Seen' = Seen,
           chain'.dispute = chain.dispute,
           rows'.dispute = rows.dispute, rows'.resolution = rows.resolution
    PROVE  DisputesFollow'
  BY DEF DisputesFollow

\* The chain emits an event that is not about disputes, ...
LEMMA QuietKeeps ==
    ASSUME IInv, IInv', DisputesFollow, phase = "open", messages' = messages + 1,
           NEW e, e.type \notin {"dispute", "resolve"}, events' = events \o <<e>>,
           chain'.dispute = chain.dispute,
           UNCHANGED <<height, phase, rows, migrated, replays>>
    PROVE  DisputesFollow'
  <1>1. PICK es, fs : es = events /\ fs = es \o <<e>>
    OBVIOUS
  <1>2. es \in Seq(Events) /\ fs \in Seq(Events)
    BY <1>1 DEF IInv, Types
  <1>3. e \in Events
    <2>1. Len(es) + 1 \in 1..Len(fs) /\ fs[Len(es) + 1] = e
      BY <1>1, <1>2
    <2> QED
      BY <1>2, <2>1
  <1>4. e \notin DisputeEvents
    BY DEF DisputeEvents
  <1>5. fs = Append(es, e)
    BY <1>1, <1>2, <1>3, AppendFacts
  <1>6. Seen = 0 /\ Seen' = 0
    BY DEF Seen
  <1>7. PICK D, n : D = chain.dispute /\ n = messages
    OBVIOUS
  <1>8. /\ DisputesTold(fs, D, height, n)
        /\ DisputesSeen(rows.dispute, rows.resolution, 0, fs, D, height, migrated, replays)
    BY <1>1, <1>2, <1>3, <1>4, <1>5, <1>6, <1>7, DisputesQuiet DEF DisputesFollow
  <1>9. DisputesTold(fs, D, height, n + 1)
    BY <1>7, <1>8, DisputeTypes, DisputesLater
  <1> QED
    BY <1>1, <1>6, <1>7, <1>8, <1>9 DEF DisputesFollow

\* ... or two of them.
LEMMA QuietTwoKeep ==
    ASSUME IInv, IInv', DisputesFollow, phase = "open", messages' = messages + 1,
           NEW e, e.type \notin {"dispute", "resolve"}, NEW u, u.type \notin {"dispute", "resolve"},
           events' = events \o <<e, u>>,
           chain'.dispute = chain.dispute,
           UNCHANGED <<height, phase, rows, migrated, replays>>
    PROVE  DisputesFollow'
  <1>1. PICK es, fs : es = events /\ fs = es \o <<e, u>>
    OBVIOUS
  <1>2. es \in Seq(Events) /\ fs \in Seq(Events)
    BY <1>1 DEF IInv, Types
  <1>3. e \in Events /\ u \in Events
    <2>1. /\ Len(es) + 1 \in 1..Len(fs) /\ fs[Len(es) + 1] = e
          /\ Len(es) + 2 \in 1..Len(fs) /\ fs[Len(es) + 2] = u
      BY <1>1, <1>2
    <2> QED
      BY <1>2, <2>1
  <1>4. e \notin DisputeEvents /\ u \notin DisputeEvents
    BY DEF DisputeEvents
  <1>5. PICK gs : gs = Append(es, e)
    OBVIOUS
  <1>6. gs \in Seq(Events) /\ fs = Append(gs, u)
    BY <1>1, <1>2, <1>3, <1>5, AppendTwo
  <1>7. Seen = 0 /\ Seen' = 0
    BY DEF Seen
  <1>8. PICK D, n : D = chain.dispute /\ n = messages
    OBVIOUS
  <1>9. /\ DisputesTold(gs, D, height, n)
        /\ DisputesSeen(rows.dispute, rows.resolution, 0, gs, D, height, migrated, replays)
    BY <1>1, <1>2, <1>3, <1>4, <1>5, <1>7, <1>8, DisputesQuiet DEF DisputesFollow
  <1>10. /\ DisputesTold(fs, D, height, n)
        /\ DisputesSeen(rows.dispute, rows.resolution, 0, fs, D, height, migrated, replays)
    BY <1>3, <1>4, <1>6, <1>9, DisputesQuiet
  <1>11. DisputesTold(fs, D, height, n + 1)
    BY <1>8, <1>10, DisputeTypes, DisputesLater
  <1> QED
    BY <1>1, <1>7, <1>8, <1>10, <1>11 DEF DisputesFollow

\* ChainWrites, ChainRemovesBudget, ChainSubmits, ChainEvaluates, ChainPays and ChainStakes.
LEMMA OthersKeepDisputes ==
    ASSUME IInv, IInv', DisputesFollow,
           \/ \E k \in Keys : ChainWrites(k) \/ ChainRemovesBudget(k)
           \/ \E c \in Claims : ChainSubmits(c) \/ ChainPays(c)
           \/ \E c \in Claims, a \in Agents, status \in {"flagged", "final"} :
                ChainEvaluates(c, a, status)
           \/ \E p \in Pools \cup {NoPool} : ChainStakes(p)
    PROVE  DisputesFollow'
  <1>0. DOMAIN chain = {"mirror", "claim", "dispute", "tx"}
    BY DEF IInv, Types, ChainStates
  <1>1. ASSUME NEW k, ChainWrites(k) PROVE DisputesFollow'
    <2>1. events' = events \o <<Upsert(k)>> /\ Upsert(k).type = "upsert"
      BY <1>1 DEF ChainWrites, Emit, Upsert
    <2>2. chain'.dispute = chain.dispute
      BY <1>0, <1>1 DEF ChainWrites
    <2> QED
      BY <1>1, <2>1, <2>2, QuietKeeps DEF ChainWrites, Emit
  <1>2. ASSUME NEW k, ChainRemovesBudget(k) PROVE DisputesFollow'
    <2>1. PICK e : e = [type |-> "remove", key |-> k]
      OBVIOUS
    <2>2. events' = events \o <<e>> /\ e.type = "remove"
      BY <1>2, <2>1 DEF ChainRemovesBudget, Emit
    <2>3. chain'.dispute = chain.dispute
      BY <1>0, <1>2 DEF ChainRemovesBudget
    <2> QED
      BY <1>2, <2>2, <2>3, QuietKeeps DEF ChainRemovesBudget, Emit
  <1>3. ASSUME NEW c, ChainSubmits(c) PROVE DisputesFollow'
    <2>1. PICK e, u : /\ e = ClaimEvent("submit", c, [current |-> None, history |-> << >>])
                      /\ u = Upsert(CollectionOf[c])
      OBVIOUS
    <2>2. events' = events \o <<e, u>> /\ e.type = "submit" /\ u.type = "upsert"
      BY <1>3, <2>1 DEF ChainSubmits, Emit, ClaimEvent, Upsert
    <2>3. chain'.dispute = chain.dispute
      BY <1>0, <1>3 DEF ChainSubmits
    <2> QED
      BY <1>3, <2>2, <2>3, QuietTwoKeep DEF ChainSubmits, Emit
  <1>4. ASSUME NEW c, ChainPays(c) PROVE DisputesFollow'
    <2>1. PICK e : e = ClaimEvent("update", c, chain.claim[c])
      OBVIOUS
    <2>2. events' = events \o <<e>> /\ e.type = "update"
      BY <1>4, <2>1 DEF ChainPays, Emit, ClaimEvent
    <2> QED
      BY <1>4, <2>2, QuietKeeps DEF ChainPays, Emit
  <1>5. ASSUME NEW c, NEW a, NEW status, ChainEvaluates(c, a, status) PROVE DisputesFollow'
    <2>1. PICK claim : /\ chain' = [chain EXCEPT !.mirror = Counted(c), !.claim[c] = claim]
                       /\ Emit(<<ClaimEvent("update", c, claim), Upsert(CollectionOf[c])>>)
      BY <1>5 DEF ChainEvaluates
    <2>2. PICK e, u : e = ClaimEvent("update", c, claim) /\ u = Upsert(CollectionOf[c])
      OBVIOUS
    <2>3. events' = events \o <<e, u>> /\ e.type = "update" /\ u.type = "upsert"
      BY <2>1, <2>2 DEF Emit, ClaimEvent, Upsert
    <2>4. chain'.dispute = chain.dispute
      BY <1>0, <2>1
    <2> QED
      BY <2>1, <2>3, <2>4, QuietTwoKeep DEF Emit
  <1>6. ASSUME NEW p, ChainStakes(p) PROVE DisputesFollow'
    <2>1. PICK tx : /\ chain' = [chain EXCEPT !.tx = @ \cup {tx}]
                    /\ Emit(<<[type |-> "stake", tx |-> tx]>>)
      BY <1>6 DEF ChainStakes
    <2>2. PICK e : e = [type |-> "stake", tx |-> tx]
      OBVIOUS
    <2>3. events' = events \o <<e>> /\ e.type = "stake"
      BY <2>1, <2>2 DEF Emit
    <2>4. chain'.dispute = chain.dispute
      BY <1>0, <2>1
    <2> QED
      BY <2>1, <2>3, <2>4, QuietKeeps DEF Emit
  <1> QED
    BY <1>1, <1>2, <1>3, <1>4, <1>5, <1>6

\* ChainDisputes.
LEMMA DisputesKeepDisputes ==
    ASSUME IInv, IInv', DisputesFollow, NEW c \in Claims, NEW role \in Roles \cup {Legacy},
           ChainDisputes(c, role)
    PROVE  DisputesFollow'
  <1>1. PICK d : d = [subject |-> c, role |-> role, no |-> Stamp, at |-> height,
                      status |-> "open", resolved |-> 0]
    OBVIOUS
  <1>2. PICK e : e = [type |-> "dispute", dispute |-> d]
    OBVIOUS
  <1>3. PICK D, n : D = chain.dispute /\ n = messages
    OBVIOUS
  <1>4. /\ phase = "open" /\ messages' = n + 1 /\ events' = events \o <<e>>
        /\ (role = Legacy) = ~ Upgraded
        /\ Upgraded => \A x \in D : ~ (x.subject = c /\ x.role = role /\ x.status = "open")
        /\ UNCHANGED <<height, phase, rows, migrated, replays>>
        /\ chain' = [chain EXCEPT !.dispute = @ \cup {d}]
    BY <1>1, <1>2, <1>3 DEF ChainDisputes, Emit
  <1>5. chain'.dispute = D \cup {d}
    BY <1>3, <1>4, DisputeTypes DEF ChainStates
  <1>6. d \in Disputes
    <2>1. chain'.dispute \in SUBSET Disputes
      BY DEF IInv, Types, ChainStates
    <2> QED
      BY <1>5, <2>1
  <1>7. events' = Append(events, e)
    <2>1. e \in Events
      BY <1>2, <1>6 DEF Events, DisputeEvents
    <2> QED
      BY <1>4, <2>1, DisputeTypes, AppendFacts
  <1>8. /\ d.no = n + 1 /\ d.at = height /\ d.status = "open" /\ d.resolved = 0
        /\ d.role = role /\ d.subject = c
    BY <1>1, <1>3 DEF Stamp
  <1>9. d.role = Legacy <=> height < UpgradeHeight
    <2>1. height < UpgradeHeight <=> ~ Upgraded
      BY ClaimsParameters, DisputeTypes DEF Upgraded
    <2> QED
      BY <1>4, <1>8, <2>1
  <1>10. d.role # Legacy => \A x \in D : ~ (Same(x, d) /\ x.status = "open")
    BY <1>4, <1>8 DEF Same
  <1>11. Seen = 0 /\ Seen' = 0
    BY <1>4 DEF Seen
  <1>12. PICK es, T, R : es = events /\ T = rows.dispute /\ R = rows.resolution
    OBVIOUS
  <1>13. DisputesTold(es, D, height, n) /\ DisputesSeen(T, R, 0, es, D, height, migrated, replays)
    BY <1>3, <1>11, <1>12 DEF DisputesFollow
  <1>14. /\ es \in Seq(Events) /\ D \in SUBSET Disputes /\ height \in Nat /\ n \in Nat
         /\ T \in SUBSET DisputeRows /\ height \notin replays
    BY <1>3, <1>4, <1>12, DisputeTypes
  <1>15. PICK fs : fs = Append(es, e)
    OBVIOUS
  <1>16. /\ DisputesTold(fs, D \cup {d}, height, n + 1)
         /\ DisputesSeen(T, R, 0, fs, D \cup {d}, height, migrated, replays)
    BY <1>2, <1>6, <1>8, <1>9, <1>10, <1>13, <1>14, <1>15, DisputesOpened
  <1> QED
    BY <1>4, <1>5, <1>7, <1>11, <1>12, <1>15, <1>16 DEF DisputesFollow

\* ChainResolves.
LEMMA ResolvesKeepDisputes ==
    ASSUME IInv, IInv', DisputesFollow, NEW d \in chain.dispute, NEW status \in {"awarded", "dismissed"},
           ChainResolves(d, status)
    PROVE  DisputesFollow'
  <1>1. PICK f : f = [d EXCEPT !.status = status, !.resolved = height]
    OBVIOUS
  <1>2. PICK e : e = [type |-> "resolve", dispute |-> f]
    OBVIOUS
  <1>3. PICK D, n : D = chain.dispute /\ n = messages
    OBVIOUS
  <1>4. /\ phase = "open" /\ messages' = n + 1 /\ events' = events \o <<e>>
        /\ d.status = "open" /\ d.role # Legacy
        /\ UNCHANGED <<height, phase, rows, migrated, replays>>
        /\ chain' = [chain EXCEPT !.dispute = (@ \ {d}) \cup {f}]
    BY <1>1, <1>2, <1>3 DEF ChainResolves, Emit
  <1>5. chain'.dispute = (D \ {d}) \cup {f}
    BY <1>3, <1>4, DisputeTypes DEF ChainStates
  <1>6. f \in Disputes /\ d \in Disputes
    <2>1. chain'.dispute \in SUBSET Disputes
      BY DEF IInv, Types, ChainStates
    <2> QED
      BY <1>5, <2>1, DisputeTypes
  <1>7. events' = Append(events, e)
    <2>1. e \in Events
      BY <1>2, <1>6 DEF Events, DisputeEvents
    <2> QED
      BY <1>4, <2>1, DisputeTypes, AppendFacts
  <1>8. f.no = d.no /\ f.at = d.at /\ Same(f, d) /\ f.resolved = height /\ f.status # "open"
    BY <1>1, <1>6 DEF Disputes, Same
  <1>9. Seen = 0 /\ Seen' = 0
    BY <1>4 DEF Seen
  <1>10. PICK es, T, R : es = events /\ T = rows.dispute /\ R = rows.resolution
    OBVIOUS
  <1>11. DisputesTold(es, D, height, n) /\ DisputesSeen(T, R, 0, es, D, height, migrated, replays)
    BY <1>3, <1>9, <1>10 DEF DisputesFollow
  <1>12. /\ es \in Seq(Events) /\ D \in SUBSET Disputes /\ height \in Nat \ {0} /\ n \in Nat
         /\ T \in SUBSET DisputeRows /\ height \notin replays /\ replays \subseteq Nat \ {0}
    BY <1>3, <1>4, <1>10, DisputeTypes
  <1>13. PICK fs, C : fs = Append(es, e) /\ C = (D \ {d}) \cup {f}
    OBVIOUS
  <1>14. /\ DisputesTold(fs, C, height, n)
         /\ DisputesSeen(T, R, 0, fs, C, height, migrated, replays)
    BY <1>2, <1>3, <1>4, <1>6, <1>8, <1>11, <1>12, <1>13, DisputesResolved
  <1>15. DisputesTold(fs, C, height, n + 1)
    <2>1. C \in SUBSET Disputes
      BY <1>6, <1>12, <1>13
    <2> QED
      BY <1>12, <1>14, <2>1, DisputesLater
  <1> QED
    BY <1>4, <1>5, <1>7, <1>9, <1>10, <1>13, <1>14, <1>15 DEF DisputesFollow

\* ChainBeginsBlock.
LEMMA BeginsKeepDisputes ==
    ASSUME IInv, IInv', DisputesFollow, ChainBeginsBlock
    PROVE  DisputesFollow'
  <1>1. /\ phase = "done" /\ phase' = "open" /\ height' = height + 1 /\ events' = << >>
        /\ chain' = IF height + 1 = UpgradeHeight THEN Migrated(chain) ELSE chain
        /\ UNCHANGED <<messages, rows, migrated, replays>>
    BY DEF ChainBeginsBlock
  <1>2. Seen = Len(events) /\ Seen' = 0
    BY <1>1 DEF Seen
  <1>3. PICK es, D, T, R : es = events /\ D = chain.dispute /\ T = rows.dispute /\ R = rows.resolution
    OBVIOUS
  <1>4. es \in Seq(Events) /\ D \in SUBSET Disputes /\ height \in Nat /\ UpgradeHeight \in Nat
    BY <1>3, DisputeTypes, ClaimsParameters
  <1>5. /\ DisputesTold(es, D, height, messages)
        /\ DisputesSeen(T, R, Len(es), es, D, height, migrated, replays)
    BY <1>2, <1>3 DEF DisputesFollow
  <1>6. CASE height + 1 # UpgradeHeight
    <2>1. /\ DisputesTold(<< >>, D, height + 1, messages)
          /\ DisputesSeen(T, R, 0, << >>, D, height + 1, migrated, replays)
      BY <1>4, <1>5, <1>6, DisputesBegin
    <2> QED
      BY <1>1, <1>2, <1>3, <1>6, <2>1 DEF DisputesFollow
  <1>7. CASE height + 1 = UpgradeHeight
    <2>1. migrated = FALSE
      <3>1. ~ (height >= UpgradeHeight)
        BY <1>4, <1>7
      <3> QED
        BY <3>1, DisputeTypes
    <2>2. PICK C : C = {IF d.status = "open" THEN [d EXCEPT !.status = "dismissed"] ELSE d : d \in D}
      OBVIOUS
    <2>3. chain'.dispute = C
      BY <1>1, <1>3, <1>7, <2>2, DisputeTypes DEF Migrated, ChainStates
    <2>4. DisputesSeen(T, R, Len(es), es, D, height, FALSE, replays)
      BY <1>5, <2>1
    <2>5. /\ DisputesTold(<< >>, C, height + 1, messages)
          /\ DisputesSeen(T, R, 0, << >>, C, height + 1, FALSE, replays)
      BY <1>4, <1>5, <1>7, <2>2, <2>4, DisputesUpgrade
    <2> QED
      BY <1>1, <1>2, <1>3, <2>1, <2>3, <2>5 DEF DisputesFollow
  <1> QED
    BY <1>6, <1>7

\* TakeSnapshot.
LEMMA SnapshotKeepsDisputes ==
    ASSUME IInv, DisputesFollow, TakeSnapshot
    PROVE  DisputesFollow'
  <1>1. PICK asked : rows' = [rows EXCEPT !.mirror = Refreshed(@, asked),
                                          !.dispute = DismissLegacyDisputes(@),
                                          !.tx = RelinkLegacyTx(@)]
    BY DEF TakeSnapshot
  <1>2. /\ phase = "due" /\ ~ migrated /\ migrated' = TRUE
        /\ UNCHANGED <<height, events, messages, chain, phase, replays>>
    BY DEF TakeSnapshot, SnapshotDue, chainVars
  <1>3. migrated = FALSE
    BY <1>2, DisputeTypes
  <1>4. Seen = 0 /\ Seen' = 0
    BY <1>2 DEF Seen
  <1>5. PICK es, D, T, R : es = events /\ D = chain.dispute /\ T = rows.dispute /\ R = rows.resolution
    OBVIOUS
  <1>6. rows'.dispute = DismissLegacyDisputes(T) /\ rows'.resolution = R
    BY <1>1, <1>5, DisputeTypes DEF Tables
  <1>7. /\ DisputesTold(es, D, height, messages)
        /\ DisputesSeen(T, R, 0, es, D, height, FALSE, replays)
    BY <1>3, <1>4, <1>5 DEF DisputesFollow
  <1>8. D \in SUBSET Disputes /\ T \in SUBSET DisputeRows /\ IsFiniteSet(T)
    BY <1>5, DisputeTypes
  <1>9. DisputesSeen(DismissLegacyDisputes(T), R, 0, es, D, height, TRUE, replays)
    BY <1>7, <1>8, DisputesSettle
  <1> QED
    BY <1>2, <1>4, <1>5, <1>6, <1>7, <1>9 DEF DisputesFollow

\* IndexBlock: the events of the block are handled.
LEMMA IndexKeepsDisputes ==
    ASSUME IInv, DisputesFollow, IndexBlock
    PROVE  DisputesFollow'
  <1>1. /\ phase = "due" /\ rows' = Handled(rows) /\ phase' = "done"
        /\ UNCHANGED <<height, events, messages, chain, migrated, replays>>
    BY DEF IndexBlock, chainVars
  <1>2. Seen = 0 /\ Seen' = Len(events)
    BY <1>1 DEF Seen
  <1>3. PICK D, q : D = chain.dispute /\ q = Handled(rows)
    OBVIOUS
  <1>4. /\ DisputesTold(events, D, height, messages)
        /\ DisputesSeen(rows.dispute, rows.resolution, 0, events, D, height, migrated, replays)
    BY <1>2, <1>3 DEF DisputesFollow
  <1>5. DisputesSeen(q.dispute, q.resolution, Len(events), events, D, height, migrated, replays)
    BY <1>3, <1>4, DisputeTypes, DisputesBlock
  <1> QED
    BY <1>1, <1>2, <1>3, <1>4, <1>5 DEF DisputesFollow

\* Replay: the block is indexed from its beginning again.
LEMMA ReplayKeepsDisputes ==
    ASSUME IInv, DisputesFollow, Replay
    PROVE  DisputesFollow'
  <1>1. /\ phase = "done" /\ rows' = Handled(rows) /\ replays' = replays \cup {height}
        /\ UNCHANGED <<height, events, messages, chain, phase, migrated>>
    BY DEF Replay, chainVars
  <1>2. Seen = Len(events) /\ Seen' = Len(events)
    BY <1>1 DEF Seen
  <1>3. PICK D, q, reps : D = chain.dispute /\ q = Handled(rows) /\ reps = replays \cup {height}
    OBVIOUS
  <1>4. /\ DisputesTold(events, D, height, messages)
        /\ DisputesSeen(rows.dispute, rows.resolution, Len(events), events, D, height, migrated, replays)
    BY <1>2, <1>3 DEF DisputesFollow
  <1>5. DisputesSeen(rows.dispute, rows.resolution, 0, events, D, height, migrated, reps)
    BY <1>3, <1>4, DisputeTypes, DisputesAgain
  <1>6. DisputesSeen(q.dispute, q.resolution, Len(events), events, D, height, migrated, reps)
    BY <1>3, <1>4, <1>5, DisputeTypes, DisputesBlock
  <1> QED
    BY <1>1, <1>2, <1>3, <1>4, <1>6 DEF DisputesFollow

\* Every step.
LEMMA NextDisputes ==
    ASSUME IInv, IInv', DisputesFollow, [Next]_vars
    PROVE  DisputesFollow'
  <1>1. CASE Chain
    <2>1. CASE ChainEndsBlock
      <3>1. Seen' = Seen
        BY <2>1 DEF ChainEndsBlock, Seen
      <3> QED
        BY <2>1, <3>1, DisputesSame DEF ChainEndsBlock
    <2>2. ASSUME NEW c \in Claims, NEW role \in Roles \cup {Legacy}, ChainDisputes(c, role)
          PROVE  DisputesFollow'
      BY <2>2, DisputesKeepDisputes
    <2>3. ASSUME NEW d \in chain.dispute, NEW status \in {"awarded", "dismissed"},
                 ChainResolves(d, status)
          PROVE  DisputesFollow'
      BY <2>3, ResolvesKeepDisputes
    <2>4. Keys = Collections \cup Budgets \cup Pools
      BY DEF Keys
    <2> QED
      BY <1>1, <2>1, <2>2, <2>3, <2>4, OthersKeepDisputes, BeginsKeepDisputes DEF Chain
  <1>2. CASE SyncLoop
    BY <1>2, SnapshotKeepsDisputes, IndexKeepsDisputes DEF SyncLoop
  <1>3. CASE Replay
    BY <1>3, ReplayKeepsDisputes
  <1>4. CASE Cron
    <2>1. /\ UNCHANGED <<height, events, messages, chain, phase, migrated, replays>>
          /\ rows'.dispute = rows.dispute /\ rows'.resolution = rows.resolution
      <3>1. ASSUME NEW c, CronFills(c)
            PROVE  rows'.dispute = rows.dispute /\ rows'.resolution = rows.resolution
        BY <3>1, DisputeTypes DEF CronFills, Tables
      <3> QED
        BY <1>4, <3>1 DEF Cron, CronAsks, CronFills, CronGetsError, chainVars
    <2>2. Seen' = Seen
      BY <2>1 DEF Seen
    <2> QED
      BY <2>1, <2>2, DisputesSame
  <1>5. CASE UNCHANGED vars
    <2>1. UNCHANGED <<height, events, messages, chain, phase, migrated, replays, rows>>
      BY <1>5 DEF vars, chainVars
    <2>2. Seen' = Seen
      BY <2>1 DEF Seen
    <2> QED
      BY <2>1, <2>2, DisputesSame
  <1> QED
    BY <1>1, <1>2, <1>3, <1>4, <1>5 DEF Next

\* The initial state.
LEMMA InitDisputes ==
    ASSUME Init
    PROVE  DisputesFollow
  <1>1. /\ events = << >> /\ chain.dispute = {} /\ rows.dispute = {} /\ rows.resolution = {}
        /\ Seen = 0
    BY DEF Init, Seen
  <1>2. \A j \in 1..Len(<< >>) : FALSE
    OBVIOUS
  <1>3. DisputesTold(<< >>, {}, height, messages)
    BY <1>2 DEF DisputesTold, OneOpen
  <1>4. DisputesSeen({}, {}, 0, << >>, {}, height, migrated, replays)
    BY DEF DisputesSeen, Numbered, LegacySeen, OthersSeen
  <1> QED
    BY <1>1, <1>3, <1>4 DEF DisputesFollow

\* The rows of disputes follow the chain.
THEOREM DisputesInvariance == Spec => []DisputesFollow
  <1>1. Init => DisputesFollow
    BY InitDisputes
  <1>2. IInv /\ IInv' /\ DisputesFollow /\ [Next]_vars => DisputesFollow'
    BY NextDisputes
  <1> QED
    BY <1>1, <1>2, Invariance, PTL DEF Spec

----------------------------------------------------------------------------
(* The properties. *)

\* What the invariant says of an indexed block.
LEMMA IndexedFacts ==
    ASSUME IInv, phase = "done", NEW w, w = SnapshotWaits
    PROVE  Follows(rows, Len(events), events, chain, height, messages, w, replays, upgraded)
  BY DEF IInv, Seen

\* The invariant implies each property.
LEMMA TypesOfIInv ==
    ASSUME IInv
    PROVE  TypeOK
  <1>0. /\ chain \in ChainStates /\ IsTables(rows) /\ rows \in Tables
        /\ height \in Nat /\ MaxHeight \in Nat
    BY TypesGive, ClaimsParameters DEF IInv, Types, IsTables
  <1>1. PICK m, n, f, D : m = chain.mirror /\ n = rows.mirror /\ f = rows.claim /\ D = rows.dispute
    OBVIOUS
  <1>2. m \in Mirrors /\ n \in Mirrors /\ f \in Maps(Claims, ClaimRows) /\ D \in SUBSET DisputeRows
    BY <1>0, <1>1 DEF ChainStates, Tables
  <1>3. IsMirror(m) /\ IsMirror(n)
    <2>1. /\ DOMAIN m \subseteq Keys /\ \A k \in DOMAIN m : m[k] \in Versions
          /\ DOMAIN n \subseteq Keys /\ \A k \in DOMAIN n : n[k] \in Versions
      BY <1>2, MapFacts DEF Mirrors
    <2>2. /\ \A k \in DOMAIN m : m[k] \in [no : 0..MaxMessages, at : 0..MaxHeight]
          /\ \A k \in DOMAIN n : n[k] \in [no : 0..MaxMessages, at : 0..MaxHeight]
      BY <2>1 DEF Versions
    <2> QED
      BY <2>1, <2>2 DEF IsMirror, Keys
  <1>4. Len(upgraded) <= 1
    <2>1. CASE upgraded = << >>
      BY <2>1
    <2>2. ASSUME NEW c \in ChainStates, upgraded = <<c>> PROVE Len(upgraded) <= 1
      BY <2>2
    <2> QED
      BY <2>1, <2>2 DEF IInv, Types
  <1>5. DOMAIN f \subseteq DOMAIN chain.claim
    BY <1>1 DEF IInv, Follows, ClaimsSeen
  <1>6. \A c \in DOMAIN f : f[c].typed \in BOOLEAN
    <2>1. \A c \in DOMAIN f : f[c] \in ClaimRows
      BY <1>2, MapFacts
    <2> QED
      BY <2>1 DEF ClaimRows
  <1>7. \A d \in D : d.status \in {"open", "awarded", "dismissed"}
    BY <1>2 DEF DisputeRows, DisputeStatus
  <1>8. rows.resolution \subseteq {d.id : d \in rows.dispute}
    BY <1>0 DEF IsTables, Resolved
  <1>9. height \in 1..MaxHeight /\ replays \subseteq 1..MaxHeight
    <2>1. height \in 1..MaxHeight /\ replays \subseteq 1..height
      BY DEF IInv, Types
    <2> QED
      BY <1>0, <2>1
  <1>10. /\ phase \in {"open", "due", "done"} /\ messages \in 0..MaxMessages
         /\ migrated \in BOOLEAN /\ fetching \subseteq DOMAIN rows.claim
    BY DEF IInv, Types
  <1> QED
    BY <1>1, <1>3, <1>4, <1>5, <1>6, <1>7, <1>8, <1>9, <1>10 DEF TypeOK

\* Between blocks what the mirrored rows show is MirrorsMatch.
LEMMA MirrorsOfIInv ==
    ASSUME IInv
    PROVE  MirrorsMatch
  <1> SUFFICES ASSUME Indexed, Upgraded => migrated
               PROVE  /\ DOMAIN rows.mirror = DOMAIN chain.mirror
                      /\ \A k \in DOMAIN rows.mirror :
                           rows.mirror[k] = chain.mirror[k] \/ Overwritten(k)
    BY DEF MirrorsMatch
  <1>1. PICK m, cm, up : m = rows.mirror /\ cm = chain.mirror /\ up = upgraded
    OBVIOUS
  <1>2. m \in Mirrors /\ cm \in Mirrors /\ Len(events) \in Nat
    BY <1>1, TypesGive DEF IInv, Types, IsTables, Tables, ChainStates
  <1>3. phase = "done" /\ SnapshotWaits = FALSE
    BY DEF Indexed, SnapshotWaits
  <1>4. Follows(rows, Len(events), events, chain, height, messages, FALSE, replays, up)
    BY <1>1, <1>3, IndexedFacts
  <1>5. MirrorSeen(m, events, cm, Len(events), FALSE, up)
    BY <1>1, <1>4 DEF Follows
  <1>6. \A k \in Keys : Agree(m, cm, k) \/ PutBack(m, cm, k, up)
    <2>1. \A k \in Keys : ~ WholeAfter(events, Len(events), k)
      BY <1>2 DEF WholeAfter
    <2> QED
      BY <1>5, <2>1 DEF MirrorSeen
  <1>7. DOMAIN m \subseteq Keys /\ DOMAIN cm \subseteq Keys
    BY <1>2, MapFacts DEF Mirrors
  <1>8. DOMAIN m = DOMAIN cm
    BY <1>6, <1>7 DEF Agree, PutBack
  <1>9. \A k \in DOMAIN m : m[k] = cm[k] \/ PutBack(m, cm, k, up)
    BY <1>6, <1>7 DEF Agree
  <1>10. \A k : PutBack(m, cm, k, up) => Overwritten(k)
    BY <1>1 DEF PutBack, Overwritten
  <1> QED
    BY <1>1, <1>8, <1>9, <1>10

\* Between blocks what the staking rows show is LiquidStakesMatch.
LEMMA StakesOfIInv ==
    ASSUME IInv
    PROVE  LiquidStakesMatch
  <1> SUFFICES ASSUME Indexed, Upgraded => migrated
               PROVE  /\ {[no |-> t.no, at |-> t.at, pool |-> t.pool] : t \in rows.tx} = chain.tx
                      /\ \A t, u \in rows.tx : t.no = u.no => t = u \/ t.at \in replays
    BY DEF LiquidStakesMatch
  <1>1. PICK txs : txs = rows.tx
    OBVIOUS
  <1>2. Len(events) \in Nat
    BY TypesGive DEF IInv
  <1>3. phase = "done" /\ SnapshotWaits = FALSE
    BY DEF Indexed, SnapshotWaits
  <1>4. StakesSeen(txs, events, chain.tx, Len(events), FALSE, height, replays)
    BY <1>1, <1>3, IndexedFacts DEF Follows
  <1>5. Staked(events, Len(events)) = {} /\ Settled(txs, FALSE) = txs
    BY <1>2 DEF Staked, Settled
  <1>6. {Bare(t) : t \in txs} = chain.tx
    BY <1>4, <1>5 DEF StakesSeen
  <1>7. {[no |-> t.no, at |-> t.at, pool |-> t.pool] : t \in txs} = chain.tx
    BY <1>6 DEF Bare
  <1>8. \A t, u \in txs : t.no = u.no => t = u \/ t.at \in replays
    BY <1>4 DEF StakesSeen
  <1> QED
    BY <1>1, <1>7, <1>8

\* The evaluations of a claim, as EvaluationsMatch has them.
LEMMA JoinedFacts ==
    ASSUME NEW claim \in ClaimStates
    PROVE  ToSet(claim.history \o claim.current) = All(claim)
  <1>1. PICK h, c : h = claim.history /\ c = claim.current
    OBVIOUS
  <1>2. h \in Seq(Evaluations) /\ c \in Currents
    BY <1>1 DEF ClaimStates
  <1>3. CASE c = << >>
    <2>1. h \o c = h
      BY <1>2, <1>3
    <2>2. ToSet(c) = {}
      BY <1>3, AllOne DEF None
    <2> QED
      BY <1>1, <2>1, <2>2 DEF All
  <1>4. ASSUME NEW e \in Evaluations, c = <<e>> PROVE ToSet(h \o c) = ToSet(h) \cup {e}
    <2>1. PICK s : s = h \o c
      OBVIOUS
    <2>2. /\ Len(h) \in Nat /\ DOMAIN h = 1..Len(h) /\ DOMAIN s = 1..Len(h) + 1
          /\ \A j \in 1..Len(h) : s[j] = h[j]
          /\ s[Len(h) + 1] = e
      BY <1>2, <1>4, <2>1
    <2>3. \A x : x \in ToSet(s) <=> x \in ToSet(h) \/ x = e
      BY <2>2 DEF ToSet
    <2> QED
      BY <2>1, <2>3
  <1>5. ASSUME NEW e \in Evaluations, c = <<e>> PROVE ToSet(h \o c) = All(claim)
    BY <1>1, <1>4, <1>5, AllOne DEF All
  <1> QED
    BY <1>1, <1>2, <1>3, <1>5 DEF Currents, None

\* One of the history under the key of the current evaluation makes two.
LEMMA TwoOfKey ==
    ASSUME NEW c, NEW i, NEW a, NEW t, NEW h, h = chain.claim[c].history, h \in Seq(Evaluations),
           i \in DOMAIN h, h[i].agent = a, h[i].date = t,
           chain.claim[c].current[1].agent = a, chain.claim[c].current[1].date = t
    PROVE  Twice(c, a, t)
  <1>1. PICK S : S = {j \in DOMAIN chain.claim[c].history \cup {0} :
                       LET e == IF j = 0 THEN chain.claim[c].current[1]
                                ELSE chain.claim[c].history[j]
                       IN  e.agent = a /\ e.date = t}
    OBVIOUS
  <1>2. Len(h) \in Nat /\ DOMAIN h = 1..Len(h) /\ i \in Nat /\ i # 0
    OBVIOUS
  <1>3. 0 \in S /\ i \in S
    BY <1>1, <1>2
  <1>4. IsFiniteSet(S)
    <2>1. IsFiniteSet(0..Len(h))
      <3>1. 0 \in Int /\ Len(h) \in Int
        BY <1>2
      <3> QED
        BY <3>1, FS_Interval
    <2>2. S \subseteq 0..Len(h)
      BY <1>1, <1>2
    <2> QED
      BY <2>1, <2>2, FS_Subset
  <1>5. Cardinality({0, i}) = 2
    <2>1. IsFiniteSet({0}) /\ Cardinality({0}) = 1
      BY FS_Singleton
    <2>2. Cardinality({0} \cup {i}) = 2
      <3>1. i \notin {0}
        BY <1>2
      <3>2. Cardinality({0} \cup {i}) = Cardinality({0}) + 1
        BY <2>1, <3>1, FS_AddElement
      <3>3. Cardinality({0} \cup {i}) = 1 + 1
        BY <2>1, <3>2, Zenon
      <3> QED
        BY <3>3
    <2>3. {0} \cup {i} = {0, i}
      OBVIOUS
    <2> QED
      BY <2>2, <2>3
  <1>6. Cardinality({0, i}) <= Cardinality(S)
    <2>1. {0, i} \subseteq S
      BY <1>3
    <2> QED
      BY <1>4, <2>1, FS_Subset
  <1>7. Cardinality(S) \in Nat
    BY <1>4, FS_CardinalityType
  <1>8. Cardinality(S) > 1
    BY <1>5, <1>6, <1>7
  <1> QED
    BY <1>1, <1>8 DEF Twice

\* Between blocks what the claims' rows show is EvaluationsMatch.
LEMMA EvaluationsOfIInv ==
    ASSUME IInv
    PROVE  EvaluationsMatch
  <1> SUFFICES ASSUME Indexed, NEW c \in DOMAIN chain.claim, NEW claim, claim = chain.claim[c],
                      NEW all, all = ToSet(claim.history \o claim.current)
               PROVE  /\ c \in DOMAIN rows.claim
                      /\ (rows.claim[c].current = None) = (claim.current = None)
                      /\ {<<e.agent, e.date>> : e \in {x \in rows.evaluation : x.claim = c}}
                         = {<<e.agent, e.date>> : e \in all}
                      /\ claim.current # None =>
                          LET e == claim.current[1]
                          IN  /\ rows.claim[c].current[1] = [agent |-> e.agent, date |-> e.date]
                              /\ Twice(c, e.agent, e.date) \/ e \in rows.evaluation
    BY DEF EvaluationsMatch
  <1>1. PICK cc, E : cc = chain.claim /\ E = rows.evaluation
    OBVIOUS
  <1>2. c \in Claims /\ claim \in ClaimStates /\ Len(events) \in Nat
    <2>1. cc \in Maps(Claims, ClaimStates) /\ Len(events) \in Nat
      BY <1>1, TypesGive DEF IInv, Types, ChainStates
    <2> QED
      BY <1>1, <2>1, MapFacts
  <1>3. claim.history \in Seq(Evaluations) /\ claim.current \in Currents
    BY <1>2 DEF ClaimStates
  <1>4. ClaimsTold(events, cc) /\ ClaimsSeen(rows, events, cc, Len(events))
    BY <1>1, IndexedFacts DEF Follows, Indexed
  <1>5. RowMatches(rows, c, claim)
    <2>1. ~ ClaimAfter(events, Len(events), c)
      BY <1>2 DEF ClaimAfter
    <2> QED
      BY <1>1, <1>4, <2>1 DEF ClaimsSeen
  <1>6. c \in DOMAIN rows.claim /\ rows.claim[c].current = Pointer(claim.current)
    BY <1>5 DEF RowMatches
  <1>7. \A e \in all : e.claim = c /\ \E x \in E : SameKey(x, e)
    <2>1. all = All(claim)
      BY <1>2, JoinedFacts
    <2> QED
      BY <1>1, <1>4, <1>5, <2>1 DEF RowMatches, ClaimsTold
  <1>8. \A x \in E : x.claim = c => x \in all
    <2>1. all = All(claim)
      BY <1>2, JoinedFacts
    <2> QED
      BY <1>1, <1>4, <2>1 DEF ClaimsSeen
  <1>9. (rows.claim[c].current = None) = (claim.current = None)
    BY <1>6 DEF Pointer, None
  <1>10. {<<e.agent, e.date>> : e \in {x \in E : x.claim = c}} = {<<e.agent, e.date>> : e \in all}
    <2>1. ASSUME NEW e \in {x \in E : x.claim = c}
          PROVE  <<e.agent, e.date>> \in {<<f.agent, f.date>> : f \in all}
      BY <1>8
    <2>2. ASSUME NEW e \in all
          PROVE  <<e.agent, e.date>> \in {<<f.agent, f.date>> : f \in {x \in E : x.claim = c}}
      BY <1>7 DEF SameKey
    <2> QED
      BY <2>1, <2>2
  <1>11. ASSUME claim.current # None, NEW e, e = claim.current[1]
         PROVE  /\ rows.claim[c].current[1] = [agent |-> e.agent, date |-> e.date]
                /\ Twice(c, e.agent, e.date) \/ e \in E
    <2>1. claim.current = <<e>> /\ e \in Evaluations
      BY <1>3, <1>11 DEF Currents
    <2>2. rows.claim[c].current[1] = [agent |-> e.agent, date |-> e.date]
      BY <1>6, <1>11 DEF Pointer
    <2>3. e \in All(claim)
      BY <2>1, AllOne DEF All
    <2>4. PICK x \in E : SameKey(x, e)
      BY <1>5, <1>1, <2>3 DEF RowMatches
    <2>5. x.claim = c /\ x.agent = e.agent /\ x.date = e.date /\ x \in All(claim)
      <3>1. e.claim = c
        BY <1>1, <1>4, <2>3 DEF ClaimsTold
      <3>2. x.claim = c
        BY <2>4, <3>1 DEF SameKey
      <3> QED
        BY <1>1, <1>4, <2>4, <3>2 DEF SameKey, ClaimsSeen
    <2>6. CASE x \in ToSet(claim.current)
      BY <2>1, <2>2, <2>6, AllOne
    <2>7. CASE x \in ToSet(claim.history)
      <3>1. PICK i \in DOMAIN claim.history : claim.history[i] = x
        BY <2>7 DEF ToSet
      <3>2. PICK h : h = claim.history
        OBVIOUS
      <3>3. Twice(c, e.agent, e.date)
        BY <1>3, <1>11, <2>5, <3>1, <3>2, TwoOfKey
      <3> QED
        BY <2>2, <3>3
    <2> QED
      BY <2>5, <2>6, <2>7 DEF All
  <1> QED
    BY <1>1, <1>6, <1>9, <1>10, <1>11

----------------------------------------------------------------------------
(* The theorems.  All of them hold however often COMMITs lose their answer. *)

\* The variables keep their types: every claim's row is of a claim the chain
\* has, every resolution of a dispute with a row, and a cron only asks for
\* claims with a row.
THEOREM TypeCorrect == Spec => []TypeOK
  BY Invariance, TypesOfIInv, PTL

\* After each block each collection, budget, deposit, pool and the parameters
\* have the row that the chain has them in, those the upgrade wrote without an
\* event included, whenever a release that knows the upgrade begins to index:
\* only what events wrote after the upgrade and before that release's first
\* block can have been put back by ensureV7Snapshot, and an event undoes that.
THEOREM MirrorsHold == Spec => []MirrorsMatch
  <1>1. IInv => MirrorsMatch
    BY MirrorsOfIInv
  <1> QED
    BY <1>1, Invariance, PTL

\* Evaluations are inserted under their key and never again, and the claim
\* points at its current one: createClaim and updateClaim leave the rows of a
\* claim with all its evaluations and no other's.
THEOREM EvaluationsHold == Spec => []EvaluationsMatch
  BY Invariance, EvaluationsOfIInv, PTL

\* insertLiquidStakeTx under a serial number loses no transaction, and doubles
\* only those of a block indexed twice; relinking them in the snapshot gives
\* those from before the upgrade the chain's pool, whichever release ran it.
THEOREM LiquidStakesHold == Spec => []LiquidStakesMatch
  BY Invariance, StakesOfIInv, PTL

\* The invariant implies the property.
LEMMA DisputesOfFollow ==
    ASSUME IInv, DisputesFollow
    PROVE  DisputesMatch
  <1> SUFFICES ASSUME phase = "done", Upgraded => migrated, NEW d \in chain.dispute, Listed(d)
               PROVE  LET ds == {x \in rows.dispute : x.no = d.no}
                      IN  /\ ds # {}
                          /\ ~ Blurred(d) => \E x \in ds :
                                /\ ds = {x} /\ x.status = d.status
                                /\ x.id \in rows.resolution <=> d.resolved # 0
    BY DEF DisputesMatch, Indexed
  <1>1. PICK l, es, D, T, R : /\ l = Len(events) /\ es = events /\ D = chain.dispute
                              /\ T = rows.dispute /\ R = rows.resolution
    OBVIOUS
  <1>2. \A x : ~ ToOpen(es, l, x) /\ ~ ToEnd(es, l, x)
    BY <1>1, DisputeTypes, NothingComes
  <1>3. /\ DisputesTold(es, D, height, messages)
        /\ DisputesSeen(T, R, l, es, D, height, migrated, replays)
    BY <1>1 DEF DisputesFollow, Seen
  <1>4. RowsFor(T, d) = {x \in T : x.no = d.no}
    BY DEF RowsFor
  <1>5. DisputeSound(d, height, messages)
    BY <1>1, <1>3 DEF DisputesTold
  <1>6. CASE d.role = Legacy
    <2>1. First(d, D)
      BY <1>1, <1>6 DEF Listed, First
    <2>2. LegacySeen(T, R, l, es, D, migrated)
      BY <1>3 DEF DisputesSeen
    <2>3. PICK x \in T : x.no = d.no
      BY <1>1, <1>2, <1>4, <1>6, <2>1, <2>2 DEF LegacySeen
    <2>4. \A y \in T : y.no = d.no => Same(y, d)
      BY <1>1, <1>3 DEF DisputesSeen, DisputesTold
    <2>5. \A y \in T : y.no = d.no => x = y
      <3>1. \A y \in T : y.no = d.no => Same(x, y) /\ x.role = Legacy
        BY <1>6, <2>3, <2>4 DEF Same
      <3> QED
        BY <2>2, <3>1 DEF LegacySeen
    <2>6. x.role = Legacy
      BY <1>6, <2>3, <2>4 DEF Same
    <2>7. x.id \notin R /\ x.status = IF migrated THEN "dismissed" ELSE "open"
      BY <2>2, <2>6 DEF LegacySeen
    <2>8. d.resolved = 0 /\ d.status = x.status
      <3>1. migrated <=> ~ (height < UpgradeHeight)
        BY DisputeTypes, ClaimsParameters DEF Upgraded
      <3> QED
        BY <1>5, <1>6, <2>7, <3>1 DEF DisputeSound
    <2> QED
      BY <1>1, <2>3, <2>5, <2>7, <2>8
  <1>7. CASE d.role # Legacy
    <2>1. RowsFor(T, d) # {} /\ (Mixed(d, D, replays) \/ RowSeen(T, R, l, es, height, replays, d))
      BY <1>1, <1>2, <1>3, <1>7 DEF DisputesSeen, OthersSeen
    <2>2. Mixed(d, D, replays) => Blurred(d)
      BY <1>1 DEF Mixed, Blurred, Same
    <2>3. ~ Blurred(d) => Final(T, R, d)
      BY <1>2, <2>1, <2>2 DEF RowSeen
    <2>4. ~ Blurred(d) => \E x \in RowsFor(T, d) :
            RowsFor(T, d) = {x} /\ x.status = d.status /\ (x.id \in R <=> d.resolved # 0)
      BY <2>3 DEF Final, Shows
    <2> QED
      BY <1>1, <1>4, <2>1, <2>4
  <1> QED
    BY <1>6, <1>7

\* After each block every dispute has one row with the status it has on the
\* chain and a resolution just if it was decided, however often blocks were
\* indexed; but for the later ones of the old kind, which have no row, and
\* those a repeated block blurs.
THEOREM DisputesHold == Spec => []DisputesMatch
  <1>1. IInv /\ DisputesFollow => DisputesMatch
    BY DisputesOfFollow
  <1> QED
    BY <1>1, Invariance, DisputesInvariance, PTL
================================================================================
